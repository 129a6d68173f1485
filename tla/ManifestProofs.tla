--------------------------- MODULE ManifestProofs ---------------------------
(***************************************************************************)
(* Every manifest that a builder writes is one that the seed loads.        *)
(***************************************************************************)
EXTENDS DataToolsProofs

(***************************************************************************)
(* What the seed loads, as a set of rows.                                  *)
(***************************************************************************)

\* A list without a member twice.
Distinct(list) == /\ IsSequence(list)
                  /\ \A m, n \in DOMAIN list : list[m] = list[n] => m = n

\* Where the members of two lists are in both together.
LEMMA JoinedRows ==
    ASSUME NEW a, IsSequence(a), NEW b, IsSequence(b)
    PROVE  /\ DOMAIN (a \o b) = 1..Len(a) + Len(b) /\ Len(a \o b) = Len(a) + Len(b)
           /\ \A n \in 1..Len(a) : (a \o b)[n] = a[n]
           /\ \A n \in 1..Len(b) : (a \o b)[Len(a) + n] = b[n]
<1> DEFINE U == {a[n] : n \in DOMAIN a} \cup {b[n] : n \in DOMAIN b}
<1>1. a \in Seq(U) /\ b \in Seq(U)
  <2>1. /\ \A n \in 1..Len(a) : a[n] \in U
        /\ \A n \in 1..Len(b) : b[n] \in U
    BY DEF IsSequence
  <2> HIDE DEF U
  <2>2. a \in [1..Len(a) -> U] /\ b \in [1..Len(b) -> U]
    BY <2>1 DEF IsSequence
  <2> QED
    BY <2>2 DEF IsSequence
<1> HIDE DEF U
<1> QED
  BY <1>1

\* Two lists without a common member make one.
LEMMA JoinedDistinct ==
    ASSUME NEW a, Distinct(a), NEW b, Distinct(b), ToSet(a) \cap ToSet(b) = {}
    PROVE  /\ Distinct(a \o b) /\ ToSet(a \o b) = ToSet(a) \cup ToSet(b)
           /\ Len(a \o b) = Len(a) + Len(b)
<1> DEFINE all == a \o b
           L == Len(a)
<1>1. /\ IsSequence(a) /\ IsSequence(b)
      /\ DOMAIN a = 1..L /\ DOMAIN b = 1..Len(b) /\ L \in Nat /\ Len(b) \in Nat
      /\ \A m, n \in DOMAIN a : a[m] = a[n] => m = n
      /\ \A m, n \in DOMAIN b : b[m] = b[n] => m = n
  BY DEF Distinct, IsSequence
<1>2. /\ DOMAIN all = 1..L + Len(b) /\ Len(all) = L + Len(b)
      /\ \A n \in 1..L : all[n] = a[n]
      /\ \A n \in 1..Len(b) : all[L + n] = b[n]
  BY JoinedRows, <1>1
<1>8. IsSequence(all)
  BY <1>1, RowsJoined
<1> HIDE DEF all, L
<1>3. \A n \in 1..L + Len(b) : \/ n \in 1..L /\ all[n] = a[n] /\ all[n] \in ToSet(a)
                               \/ /\ n \notin 1..L /\ n - L \in 1..Len(b)
                                  /\ all[n] = b[n - L] /\ all[n] \in ToSet(b)
  <2> SUFFICES ASSUME NEW n \in 1..L + Len(b), n \notin 1..L
               PROVE  n - L \in 1..Len(b) /\ all[n] = b[n - L] /\ all[n] \in ToSet(b)
    BY <1>1, <1>2 DEF ToSet
  <2>1. n - L \in 1..Len(b) /\ L + (n - L) = n
    BY <1>1
  <2>2. all[L + (n - L)] = b[n - L]
    BY <1>2, <2>1
  <2> QED
    BY <1>1, <2>1, <2>2 DEF ToSet
<1>4. ASSUME NEW m \in 1..L + Len(b), NEW n \in 1..L + Len(b), all[m] = all[n]
      PROVE  m = n
  <2>1. ASSUME m \in 1..L, n \in 1..L PROVE m = n
    BY <1>1, <1>2, <1>4, <2>1
  <2>2. ASSUME m \notin 1..L, n \notin 1..L PROVE m = n
    <3>1. m - L \in 1..Len(b) /\ n - L \in 1..Len(b) /\ b[m - L] = b[n - L]
      BY <1>3, <1>4, <2>2
    <3>2. m - L = n - L
      BY <1>1, <3>1
    <3> QED
      BY <1>1, <3>2
  <2>3. (m \in 1..L) = (n \in 1..L)
    BY <1>3, <1>4
  <2> QED
    BY <2>1, <2>2, <2>3
<1>5. \A x \in ToSet(a) \cup ToSet(b) : \E n \in 1..L + Len(b) : all[n] = x
  <2>1. ASSUME NEW n \in 1..L PROVE \E k \in 1..L + Len(b) : all[k] = a[n]
    BY <1>1, <1>2
  <2>2. ASSUME NEW n \in 1..Len(b) PROVE \E k \in 1..L + Len(b) : all[k] = b[n]
    <3>1. L + n \in 1..L + Len(b)
      BY <1>1
    <3> QED
      BY <1>2, <3>1
  <2>3. /\ \A x \in ToSet(a) : \E n \in 1..L : x = a[n]
        /\ \A x \in ToSet(b) : \E n \in 1..Len(b) : x = b[n]
    BY <1>1 DEF ToSet
  <2>4. ASSUME NEW x \in ToSet(a) PROVE \E k \in 1..L + Len(b) : all[k] = x
    <3>1. PICK n \in 1..L : x = a[n]
      BY <2>3
    <3> QED
      BY <2>1, <3>1
  <2>5. ASSUME NEW x \in ToSet(b) PROVE \E k \in 1..L + Len(b) : all[k] = x
    <3>1. PICK n \in 1..Len(b) : x = b[n]
      BY <2>3
    <3> QED
      BY <2>2, <3>1, Zenon
  <2> QED
    BY <2>4, <2>5
<1>6. ToSet(all) = ToSet(a) \cup ToSet(b)
  <2>1. ToSet(all) = {all[n] : n \in 1..L + Len(b)}
    BY <1>2 DEF ToSet
  <2>2. ToSet(all) \subseteq ToSet(a) \cup ToSet(b)
    <3>1. \A n \in 1..L + Len(b) : all[n] \in ToSet(a) \cup ToSet(b)
      BY <1>3
    <3> HIDE DEF all
    <3> QED
      BY <2>1, <3>1
  <2>3. ToSet(a) \cup ToSet(b) \subseteq ToSet(all)
    <3> HIDE DEF all
    <3> QED
      BY <1>5, <2>1
  <2> QED
    BY <2>2, <2>3, Zenon
<1>7. Distinct(all)
  BY <1>2, <1>4, <1>8 DEF Distinct
<1> QED
  BY <1>2, <1>6, <1>7 DEF all, L

\* What is picked from a list that has nothing twice.
LEMMA PickedDistinct ==
    ASSUME NEW list, Distinct(list), NEW places, places \subseteq DOMAIN list
    PROVE  Distinct(Picked(list, places)) /\ ToSet(Picked(list, places)) = {list[n] : n \in places}
<1> DEFINE order == ascending(places)
           picked == Picked(list, places)
<1>1. IsSequence(list) /\ \A m, n \in DOMAIN list : list[m] = list[n] => m = n
  BY DEF Distinct
<1>2. IsSequence(picked) /\ ToSet(picked) = {list[n] : n \in places}
  BY <1>1, PickedAre
<1>3. IsFiniteSet(places) /\ places \subseteq Int
  <2>1. DOMAIN list = 1..Len(list) /\ Len(list) \in Nat
    BY <1>1 DEF IsSequence
  <2>2. IsFiniteSet(1..Len(list)) /\ DOMAIN list \subseteq Int
    BY <2>1, FS_Interval
  <2> QED
    BY <2>1, <2>2, FS_Subset
<1>4. /\ Len(order) \in Nat /\ DOMAIN order = 1..Len(order)
      /\ \A n \in 1..Len(order) : order[n] \in places
      /\ \A m, n \in 1..Len(order) : m < n => order[m] < order[n]
  BY <1>3, Ascending
<1>5. picked = [k \in DOMAIN order |-> list[order[k]]]
  BY DEF Picked
<1> HIDE DEF order, picked
<1>6. ASSUME NEW m \in DOMAIN picked, NEW n \in DOMAIN picked, picked[m] = picked[n]
      PROVE  m = n
  <2>1. /\ m \in 1..Len(order) /\ n \in 1..Len(order)
        /\ order[m] \in places /\ order[n] \in places /\ list[order[m]] = list[order[n]]
    BY <1>4, <1>5, <1>6
  <2>2. order[m] = order[n]
    BY <1>1, <2>1
  <2>3. order[m] \in Int /\ order[n] \in Int
    BY <1>3, <2>1
  <2>4. ~ (m < n) /\ ~ (n < m)
    BY <1>4, <2>1, <2>2, <2>3
  <2> QED
    BY <1>4, <2>1, <2>4
<1> QED
  BY <1>2, <1>6 DEF Distinct, picked

\* As many members of a list that has nothing twice are in a set as places.
LEMMA PlacesOf ==
    ASSUME NEW list, Distinct(list), NEW F
    PROVE  /\ Cardinality({n \in DOMAIN list : list[n] \in F})
                = Cardinality(ToSet(list) \cap F)
           /\ IsFiniteSet(ToSet(list)) /\ Cardinality(ToSet(list)) = Len(list)
           /\ Len(list) \in Nat
<1> DEFINE Places(S) == {n \in DOMAIN list : list[n] \in S}
<1>1. /\ DOMAIN list = 1..Len(list) /\ Len(list) \in Nat
      /\ \A m, n \in DOMAIN list : list[m] = list[n] => m = n
      /\ IsSequence(list)
  BY DEF Distinct, IsSequence
<1>2. IsFiniteSet(1..Len(list)) /\ Cardinality(1..Len(list)) = Len(list)
  <2>1. Cardinality(1..Len(list)) = IF 1 > Len(list) THEN 0 ELSE Len(list) - 1 + 1
    BY <1>1, FS_Interval
  <2>2. IsFiniteSet(1..Len(list))
    BY <1>1, FS_Interval
  <2> QED
    BY <1>1, <2>1, <2>2
<1>3. ASSUME NEW S
      PROVE  Cardinality(Places(S)) = Cardinality(ToSet(list) \cap S)
  <2> DEFINE at == [n \in Places(S) |-> list[n]]
             T == ToSet(list) \cap S
             P == Places(S)
  <2>1. IsFiniteSet(P)
    BY <1>1, <1>2, FS_Subset
  <2>2. /\ at \in [P -> T]
        /\ \A x, y \in P : at[x] = at[y] => x = y
        /\ \A y \in T : \E x \in P : at[x] = y
    BY <1>1 DEF ToSet
  <2> HIDE DEF at, T, P
  <2>3. Cardinality(T) = Cardinality(P)
    BY <2>1, <2>2, SameSize
  <2> QED
    BY <2>3 DEF T, P
<1>4. Places(ToSet(list)) = 1..Len(list) /\ ToSet(list) \cap ToSet(list) = ToSet(list)
  BY <1>1 DEF ToSet
<1>5. Cardinality(Places(ToSet(list))) = Cardinality(ToSet(list) \cap ToSet(list))
  BY <1>3
<1>6. IsFiniteSet(ToSet(list))
  BY <1>1, FewMembers
<1> QED
  BY <1>1, <1>2, <1>3, <1>4, <1>5, <1>6

\* The group a row is of, and the rows of one.
Name(r) == <<r.wave, r.cell, r.type>>
Group(S, g) == {r \in S : Name(r) = g}
Names(w) == {w} \X Serials \X ImageTypes

Captures(G, set, qualities) == {r \in G : r.set = set /\ r.quality \in qualities}

\* Rows of one group, of different images.
WellMade(G, g) ==
    /\ \A r \in G :
          /\ Name(r) = g /\ r.set \in {"INITIAL", "RECAPTURE"} /\ r.quality \in {"PASS", "FAIL"}
          /\ r.object.set = r.set /\ r.object.type = r.type
    /\ \A r, q \in G : r.object = q.object => r = q

\* They are as many as GroupIsComplete wants.
IsComplete(G, g) ==
    LET legacy == g[1] = Legacy
        HowMany(set, qualities) == Cardinality(Captures(G, set, qualities))
        fails == HowMany("INITIAL", {"FAIL"})
        retaken == IF legacy THEN <<g[2], g[3]>> \in RecaptureGroups ELSE fails = WaveFails
        images == IF legacy THEN LegacyImages ELSE WaveImages
    IN  /\ HowMany("INITIAL", {"PASS", "FAIL"}) = images
        /\ fails = IF ~ retaken THEN 0 ELSE IF legacy THEN 1 ELSE WaveFails
        /\ HowMany("RECAPTURE", {"PASS", "FAIL"}) = IF retaken THEN images ELSE 0
        /\ HowMany("RECAPTURE", {"FAIL"}) = 0

\* A group of an open type passes and is initial, but may be of any size yet.
Closed == {}
CtOpen == {"CT"}

Fits(G, g, open) ==
    /\ WellMade(G, g)
    /\ \/ IsComplete(G, g)
       \/ g[3] \in open /\ \A r \in G : r.set = "INITIAL" /\ r.quality = "PASS"

GroupsFit(S, done, open) ==
    /\ \A r \in S : Name(r) \in done
    /\ \A g \in done : Fits(Group(S, g), g, open)

\* One more group.
LEMMA GroupJoins ==
    ASSUME NEW S, NEW done, NEW open, GroupsFit(S, done, open),
           NEW g, g \notin done, NEW G, Fits(G, g, open)
    PROVE  GroupsFit(S \cup G, done \cup {g}, open) /\ S \cap G = {}
<1>1. /\ \A r \in S : Name(r) \in done
      /\ \A h \in done : Fits(Group(S, h), h, open)
  BY DEF GroupsFit
<1>2. \A r \in G : Name(r) = g
  BY DEF Fits, WellMade
<1>3. S \cap G = {}
  BY <1>1, <1>2
<1>4. Group(S \cup G, g) = G /\ \A h \in done : Group(S \cup G, h) = Group(S, h)
  BY <1>1, <1>2 DEF Group
<1>5. \A r \in S \cup G : Name(r) \in done \cup {g}
  BY <1>1, <1>2
<1>6. \A h \in done \cup {g} : Fits(Group(S \cup G, h), h, open)
  BY <1>1, <1>4, Zenon
<1> QED
  BY <1>3, <1>5, <1>6 DEF GroupsFit

\* None yet.
LEMMA NoGroups ==
    ASSUME NEW open
    PROVE  GroupsFit({}, {}, open) /\ Distinct(<< >>) /\ ToSet(<< >>) = {}
BY DEF GroupsFit, Distinct, IsSequence, ToSet

\* There are groups, and all have images.
LEMMA SomeImages ==
    /\ CellCount \in Nat /\ 1 \in Serials /\ LegacyImages \in Nat /\ LegacyImages > 0
    /\ WaveImages \in Nat /\ WaveImages > 0 /\ WaveFails \in Nat /\ WaveFails > 0
    /\ \A w, c, t : <<w, c, t>> \in Names(w) <=> c \in Serials /\ t \in ImageTypes
BY PlanAssumption, CalibrationAssumption DEF Serials, Names

\* A complete group is not empty.
LEMMA SomeRows ==
    ASSUME NEW G, NEW g, IsComplete(G, g)
    PROVE  G # {}
<1>1. Cardinality(Captures(G, "INITIAL", {"PASS", "FAIL"})) > 0
  BY SomeImages DEF IsComplete
<1>2. Captures(G, "INITIAL", {"PASS", "FAIL"}) # {}
  BY <1>1, FS_EmptySet
<1> QED
  BY <1>2 DEF Captures

\* The counts of the seed are sizes of sets.
LEMMA CountsAre ==
    ASSUME NEW rows, Distinct(rows), NEW w,
           \A r \in ToSet(rows) : r.wave = w /\ r.quality \in {"PASS", "FAIL"},
           NEW c, NEW t
    PROVE  LET G == Group(ToSet(rows), <<w, c, t>>)
           IN  /\ \A set : group_counts(rows, c, t, set)
                             = Cardinality(Captures(G, set, {"PASS", "FAIL"}))
               /\ \A set : fail_counts(rows, c, t, set)
                             = Cardinality(Captures(G, set, {"FAIL"}))
               /\ GroupIsComplete(rows, c, t, w = Legacy) <=> IsComplete(G, <<w, c, t>>)
<1> DEFINE S == ToSet(rows)
           G == Group(S, <<w, c, t>>)
           Places(F) == {n \in DOMAIN rows : rows[n] \in F}
<1>1. \A n \in DOMAIN rows : rows[n] \in S
  BY DEF ToSet
<1>2. \A F : Cardinality(Places(F)) = Cardinality(S \cap F)
  BY PlacesOf
<1>3. ASSUME NEW set
      PROVE  /\ group_counts(rows, c, t, set) = Cardinality(Captures(G, set, {"PASS", "FAIL"}))
             /\ fail_counts(rows, c, t, set) = Cardinality(Captures(G, set, {"FAIL"}))
  <2> DEFINE all == Captures(G, set, {"PASS", "FAIL"})
             failing == Captures(G, set, {"FAIL"})
  <2>1. \A r \in S : r \in G <=> r.cell = c /\ r.type = t
    BY DEF Group, Name
  <2>2. G \subseteq S
    BY DEF Group
  <2> HIDE DEF G, S
  <2>3. /\ \A r \in S : r \in all <=> r.cell = c /\ r.type = t /\ r.set = set
        /\ \A r \in S : r \in failing <=> /\ r.cell = c /\ r.type = t /\ r.set = set
                                          /\ r.quality = "FAIL"
        /\ S \cap all = all /\ S \cap failing = failing
    BY <2>1, <2>2 DEF Captures, S
  <2> HIDE DEF all, failing
  <2>4. GroupPlaces(rows, c, t, set) = Places(all)
    BY <1>1, <2>3 DEF GroupPlaces
  <2>5. {n \in GroupPlaces(rows, c, t, set) : rows[n].quality = "FAIL"} = Places(failing)
    BY <1>1, <2>3 DEF GroupPlaces
  <2>6. /\ group_counts(rows, c, t, set) = Cardinality(Places(all))
        /\ fail_counts(rows, c, t, set) = Cardinality(Places(failing))
    BY <2>4, <2>5 DEF group_counts, fail_counts
  <2> HIDE DEF Places
  <2> QED
    BY <1>2, <2>3, <2>6 DEF all, failing
<1> HIDE DEF G
<1>4. /\ <<w, c, t>>[1] = w /\ <<w, c, t>>[2] = c /\ <<w, c, t>>[3] = t
  OBVIOUS
<1>5. GroupIsComplete(rows, c, t, w = Legacy) <=> IsComplete(G, <<w, c, t>>)
  BY <1>3, <1>4 DEF GroupIsComplete, IsComplete
<1> QED
  BY <1>3, <1>5 DEF G, S

\* A list of all groups of a wave, or of none, is loaded.
LEMMA GroupsAreAccepted ==
    ASSUME NEW rows, Distinct(rows), NEW w \in 0..5, GroupsFit(ToSet(rows), Names(w), Closed)
    PROVE  Accepted(rows)
<1> DEFINE S == ToSet(rows)
           legacy == rows # << >> /\ rows[1].wave = Legacy
<1>1. /\ \A r \in S : Name(r) \in Names(w)
      /\ \A g \in Names(w) : WellMade(Group(S, g), g) /\ IsComplete(Group(S, g), g)
  BY DEF GroupsFit, Fits, Closed
<1>2. ASSUME NEW r \in S
      PROVE  /\ r.wave = w /\ r.cell \in Serials /\ r.type \in ImageTypes
             /\ r.set \in {"INITIAL", "RECAPTURE"} /\ r.quality \in {"PASS", "FAIL"}
             /\ r.object.set = r.set /\ r.object.type = r.type
             /\ r \in Group(S, Name(r)) /\ Name(r) \in Names(w)
  <2>1. r \in Group(S, Name(r)) /\ Name(r) \in Names(w)
    BY <1>1 DEF Group
  <2>2. r.wave = w /\ r.cell \in Serials /\ r.type \in ImageTypes
    BY <2>1 DEF Name, Names
  <2> QED
    BY <1>1, <2>1, <2>2 DEF WellMade
<1>3. /\ \A n \in DOMAIN rows : rows[n] \in S
      /\ DOMAIN rows = 1..Len(rows) /\ Len(rows) \in Nat
      /\ \A m, n \in DOMAIN rows : rows[m] = rows[n] => m = n
  BY DEF ToSet, Distinct, IsSequence
<1>4. rows # << >> /\ rows[1] \in S
  <2>1. <<w, 1, "CT">> \in Names(w)
    BY SomeImages DEF ImageTypes
  <2>2. Group(S, <<w, 1, "CT">>) # {}
    BY <1>1, <2>1, SomeRows
  <2>3. PICK r : r \in S
    BY <2>2 DEF Group
  <2>4. DOMAIN rows # {}
    BY <2>3 DEF ToSet
  <2>5. 1 \in DOMAIN rows
    BY <1>3, <2>4
  <2> QED
    BY <1>3, <2>5
<1>5. legacy <=> w = Legacy
  BY <1>2, <1>4
<1> HIDE DEF S
<1>6. ASSUME NEW n \in DOMAIN rows
      PROVE  /\ rows[n].wave \in IF legacy THEN {Legacy} ELSE 1..5
             /\ rows[n].wave = rows[1].wave
             /\ rows[n].cell \in Serials /\ rows[n].type \in ImageTypes
             /\ rows[n].quality \in {"PASS", "FAIL"}
             /\ rows[n].set \in {"INITIAL", "RECAPTURE"}
             /\ rows[n].object.set = rows[n].set /\ rows[n].object.type = rows[n].type
  <2>1. rows[n].wave = w /\ rows[1].wave = w
    BY <1>2, <1>3, <1>4
  <2>2. w \in IF legacy THEN {Legacy} ELSE 1..5
    BY <1>5 DEF Legacy
  <2> QED
    BY <1>2, <1>3, <2>1, <2>2
<1>7. ASSUME NEW m \in DOMAIN rows, NEW n \in DOMAIN rows,
             rows[m].cell = rows[n].cell, rows[m].object = rows[n].object
      PROVE  m = n
  <2> DEFINE r == rows[m]
             q == rows[n]
  <2>1. r \in S /\ q \in S /\ r.cell = q.cell /\ r.object = q.object
    BY <1>3, <1>7
  <2>2. r.type = q.type /\ r.wave = q.wave
    BY <1>2, <2>1
  <2>3. Name(r) = Name(q)
    BY <2>1, <2>2 DEF Name
  <2> HIDE DEF r, q
  <2>4. r \in Group(S, Name(r)) /\ q \in Group(S, Name(r)) /\ Name(r) \in Names(w)
    BY <1>2, <2>1, <2>3
  <2>5. r = q
    BY <1>1, <2>1, <2>4 DEF WellMade
  <2> QED
    BY <1>3, <2>5 DEF r, q
<1>8. ASSUME NEW c \in Serials, NEW t \in ImageTypes
      PROVE  GroupIsComplete(rows, c, t, legacy)
  <2>1. <<w, c, t>> \in Names(w)
    BY SomeImages
  <2>2. IsComplete(Group(S, <<w, c, t>>), <<w, c, t>>)
    BY <1>1, <2>1
  <2>3. \A r \in ToSet(rows) : r.wave = w /\ r.quality \in {"PASS", "FAIL"}
    BY <1>2 DEF S
  <2>4. GroupIsComplete(rows, c, t, w = Legacy)
    BY <2>2, <2>3, CountsAre DEF S
  <2>5. legacy = (w = Legacy)
    BY <1>5
  <2> HIDE DEF legacy
  <2> QED
    BY <2>4, <2>5
<1> QED
  BY <1>6, <1>7, <1>8 DEF Accepted

\* A list of the first wave that is loaded has all groups of it.
LEMMA AcceptedGroups ==
    ASSUME NEW rows, IsSequence(rows), Accepted(rows), \A r \in ToSet(rows) : r.wave = 1
    PROVE  Distinct(rows) /\ GroupsFit(ToSet(rows), Names(1), Closed)
<1> DEFINE S == ToSet(rows)
           legacy == rows # << >> /\ rows[1].wave = Legacy
<1>1. ~ legacy
  <2>1. rows # << >> => 1 \in DOMAIN rows
    BY DEF IsSequence
  <2> QED
    BY <2>1 DEF ToSet, Legacy
<1>2. \A n \in DOMAIN rows :
         /\ rows[n].cell \in Serials /\ rows[n].type \in ImageTypes
         /\ rows[n].quality \in {"PASS", "FAIL"}
         /\ rows[n].set \in {"INITIAL", "RECAPTURE"}
         /\ rows[n].object.set = rows[n].set /\ rows[n].object.type = rows[n].type
  BY DEF Accepted
<1>3. \A m, n \in DOMAIN rows :
         rows[m].cell = rows[n].cell /\ rows[m].object = rows[n].object => m = n
  BY DEF Accepted
<1>4. \A c \in Serials, t \in ImageTypes : GroupIsComplete(rows, c, t, FALSE)
  BY <1>1 DEF Accepted
<1>5. \A r \in S : \E n \in DOMAIN rows : r = rows[n]
  BY DEF ToSet
<1>6. Distinct(rows)
  BY <1>3 DEF Distinct
<1>7. ASSUME NEW r \in S
      PROVE  /\ r.wave = 1 /\ r.cell \in Serials /\ r.type \in ImageTypes
             /\ r.quality \in {"PASS", "FAIL"} /\ r.set \in {"INITIAL", "RECAPTURE"}
             /\ r.object.set = r.set /\ r.object.type = r.type
             /\ Name(r) \in Names(1)
  BY <1>2, <1>5, SomeImages DEF Name
<1>8. \A r, q \in S : r.cell = q.cell /\ r.object = q.object => r = q
  BY <1>3, <1>5
<1> HIDE DEF S
<1>9. ASSUME NEW g \in Names(1)
      PROVE  Fits(Group(S, g), g, Closed)
  <2>1. WellMade(Group(S, g), g)
    <3>1. \A r, q \in Group(S, g) : r.cell = q.cell /\ r \in S /\ q \in S
      BY DEF Group, Name
    <3>2. \A r \in Group(S, g) : r \in S /\ Name(r) = g
      BY DEF Group
    <3> QED
      BY <1>7, <1>8, <3>1, <3>2 DEF WellMade
  <2>2. PICK c \in Serials, t \in ImageTypes : g = <<1, c, t>>
    BY DEF Names
  <2>3. \A r \in ToSet(rows) : r.wave = 1 /\ r.quality \in {"PASS", "FAIL"}
    BY <1>7 DEF S
  <2>4. GroupIsComplete(rows, c, t, 1 = Legacy)
    <3>1. (1 = Legacy) = FALSE
      BY DEF Legacy
    <3> QED
      BY <1>4, <3>1
  <2>5. IsComplete(Group(S, g), g)
    BY <1>6, <2>2, <2>3, <2>4, CountsAre DEF S
  <2> QED
    BY <2>1, <2>5 DEF Fits
<1> QED
  BY <1>6, <1>7, <1>9 DEF GroupsFit, S

\* A list of different images, each made a row with it.
LEMMA RowsOfImages ==
    ASSUME NEW list, Distinct(list), NEW rows, rows = [n \in DOMAIN list |-> rows[n]],
           \A m, n \in DOMAIN list : rows[m].object = rows[n].object => list[m] = list[n]
    PROVE  /\ Distinct(rows) /\ Len(rows) = Len(list)
           /\ \A r, q \in ToSet(rows) : r.object = q.object => r = q
           /\ \A r \in ToSet(rows) : \E n \in DOMAIN list : r = rows[n]
           /\ \A n \in DOMAIN list : rows[n] \in ToSet(rows)
<1>1. /\ DOMAIN list = 1..Len(list) /\ Len(list) \in Nat
      /\ \A m, n \in DOMAIN list : list[m] = list[n] => m = n
  BY DEF Distinct, IsSequence
<1>2. DOMAIN rows = 1..Len(list)
  BY <1>1
<1>3. Len(rows) = Len(list) /\ IsSequence(rows)
  BY <1>1, <1>2 DEF IsSequence
<1>4. \A m, n \in DOMAIN list : rows[m].object = rows[n].object => m = n
  BY <1>1
<1>5. Distinct(rows)
  BY <1>1, <1>2, <1>3, <1>4 DEF Distinct
<1>6. /\ \A r \in ToSet(rows) : \E n \in DOMAIN list : r = rows[n]
      /\ \A n \in DOMAIN list : rows[n] \in ToSet(rows)
  BY <1>1, <1>2 DEF ToSet
<1>7. \A r, q \in ToSet(rows) : r.object = q.object => r = q
  BY <1>4, <1>6
<1> QED
  BY <1>3, <1>5, <1>6, <1>7

(***************************************************************************)
(* Manifest v1.5.                                                          *)
(***************************************************************************)

\* What is taken from a pool: as many as wanted, none twice, none that is
\* used.
LEMMA TakeIs ==
    ASSUME NEW pool, Distinct(pool), NEW used, NEW count \in Nat, NEW offset \in Nat,
           NEW taken, taken = take(pool, used, count, offset), taken # Refused
    PROVE  /\ Distinct(taken) /\ Len(taken) = count
           /\ ToSet(taken) \subseteq ToSet(pool) /\ ToSet(taken) \cap used = {}
<1> DEFINE L == Len(pool)
           rotated == [k \in DOMAIN pool |-> pool[1 + ((offset + k - 1) % L)]]
           places == {k \in DOMAIN pool : rotated[k] \notin used}
           free == Picked(rotated, places)
<1>1. pool # << >> /\ ~ (Len(free) < count) /\ taken = SubSeq(free, 1, count)
  BY DEF take
<1>2. /\ DOMAIN pool = 1..L /\ L \in Nat
      /\ pool = [n \in 1..L |-> pool[n]]
      /\ \A m, n \in DOMAIN pool : pool[m] = pool[n] => m = n
  BY DEF Distinct, IsSequence
<1>3. L > 0
  <2>1. L = 0 => pool = << >>
    BY <1>2
  <2>2. pool # << >> /\ L \in Nat
    BY <1>1, <1>2
  <2> HIDE DEF L
  <2> QED
    BY <2>1, <2>2
<1> HIDE DEF L, free
<1>4. ASSUME NEW k \in 1..L
      PROVE  offset + k - 1 \in Nat /\ 1 + ((offset + k - 1) % L) \in 1..L
  <2> DEFINE a == offset + k - 1
             e == a % L
  <2>1. a \in Nat
    OBVIOUS
  <2> HIDE DEF a
  <2>2. e \in 0..L - 1
    BY <1>2, <1>3, <2>1, Remainder
  <2> HIDE DEF e
  <2>3. 1 + e \in 1..L
    BY <1>2, <2>2
  <2> QED
    BY <2>1, <2>3 DEF e, a
<1>5. ASSUME NEW k \in 1..L, NEW m \in 1..L, k < m
      PROVE  rotated[k] # rotated[m]
  <2> DEFINE a == offset + k - 1
             d == m - k
  <2>1. a \in Nat /\ d \in 1..L - 1 /\ offset + m - 1 = a + d
    BY <1>2, <1>5
  <2> HIDE DEF a, d
  <2>2. (a + d) % L # a % L
    BY <1>2, <1>3, <2>1, OtherRemainder
  <2>3. 1 + (a % L) \in 1..L /\ 1 + ((a + d) % L) \in 1..L
    BY <1>4, <2>1 DEF a
  <2>4. rotated[k] = pool[1 + (a % L)] /\ rotated[m] = pool[1 + ((a + d) % L)]
    BY <1>2, <2>1 DEF a
  <2>5. 1 + (a % L) # 1 + ((a + d) % L)
    <3> DEFINE e == a % L
               f == (a + d) % L
    <3>1. e \in 0..L - 1 /\ f \in 0..L - 1 /\ f # e
      <4>1. a + d \in Nat
        BY <2>1
      <4> QED
        BY <1>2, <1>3, <2>1, <2>2, <4>1, Remainder
    <3> HIDE DEF e, f
    <3>2. 1 + e # 1 + f
      BY <1>2, <3>1
    <3> QED
      BY <3>2 DEF e, f
  <2> QED
    BY <1>2, <2>3, <2>4, <2>5
<1>6. Distinct(rotated)
  <2>1. DOMAIN rotated = 1..L /\ Len(rotated) = L /\ IsSequence(rotated)
    BY <1>2 DEF IsSequence
  <2> HIDE DEF rotated
  <2>2. \A k, m \in 1..L : rotated[k] = rotated[m] => k = m
    <3> SUFFICES ASSUME NEW k \in 1..L, NEW m \in 1..L, rotated[k] = rotated[m], k # m
                 PROVE  FALSE
      OBVIOUS
    <3>1. k < m \/ m < k
      OBVIOUS
    <3> QED
      BY <1>5, <3>1
  <2> QED
    BY <2>1, <2>2 DEF Distinct
<1>7. \A k \in DOMAIN pool : rotated[k] \in ToSet(pool)
  BY <1>2, <1>4 DEF ToSet
<1>8. places \subseteq DOMAIN rotated
  OBVIOUS
<1>9. \A k \in places : rotated[k] \in ToSet(pool) /\ rotated[k] \notin used
  BY <1>7
<1> HIDE DEF rotated, places
<1>10. Distinct(free) /\ ToSet(free) = {rotated[k] : k \in places}
  BY <1>6, <1>8, PickedDistinct DEF free
<1>11. /\ free \in Seq(ToSet(free)) /\ Len(free) \in Nat /\ DOMAIN free = 1..Len(free)
       /\ \A m, n \in DOMAIN free : free[m] = free[n] => m = n
  <2>1. DOMAIN free = 1..Len(free) /\ Len(free) \in Nat /\ free = [n \in 1..Len(free) |-> free[n]]
        /\ \A m, n \in DOMAIN free : free[m] = free[n] => m = n
    BY <1>10 DEF Distinct, IsSequence
  <2>2. \A n \in 1..Len(free) : free[n] \in ToSet(free)
    BY <2>1 DEF ToSet
  <2> HIDE DEF free
  <2>3. free \in [1..Len(free) -> ToSet(free)]
    BY <2>1, <2>2
  <2> QED
    BY <2>1, <2>3
<1>12. /\ taken = [n \in 1..count |-> free[n]] /\ Len(taken) = count
       /\ DOMAIN taken = 1..count /\ 1..count \subseteq DOMAIN free
  BY <1>1, <1>11
<1>13. Distinct(taken) /\ ToSet(taken) \subseteq ToSet(free)
  <2>1. IsSequence(taken)
    BY <1>12 DEF IsSequence
  <2>2. \A m, n \in DOMAIN taken : taken[m] = taken[n] => m = n
    BY <1>11, <1>12
  <2>3. ToSet(taken) \subseteq ToSet(free)
    BY <1>12 DEF ToSet
  <2> QED
    BY <2>1, <2>2, <2>3 DEF Distinct
<1> QED
  BY <1>9, <1>10, <1>12, <1>13

\* Frames of a set, a type and a number.
IsMeta(meta) == /\ IsFiniteSet(DOMAIN meta)
                /\ DOMAIN meta \subseteq [set : {"INITIAL", "RECAPTURE"}, type : ImageTypes,
                                          source : Int]

\* Frames of one set and type, listed.
LEMMA StemsAre ==
    ASSUME NEW meta, IsMeta(meta), NEW set, NEW type, NEW stems, stems \subseteq DOMAIN meta,
           \A s \in stems : s.set = set /\ s.type = type
    PROVE  Distinct(SortedStems(stems)) /\ ToSet(SortedStems(stems)) = stems
<1> DEFINE key == [s \in stems |-> s.source]
           list == sorted(stems, key)
           size == Cardinality(stems)
<1>1. IsFiniteSet(stems)
  BY FS_Subset DEF IsMeta
<1>2. key \in [stems -> Int] /\ \A x, y \in stems : key[x] = key[y] => x = y
  <2>1. \A s \in stems : s \in [set : {"INITIAL", "RECAPTURE"}, type : ImageTypes, source : Int]
    BY DEF IsMeta
  <2>2. \A s \in stems : s.source \in Int /\ s = [set |-> set, type |-> type, source |-> s.source]
    BY <2>1
  <2>3. \A x, y \in stems : x.source = y.source => x = y
    BY <2>2, Zenon
  <2> QED
    BY <2>2, <2>3
<1>3. SortedStems(stems) = list
  BY DEF SortedStems
<1> HIDE DEF key
<1>4. /\ list \in [1..size -> stems] /\ Len(list) = size /\ size \in Nat
      /\ \A m, n \in 1..size : list[m] = list[n] => m = n
      /\ \A x \in stems : \E n \in 1..size : list[n] = x
  BY <1>1, <1>2, Sorted
<1> HIDE DEF list, size
<1>5. Distinct(list)
  BY <1>4 DEF Distinct, IsSequence
<1>6. ToSet(list) = stems
  BY <1>4 DEF ToSet
<1> QED
  BY <1>3, <1>5, <1>6

\* The pools of a builder.
LEMMA PoolsAreStems ==
    ASSUME NEW meta, IsMeta(meta), NEW set, NEW type, NEW defective
    PROVE  LET pool == build_pools(meta, set, type, defective)
               damaged == Damaged(meta)
           IN  /\ Distinct(pool) /\ Distinct(damaged)
               /\ \A s \in ToSet(pool) : /\ s \in DOMAIN meta /\ s.set = set /\ s.type = type
                                         /\ (meta[s] # {}) = defective
               /\ \A s \in ToSet(damaged) : /\ s \in DOMAIN meta /\ s.set = "INITIAL"
                                            /\ s.type = "RGB" /\ meta[s] # {}
<1> DEFINE stems == {s \in DOMAIN meta : /\ s.set = set /\ s.type = type
                                         /\ (meta[s] # {}) = defective}
           bad == {s \in DOMAIN meta : /\ s.set = "INITIAL" /\ s.type = "RGB"
                                       /\ "Damaged" \in meta[s]}
<1>1. /\ stems \subseteq DOMAIN meta /\ \A s \in stems : s.set = set /\ s.type = type
      /\ bad \subseteq DOMAIN meta /\ \A s \in bad : s.set = "INITIAL" /\ s.type = "RGB"
  OBVIOUS
<1>2. /\ \A s \in stems : (meta[s] # {}) = defective
      /\ \A s \in bad : meta[s] # {}
  OBVIOUS
<1>3. build_pools(meta, set, type, defective) = SortedStems(stems) /\ Damaged(meta) = SortedStems(bad)
  BY DEF build_pools, Damaged
<1> HIDE DEF stems, bad
<1>4. Distinct(SortedStems(stems)) /\ ToSet(SortedStems(stems)) = stems
  BY <1>1, StemsAre
<1>5. Distinct(SortedStems(bad)) /\ ToSet(SortedStems(bad)) = bad
  BY <1>1, StemsAre
<1> QED
  BY <1>1, <1>2, <1>3, <1>4, <1>5

\* Different frames, as many as a group of v1.5 has.
AreStems(parts, cell, type) ==
    LET initial == parts.damaged \o parts.defective \o parts.clean
    IN  /\ Distinct(initial) /\ Len(initial) = LegacyImages
        /\ \A s \in ToSet(initial) : s.set = "INITIAL" /\ s.type = type
        /\ Distinct(parts.retaken)
        /\ \A s \in ToSet(parts.retaken) : s.set = "RECAPTURE" /\ s.type = type
        /\ Len(parts.retaken)
              = IF <<cell, type>> \in RecaptureGroups THEN LegacyImages ELSE 0

\* The frames of one group.
LEMMA StemsOfGroup ==
    ASSUME NEW meta, IsMeta(meta), NEW cell \in Serials, NEW type \in ImageTypes,
           NEW parts, parts = Parts(meta, cell, type), ~ IsRefused(parts)
    PROVE  AreStems(parts, cell, type)
<1> DEFINE index == cell - 1
           defects == DefectPlan[type][cell]
           damaged == parts.damaged
           own == ToSet(damaged)
           bad == build_pools(meta, "INITIAL", type, TRUE)
           good == build_pools(meta, "INITIAL", type, FALSE)
           again == build_pools(meta, "RECAPTURE", type, FALSE)
           wanted == type = "RGB" /\ cell \in DamagedCells /\ defects > 0
           first == damaged \o parts.defective
<1>1. /\ damaged # Refused /\ parts.defective # Refused /\ parts.clean # Refused
      /\ parts.retaken # Refused
  BY DEF IsRefused, Parts
<1>2. damaged = IF wanted THEN take(Damaged(meta), {}, 1, index) ELSE << >>
  BY DEF Parts
<1>3. /\ parts.defective = take(bad, own, defects - Cardinality(own), 7 * index)
      /\ parts.clean = take(good, own, LegacyImages - defects, 37 * index)
      /\ parts.retaken = IF <<cell, type>> \notin RecaptureGroups THEN << >>
                         ELSE take(again, own, LegacyImages, 23 * index)
  BY <1>1 DEF Parts
<1>4. /\ LegacyImages \in Nat /\ defects \in 0..LegacyImages /\ index \in Nat
      /\ 7 * index \in Nat /\ 37 * index \in Nat /\ 23 * index \in Nat
  BY PlanAssumption DEF Serials
<1>5. /\ Distinct(bad) /\ Distinct(good) /\ Distinct(again) /\ Distinct(Damaged(meta))
      /\ \A s \in ToSet(bad) : s.set = "INITIAL" /\ s.type = type /\ meta[s] # {}
      /\ \A s \in ToSet(good) : s.set = "INITIAL" /\ s.type = type /\ meta[s] = {}
      /\ \A s \in ToSet(again) : s.set = "RECAPTURE" /\ s.type = type
      /\ \A s \in ToSet(Damaged(meta)) : s.set = "INITIAL" /\ s.type = "RGB" /\ meta[s] # {}
  <2>1. \A set, b : LET pool == build_pools(meta, set, type, b)
                    IN  /\ Distinct(pool)
                        /\ \A s \in ToSet(pool) : s.set = set /\ s.type = type /\ (meta[s] # {}) = b
    BY PoolsAreStems
  <2>2. /\ Distinct(Damaged(meta))
        /\ \A s \in ToSet(Damaged(meta)) : s.set = "INITIAL" /\ s.type = "RGB" /\ meta[s] # {}
    BY PoolsAreStems
  <2>3. /\ Distinct(bad)
        /\ \A s \in ToSet(bad) : s.set = "INITIAL" /\ s.type = type /\ meta[s] # {}
    BY <2>1
  <2>4. /\ Distinct(good)
        /\ \A s \in ToSet(good) : s.set = "INITIAL" /\ s.type = type /\ meta[s] = {}
    BY <2>1
  <2>5. Distinct(again) /\ \A s \in ToSet(again) : s.set = "RECAPTURE" /\ s.type = type
    BY <2>1
  <2> HIDE DEF bad, good, again
  <2> QED
    BY <2>2, <2>3, <2>4, <2>5
<1> HIDE DEF index, defects, bad, good, again
<1>6. /\ Distinct(damaged) /\ Len(damaged) \in 0..defects
      /\ \A s \in own : s.set = "INITIAL" /\ s.type = type /\ meta[s] # {}
  <2>1. CASE wanted
    <3>1. damaged = take(Damaged(meta), {}, 1, index)
      BY <1>2, <2>1
    <3> DEFINE pool == Damaged(meta)
               taken == damaged
               count == 1
               none == {}
    <3>4. /\ taken = take(pool, none, count, index) /\ taken # Refused /\ Distinct(pool)
          /\ count \in Nat /\ index \in Nat
      BY <1>1, <1>4, <1>5, <3>1
    <3> HIDE DEF pool, taken, count, none
    <3>5. Distinct(taken) /\ Len(taken) = count /\ ToSet(taken) \subseteq ToSet(pool)
      BY <3>4, TakeIs
    <3>2. Distinct(damaged) /\ Len(damaged) = 1 /\ own \subseteq ToSet(Damaged(meta))
      BY <3>5 DEF pool, taken, count
    <3>3. 1 \in 0..defects /\ type = "RGB"
      BY <1>4, <2>1
    <3> QED
      BY <1>5, <3>2, <3>3
  <2>2. CASE ~ wanted
    <3>1. damaged = << >>
      BY <1>2, <2>2
    <3>2. Distinct(<< >>) /\ ToSet(<< >>) = {} /\ Len(<< >>) = 0
      BY NoGroups
    <3> QED
      BY <1>4, <3>1, <3>2
  <2> QED
    BY <2>1, <2>2
<1>7. Cardinality(own) = Len(damaged)
  BY <1>6, PlacesOf
<1> HIDE DEF damaged, own
<1> DEFINE rest == defects - Cardinality(own)
           others == LegacyImages - defects
<1>8. rest \in Nat /\ others \in Nat /\ Len(damaged) + rest = defects
      /\ defects + others = LegacyImages
  BY <1>4, <1>6, <1>7
<1>9. parts.defective = take(bad, own, rest, 7 * index)
      /\ parts.clean = take(good, own, others, 37 * index)
  BY <1>3
<1> HIDE DEF rest, others
<1>10. /\ Distinct(parts.defective) /\ Len(parts.defective) = rest
       /\ ToSet(parts.defective) \subseteq ToSet(bad) /\ ToSet(parts.defective) \cap own = {}
  <2> DEFINE taken == parts.defective
             offset == 7 * index
  <2>1. taken = take(bad, own, rest, offset) /\ taken # Refused /\ offset \in Nat
    BY <1>1, <1>4, <1>9
  <2> HIDE DEF taken, offset
  <2>2. /\ Distinct(taken) /\ Len(taken) = rest
        /\ ToSet(taken) \subseteq ToSet(bad) /\ ToSet(taken) \cap own = {}
    BY <1>5, <1>8, <2>1, TakeIs
  <2> QED
    BY <2>2 DEF taken
<1>11. /\ Distinct(parts.clean) /\ Len(parts.clean) = others
       /\ ToSet(parts.clean) \subseteq ToSet(good) /\ ToSet(parts.clean) \cap own = {}
  <2> DEFINE taken == parts.clean
             offset == 37 * index
  <2>1. taken = take(good, own, others, offset) /\ taken # Refused /\ offset \in Nat
    BY <1>1, <1>4, <1>9
  <2> HIDE DEF taken, offset
  <2>2. /\ Distinct(taken) /\ Len(taken) = others
        /\ ToSet(taken) \subseteq ToSet(good) /\ ToSet(taken) \cap own = {}
    BY <1>5, <1>8, <2>1, TakeIs
  <2> QED
    BY <2>2 DEF taken
<1>12. /\ Distinct(parts.retaken)
       /\ Len(parts.retaken) = IF <<cell, type>> \in RecaptureGroups THEN LegacyImages ELSE 0
       /\ \A s \in ToSet(parts.retaken) : s.set = "RECAPTURE" /\ s.type = type
  <2> DEFINE taken == parts.retaken
             offset == 23 * index
  <2>1. CASE <<cell, type>> \in RecaptureGroups
    <3>1. taken = take(again, own, LegacyImages, offset) /\ taken # Refused /\ offset \in Nat
      BY <1>1, <1>3, <1>4, <2>1
    <3> HIDE DEF taken, offset
    <3>2. Distinct(taken) /\ Len(taken) = LegacyImages /\ ToSet(taken) \subseteq ToSet(again)
      BY <1>4, <1>5, <3>1, TakeIs
    <3> QED
      BY <1>5, <2>1, <3>2 DEF taken
  <2>2. CASE <<cell, type>> \notin RecaptureGroups
    <3>1. taken = << >>
      BY <1>3, <2>2
    <3>2. Distinct(<< >>) /\ ToSet(<< >>) = {} /\ Len(<< >>) = 0
      BY NoGroups
    <3> QED
      BY <2>2, <3>1, <3>2
  <2> QED
    BY <2>1, <2>2
<1>13. /\ Distinct(first) /\ ToSet(first) = own \cup ToSet(parts.defective)
       /\ Len(first) = Len(damaged) + rest
  <2> DEFINE b == parts.defective
  <2>1. Distinct(b) /\ Len(b) = rest /\ own \cap ToSet(b) = {} /\ first = damaged \o b
    BY <1>10
  <2> HIDE DEF b, first
  <2>2. ToSet(damaged) \cap ToSet(b) = {}
    BY <2>1 DEF own
  <2>3. /\ Distinct(damaged \o b) /\ ToSet(damaged \o b) = ToSet(damaged) \cup ToSet(b)
        /\ Len(damaged \o b) = Len(damaged) + Len(b)
    BY <1>6, <2>1, <2>2, JoinedDistinct
  <2> QED
    BY <2>1, <2>3 DEF b, own
<1>14. \A s \in ToSet(first) : s.set = "INITIAL" /\ s.type = type /\ meta[s] # {}
  BY <1>5, <1>6, <1>10, <1>13
<1> HIDE DEF first
<1> DEFINE clean == parts.clean
<1>15. \A s \in ToSet(clean) : s.set = "INITIAL" /\ s.type = type /\ meta[s] = {}
  BY <1>5, <1>11
<1>16. ToSet(first) \cap ToSet(clean) = {}
  BY <1>14, <1>15
<1>17. Distinct(clean) /\ Len(clean) = others
  BY <1>11
<1> HIDE DEF clean
<1>18. /\ Distinct(first \o clean) /\ ToSet(first \o clean) = ToSet(first) \cup ToSet(clean)
       /\ Len(first \o clean) = Len(first) + Len(clean)
  BY <1>13, <1>16, <1>17, JoinedDistinct
<1>19. Len(first \o clean) = LegacyImages
  BY <1>8, <1>13, <1>17, <1>18
<1>20. \A s \in ToSet(first \o clean) : s.set = "INITIAL" /\ s.type = type
  BY <1>14, <1>15, <1>18
<1>21. first \o clean = parts.damaged \o parts.defective \o parts.clean
  BY DEF first, clean, damaged
<1> QED
  BY <1>12, <1>18, <1>19, <1>20, <1>21 DEF AreStems

\* A group of v1.5 is as it should be.
LEMMA GroupRowsFit ==
    ASSUME NEW meta, IsMeta(meta), NEW cell \in Serials, NEW type \in ImageTypes,
           NEW parts, parts = Parts(meta, cell, type), ~ IsRefused(parts),
           NEW rows, rows = GroupRows(parts, cell, type)
    PROVE  Distinct(rows) /\ Fits(ToSet(rows), <<Legacy, cell, type>>, Closed)
<1> DEFINE g == <<Legacy, cell, type>>
           initial == parts.damaged \o parts.defective \o parts.clean
           again == parts.retaken
           retaken == <<cell, type>> \in RecaptureGroups
           fails == IF retaken THEN {initial[1]} ELSE {}
           Row(stem, quality) == [wave |-> Legacy, cell |-> cell, type |-> type,
                                  set |-> stem.set, object |-> stem, quality |-> quality]
           first == [n \in DOMAIN initial |->
                        Row(initial[n], IF initial[n] \in fails THEN "FAIL" ELSE "PASS")]
           second == [n \in DOMAIN again |-> Row(again[n], "PASS")]
<1>1. rows = first \o second
  BY DEF GroupRows
<1>2. /\ Distinct(initial) /\ Len(initial) = LegacyImages
      /\ \A s \in ToSet(initial) : s.set = "INITIAL" /\ s.type = type
      /\ Distinct(again)
      /\ \A s \in ToSet(again) : s.set = "RECAPTURE" /\ s.type = type
      /\ Len(again) = IF retaken THEN LegacyImages ELSE 0
  <2>1. AreStems(parts, cell, type)
    BY StemsOfGroup
  <2> QED
    BY <2>1 DEF AreStems
<1> HIDE DEF initial, again
<1>3. /\ \A n \in DOMAIN initial : initial[n].set = "INITIAL" /\ initial[n].type = type
      /\ \A n \in DOMAIN again : again[n].set = "RECAPTURE" /\ again[n].type = type
  BY <1>2 DEF ToSet
<1>4. /\ first = [n \in DOMAIN initial |-> first[n]]
      /\ \A n \in DOMAIN initial :
            LET r == first[n]
            IN  /\ Name(r) = g /\ r.set = "INITIAL" /\ r.object = initial[n]
                /\ r.object.set = r.set /\ r.object.type = r.type
                /\ r.quality = IF initial[n] \in fails THEN "FAIL" ELSE "PASS"
  BY <1>3 DEF Name
<1>5. /\ second = [n \in DOMAIN again |-> second[n]]
      /\ \A n \in DOMAIN again :
            LET r == second[n]
            IN  /\ Name(r) = g /\ r.set = "RECAPTURE" /\ r.object = again[n]
                /\ r.object.set = r.set /\ r.object.type = r.type /\ r.quality = "PASS"
  BY <1>3 DEF Name
<1> HIDE DEF first, second, Row, g
<1>6. /\ Distinct(first) /\ Len(first) = Len(initial)
      /\ \A r, q \in ToSet(first) : r.object = q.object => r = q
      /\ \A r \in ToSet(first) : \E n \in DOMAIN initial : r = first[n]
      /\ \A n \in DOMAIN initial : first[n] \in ToSet(first)
  <2>1. \A m, n \in DOMAIN initial : first[m].object = first[n].object => initial[m] = initial[n]
    BY <1>4
  <2> QED
    BY <1>2, <1>4, <2>1, RowsOfImages
<1>7. /\ Distinct(second) /\ Len(second) = Len(again)
      /\ \A r, q \in ToSet(second) : r.object = q.object => r = q
      /\ \A r \in ToSet(second) : \E n \in DOMAIN again : r = second[n]
  <2>1. \A m, n \in DOMAIN again : second[m].object = second[n].object => again[m] = again[n]
    BY <1>5
  <2>2. Distinct(again) /\ second = [n \in DOMAIN again |-> second[n]]
    BY <1>2, <1>5
  <2> QED
    BY <2>1, <2>2, RowsOfImages
<1>8. ASSUME NEW r \in ToSet(first)
      PROVE  /\ Name(r) = g /\ r.set = "INITIAL" /\ r.object.set = r.set /\ r.object.type = r.type
             /\ r.quality = IF r.object \in fails THEN "FAIL" ELSE "PASS"
  <2>1. PICK n \in DOMAIN initial : r = first[n]
    BY <1>6
  <2>2. LET q == first[n]
        IN  /\ Name(q) = g /\ q.set = "INITIAL" /\ q.object = initial[n]
            /\ q.object.set = q.set /\ q.object.type = q.type
            /\ q.quality = IF initial[n] \in fails THEN "FAIL" ELSE "PASS"
    BY <1>4
  <2> QED
    BY <2>1, <2>2, Zenon
<1>9. ASSUME NEW r \in ToSet(second)
      PROVE  /\ Name(r) = g /\ r.set = "RECAPTURE" /\ r.object.set = r.set
             /\ r.object.type = r.type /\ r.quality = "PASS"
  BY <1>5, <1>7
<1>10. ToSet(first) \cap ToSet(second) = {}
  BY <1>8, <1>9
<1>11. Distinct(first \o second) /\ ToSet(first \o second) = ToSet(first) \cup ToSet(second)
  BY <1>6, <1>7, <1>10, JoinedDistinct
<1> DEFINE F == ToSet(first)
           A == ToSet(second)
           G == F \cup A
<1>12. Cardinality(F) = LegacyImages /\ Cardinality(A) = Len(again)
  BY <1>2, <1>6, <1>7, PlacesOf
<1>13. WellMade(G, g)
  <2>1. \A r, q \in G : r.object = q.object => r = q
    <3> SUFFICES ASSUME NEW r \in G, NEW q \in G, r.object = q.object PROVE r = q
      OBVIOUS
    <3>1. r.object.set = r.set /\ q.object.set = q.set
      BY <1>8, <1>9
    <3>2. r.set = q.set
      BY <3>1
    <3> QED
      BY <1>6, <1>7, <1>8, <1>9, <3>2
  <2>2. \A r \in G : /\ Name(r) = g /\ r.set \in {"INITIAL", "RECAPTURE"}
                     /\ r.quality \in {"PASS", "FAIL"}
                     /\ r.object.set = r.set /\ r.object.type = r.type
    BY <1>8, <1>9
  <2> HIDE DEF G
  <2> QED
    BY <2>1, <2>2 DEF WellMade
<1>14. /\ Captures(G, "INITIAL", {"PASS", "FAIL"}) = F
       /\ Captures(G, "RECAPTURE", {"PASS", "FAIL"}) = A
       /\ Captures(G, "RECAPTURE", {"FAIL"}) = {}
       /\ Captures(G, "INITIAL", {"FAIL"}) = {r \in F : r.object \in fails}
  BY <1>8, <1>9 DEF Captures
<1>15. Cardinality({r \in F : r.object \in fails}) = IF retaken THEN 1 ELSE 0
  <2>1. CASE retaken
    <3>1. 1 \in DOMAIN initial
      BY <1>2, SomeImages DEF Distinct, IsSequence
    <3>2. first[1] \in F /\ first[1].object = initial[1]
      BY <1>4, <1>6, <3>1
    <3>3. {r \in F : r.object \in fails} = {first[1]}
      BY <1>6, <2>1, <3>2
    <3> QED
      BY <2>1, <3>3, FS_Singleton
  <2>2. CASE ~ retaken
    <3>1. {r \in F : r.object \in fails} = {}
      BY <2>2
    <3> QED
      BY <2>2, <3>1, FS_EmptySet
  <2> QED
    BY <2>1, <2>2
<1>16. g[1] = Legacy /\ <<g[2], g[3]>> = <<cell, type>> /\ Cardinality({}) = 0
  BY FS_EmptySet DEF g
<1> HIDE DEF G, F, A, fails
<1>17. IsComplete(G, g)
  BY <1>2, <1>12, <1>14, <1>15, <1>16 DEF IsComplete
<1> QED
  BY <1>1, <1>11, <1>13, <1>17 DEF Fits, G, F, A, g

\* The halves of the cases in order, each once.
LEMMA CellTypesAre ==
    ASSUME NEW cells \in Nat
    PROVE  LET all == CellTypes(cells)
           IN  /\ Len(all) = 2 * cells /\ DOMAIN all = 1..2 * cells /\ 2 * cells \in Nat
               /\ all \in Seq((1..cells) \X ImageTypes)
               /\ \A n \in 1..2 * cells : /\ all[n][1] \in 1..cells /\ all[n][2] \in ImageTypes
                                          /\ all[n] = <<all[n][1], all[n][2]>>
               /\ \A m, n \in 1..2 * cells : all[m] = all[n] => m = n
               /\ \A c \in 1..cells, t \in ImageTypes : \E n \in 1..2 * cells : all[n] = <<c, t>>
<1> DEFINE all == CellTypes(cells)
           L == 2 * cells
           Cell(n) == (n + 1) \div 2
           Type(n) == IF n % 2 = 1 THEN "CT" ELSE "RGB"
<1>1. L \in Nat /\ all = [n \in 1..L |-> <<Cell(n), Type(n)>>]
  BY DEF CellTypes
<1>2. \A n \in 1..L : Cell(n) \in 1..cells /\ Type(n) \in ImageTypes
  BY DEF ImageTypes
<1>3. \A m, n \in 1..L : Cell(m) = Cell(n) /\ Type(m) = Type(n) => m = n
  <2> SUFFICES ASSUME NEW m \in 1..L, NEW n \in 1..L, Cell(m) = Cell(n), Type(m) = Type(n)
               PROVE  m = n
    OBVIOUS
  <2>1. (m % 2 = 1) = (n % 2 = 1)
    BY DEF Type
  <2> QED
    BY <2>1
<1>4. ASSUME NEW c \in 1..cells, NEW t \in ImageTypes
      PROVE  \E n \in 1..L : Cell(n) = c /\ Type(n) = t
  <2>1. CASE t = "CT"
    <3>1. 2 * c - 1 \in 1..L /\ ((2 * c - 1) + 1) \div 2 = c /\ (2 * c - 1) % 2 = 1
      OBVIOUS
    <3> QED
      BY <2>1, <3>1
  <2>2. CASE t = "RGB"
    <3>1. 2 * c \in 1..L /\ ((2 * c) + 1) \div 2 = c /\ (2 * c) % 2 # 1
      OBVIOUS
    <3> QED
      BY <2>2, <3>1
  <2> QED
    BY <2>1, <2>2 DEF ImageTypes
<1> HIDE DEF Cell, Type, L, all
<1>5. /\ \A n \in 1..L : all[n] = <<Cell(n), Type(n)>> /\ all[n] \in (1..cells) \X ImageTypes
      /\ DOMAIN all = 1..L
  BY <1>1, <1>2
<1>6. all \in Seq((1..cells) \X ImageTypes) /\ Len(all) = L
  BY <1>1, <1>5
<1>7. \A n \in 1..L : /\ all[n][1] \in 1..cells /\ all[n][2] \in ImageTypes
                      /\ all[n] = <<all[n][1], all[n][2]>>
  BY <1>2, <1>5
<1>8. \A m, n \in 1..L : all[m] = all[n] => m = n
  BY <1>3, <1>5
<1>9. ASSUME NEW c \in 1..cells, NEW t \in ImageTypes
      PROVE  \E n \in 1..L : all[n] = <<c, t>>
  <2>1. PICK n \in 1..L : Cell(n) = c /\ Type(n) = t
    BY <1>4
  <2>2. all[n] = <<c, t>>
    BY <1>5, <2>1
  <2> QED
    BY <2>2
<1> QED
  BY <1>1, <1>5, <1>6, <1>7, <1>8, <1>9 DEF all, L

StepGroup(meta, q, u, v, rows, h) == rows \o GroupRows(Parts(meta, h[1], h[2]), h[1], h[2])

\* The groups of the first k halves.
FirstGroups(k) == {<<Legacy, CellTypes(CellCount)[n][1], CellTypes(CellCount)[n][2]>> : n \in 1..k}

HoldsGroups(meta, q, u, v, k, rows) ==
    Distinct(rows) /\ GroupsFit(ToSet(rows), FirstGroups(k), Closed)

EachGroup == INSTANCE Folding WITH Step <- StepGroup, Holds <- HoldsGroups

\* Manifest v1.5 loads.
LEMMA BuildLoads ==
    ASSUME NEW meta, IsMeta(meta), build(meta) # Refused
    PROVE  Accepted(build(meta))
<1> DEFINE halves == CellTypes(CellCount)
           rows == EachGroup!Folded(meta, 0, 0, 0, << >>, halves)
<1>1. build(meta) = IF \E c \in Serials, t \in ImageTypes : IsRefused(Parts(meta, c, t))
                    THEN Refused ELSE rows
  BY Zenon DEF build, StepGroup, EachGroup!Folded, EachGroup!Iterates,
               EachGroup!Unfolds, EachGroup!Greatest, FoldLeft, MapThenFoldSet, Max
<1>2. /\ build(meta) = rows
      /\ \A c \in Serials, t \in ImageTypes : ~ IsRefused(Parts(meta, c, t))
  BY <1>1
<1>3. CellCount \in Nat /\ Serials = 1..CellCount
  BY SomeImages DEF Serials
<1>4. /\ Len(halves) = 2 * CellCount /\ 2 * CellCount \in Nat
      /\ halves \in Seq((1..CellCount) \X ImageTypes)
      /\ \A n \in 1..2 * CellCount : /\ halves[n][1] \in Serials /\ halves[n][2] \in ImageTypes
                                     /\ halves[n] = <<halves[n][1], halves[n][2]>>
      /\ \A m, n \in 1..2 * CellCount : halves[m] = halves[n] => m = n
      /\ \A c \in Serials, t \in ImageTypes : \E n \in 1..2 * CellCount : halves[n] = <<c, t>>
  BY <1>3, CellTypesAre
<1> HIDE DEF rows
<1>5. \A k : FirstGroups(k) = {<<Legacy, halves[n][1], halves[n][2]>> : n \in 1..k}
  BY DEF FirstGroups
<1> HIDE DEF halves
<1>6. HoldsGroups(meta, 0, 0, 0, 0, << >>)
  <2>1. FirstGroups(0) = {}
    BY <1>5
  <2> QED
    BY <2>1, NoGroups DEF HoldsGroups
<1>7. ASSUME NEW k \in 1..Len(halves), NEW r, HoldsGroups(meta, 0, 0, 0, k - 1, r)
      PROVE  HoldsGroups(meta, 0, 0, 0, k, StepGroup(meta, 0, 0, 0, r, halves[k]))
  <2> DEFINE c == halves[k][1]
             t == halves[k][2]
             g == <<Legacy, c, t>>
             done == FirstGroups(k - 1)
             parts == Parts(meta, c, t)
             added == GroupRows(parts, c, t)
  <2>1. c \in Serials /\ t \in ImageTypes
    BY <1>4
  <2>2. g \notin done /\ FirstGroups(k) = done \cup {g}
    <3>1. ASSUME NEW n \in 1..k - 1 PROVE halves[n] # halves[k]
      <4> DEFINE L == 2 * CellCount
      <4>1. Len(halves) = L /\ L \in Nat
            /\ \A m, i \in 1..L : halves[m] = halves[i] => m = i
        BY <1>4
      <4> HIDE DEF L
      <4>2. n \in 1..L /\ k \in 1..L /\ n # k
        BY <4>1
      <4> QED
        BY <4>1, <4>2, Zenon
    <3>2. ASSUME NEW n \in 1..k - 1, <<Legacy, halves[n][1], halves[n][2]>> = g PROVE FALSE
      <4>1. halves[n][1] = c /\ halves[n][2] = t
        BY <3>2
      <4>2. halves[n] = <<halves[n][1], halves[n][2]>> /\ halves[k] = <<c, t>>
        <5> DEFINE L == 2 * CellCount
        <5>1. /\ Len(halves) = L /\ L \in Nat
              /\ \A i \in 1..L : halves[i] = <<halves[i][1], halves[i][2]>>
          BY <1>4
        <5> HIDE DEF L
        <5>2. n \in 1..L /\ k \in 1..L
          BY <5>1
        <5> QED
          BY <5>1, <5>2, Zenon DEF c, t
      <4>3. halves[n] = halves[k]
        BY <4>1, <4>2, Zenon
      <4> QED
        BY <3>1, <4>3
    <3>3. 1..k = (1..k - 1) \cup {k}
      <4>1. Len(halves) \in Nat
        BY <1>4
      <4> QED
        BY <4>1
    <3> QED
      BY <1>5, <3>2, <3>3
  <2>3. ~ IsRefused(parts)
    BY <1>2, <2>1
  <2>4. StepGroup(meta, 0, 0, 0, r, halves[k]) = r \o added
    BY DEF StepGroup
  <2> HIDE DEF c, t, parts, done
  <2>5. Distinct(added) /\ Fits(ToSet(added), g, Closed)
    BY <2>1, <2>3, GroupRowsFit DEF parts
  <2>6. Distinct(r) /\ GroupsFit(ToSet(r), done, Closed)
    BY <1>7 DEF HoldsGroups, done
  <2> HIDE DEF g, added
  <2>7. /\ GroupsFit(ToSet(r) \cup ToSet(added), done \cup {g}, Closed)
        /\ ToSet(r) \cap ToSet(added) = {}
    BY <2>2, <2>5, <2>6, GroupJoins
  <2>8. Distinct(r \o added) /\ ToSet(r \o added) = ToSet(r) \cup ToSet(added)
    BY <2>5, <2>6, <2>7, JoinedDistinct
  <2> QED
    BY <2>2, <2>4, <2>7, <2>8 DEF HoldsGroups
<1>8. HoldsGroups(meta, 0, 0, 0, Len(halves), rows)
  <2>1. \E S : halves \in Seq(S)
    BY <1>4
  <2> QED
    BY <1>6, <1>7, <2>1, EachGroup!FoldKeeps, SMT DEF rows
<1>9. FirstGroups(2 * CellCount) = Names(Legacy)
  <2>1. \A n \in 1..2 * CellCount : <<Legacy, halves[n][1], halves[n][2]>> \in Names(Legacy)
    BY <1>4, SomeImages
  <2>2. \A g \in Names(Legacy) : \E n \in 1..2 * CellCount :
           g = <<Legacy, halves[n][1], halves[n][2]>>
    <3> SUFFICES ASSUME NEW g \in Names(Legacy)
                 PROVE  \E n \in 1..2 * CellCount : g = <<Legacy, halves[n][1], halves[n][2]>>
      OBVIOUS
    <3>1. PICK c \in Serials, t \in ImageTypes : g = <<Legacy, c, t>>
      BY DEF Names
    <3>2. PICK n \in 1..2 * CellCount : halves[n] = <<c, t>>
      BY <1>4
    <3>3. halves[n][1] = c /\ halves[n][2] = t
      BY <3>2
    <3> QED
      BY <3>1, <3>3
  <2> QED
    BY <1>5, <2>1, <2>2
<1>10. Distinct(rows) /\ GroupsFit(ToSet(rows), Names(Legacy), Closed) /\ Legacy \in 0..5
  <2>1. FirstGroups(Len(halves)) = Names(Legacy)
    BY <1>4, <1>9
  <2>2. Legacy \in 0..5
    BY DEF Legacy
  <2> QED
    BY <1>8, <2>1, <2>2 DEF HoldsGroups
<1>11. Accepted(rows)
  BY <1>10, GroupsAreAccepted
<1> QED
  BY <1>2, <1>11

(***************************************************************************)
(* What a selection has chosen.                                            *)
(***************************************************************************)

\* No image of the case was chosen twice.
Collected(s) == Distinct(s.chosen) /\ ToSet(s.chosen) \subseteq s.forbidden

\* What visits add to the images of a state comes from the rows.
Adds(rows, s, r) == /\ ToSet(s.chosen) \subseteq ToSet(r.chosen)
                    /\ ToSet(r.chosen) \subseteq ToSet(s.chosen) \cup ToSet(rows)

CollectHolds(pool, rows, wanted, c, k, r) ==
    /\ r \in Selections(c.pools, c.images) /\ Collected(r) /\ Adds(rows, c.before, r)
    /\ r.failed = c.before.failed

Collecting == INSTANCE Folding WITH Step <- TurnStep, Holds <- CollectHolds

\* One more image.
LEMMA OneMore ==
    ASSUME NEW I, NEW list \in Seq(I), Distinct(list), NEW image \in I, image \notin ToSet(list)
    PROVE  /\ Distinct(Append(list, image)) /\ Append(list, image) \in Seq(I)
           /\ ToSet(Append(list, image)) = ToSet(list) \cup {image}
<1> DEFINE L == Len(list)
           more == Append(list, image)
<1>1. /\ L \in Nat /\ DOMAIN list = 1..L
      /\ \A m, n \in DOMAIN list : list[m] = list[n] => m = n
  BY DEF Distinct
<1>2. /\ more \in Seq(I) /\ Len(more) = L + 1 /\ DOMAIN more = 1..L + 1
      /\ \A n \in 1..L : more[n] = list[n]
      /\ more[L + 1] = image
  OBVIOUS
<1>3. \A n \in 1..L : list[n] # image
  BY <1>1 DEF ToSet
<1> HIDE DEF L, more
<1>4. \A n \in 1..L + 1 : n \in 1..L \/ n = L + 1
  BY <1>1
<1>5. \A m, n \in DOMAIN more : more[m] = more[n] => m = n
  BY <1>1, <1>2, <1>3, <1>4
<1>6. IsSequence(more)
  BY <1>2 DEF IsSequence
<1>7. ToSet(more) = ToSet(list) \cup {image}
  <2>1. 1..L + 1 = (1..L) \cup {L + 1}
    BY <1>1
  <2>2. \A x \in ToSet(more) : x \in ToSet(list) \cup {image}
    BY <1>1, <1>2, <1>4 DEF ToSet
  <2>3. \A x \in ToSet(list) : \E n \in 1..L : x = list[n]
    BY <1>1 DEF ToSet
  <2>4. \A n \in 1..L + 1 : more[n] \in ToSet(more)
    BY <1>2 DEF ToSet
  <2>5. \A n \in 1..L : list[n] \in ToSet(more)
    BY <1>2, <2>1, <2>4
  <2>6. image \in ToSet(more)
    BY <1>2, <2>1, <2>4
  <2> QED
    BY <2>2, <2>3, <2>5, <2>6
<1> QED
  BY <1>2, <1>5, <1>6, <1>7 DEF Distinct, more

\* A visit.
LEMMA VisitCollects ==
    ASSUME NEW P, NEW I, NEW r \in Selections(P, I), Collected(r), NEW pool \in P,
           NEW rows \in Seq(I), Len(rows) \in Nat, Len(rows) > 0, NEW reuse,
           NEW t, t = Visit(r, pool, rows, reuse)
    PROVE  t \in Selections(P, I) /\ Collected(t) /\ Adds(rows, r, t) /\ t.failed = r.failed
<1> DEFINE L == Len(rows)
           c == r.cursor[pool]
           image == rows[1 + (c % L)]
           taken == Usable(r, image, reuse)
<1>1. c \in Nat
  BY DEF Selections
<1>2. image \in I /\ image \in ToSet(rows)
  <2> DEFINE e == c % L
  <2>1. e \in 0..L - 1
    BY <1>1, Remainder
  <2> HIDE DEF e
  <2>2. 1 + e \in 1..L
    BY <2>1
  <2> QED
    BY <2>2 DEF ToSet, e
<1>3. /\ t.cursor = [r.cursor EXCEPT ![pool] = c + 1]
      /\ t.used = IF taken THEN [r.used EXCEPT ![image] = @ + 1] ELSE r.used
      /\ t.forbidden = IF taken THEN r.forbidden \cup {image} ELSE r.forbidden
      /\ t.chosen = IF taken THEN Append(r.chosen, image) ELSE r.chosen
      /\ t.failed = r.failed
      /\ t = [cursor |-> t.cursor, used |-> t.used, forbidden |-> t.forbidden,
              chosen |-> t.chosen, failed |-> t.failed]
  BY DEF Visit, Selections
<1>4. taken => image \notin r.forbidden
  BY DEF Usable
<1> HIDE DEF taken, image, c
<1>5. /\ r.chosen \in Seq(I) /\ r.forbidden \in SUBSET I /\ r.used \in [I -> Nat]
      /\ r.cursor \in [P -> Nat] /\ r.failed \in BOOLEAN
  BY DEF Selections
<1>6. t.cursor \in [P -> Nat] /\ t.used \in [I -> Nat] /\ t.forbidden \in SUBSET I
      /\ t.failed \in BOOLEAN
  <2>1. c + 1 \in Nat
    BY <1>1
  <2> DEFINE next == c + 1
  <2> HIDE DEF next
  <2>2. t.cursor \in [P -> Nat]
    BY <1>3, <1>5, <2>1 DEF next
  <2>3. t.used \in [I -> Nat]
    BY <1>2, <1>3, <1>5
  <2>4. t.forbidden \in SUBSET I
    BY <1>2, <1>3, <1>5
  <2>5. t.failed \in BOOLEAN
    BY <1>3, <1>5
  <2> QED
    BY <2>2, <2>3, <2>4, <2>5
<1>7. Distinct(r.chosen) /\ ToSet(r.chosen) \subseteq r.forbidden
  BY DEF Collected
<1>8. CASE taken
  <2>1. image \notin ToSet(r.chosen)
    BY <1>4, <1>7, <1>8
  <2> DEFINE list == r.chosen
  <2>2. list \in Seq(I) /\ Distinct(list) /\ image \notin ToSet(list)
    BY <1>5, <1>7, <2>1
  <2> HIDE DEF list
  <2>3. /\ Distinct(Append(list, image)) /\ Append(list, image) \in Seq(I)
        /\ ToSet(Append(list, image)) = ToSet(list) \cup {image}
    BY <1>2, <2>2, OneMore
  <2>4. t.chosen = Append(list, image)
    BY <1>3, <1>8 DEF list
  <2>5. Distinct(t.chosen) /\ t.chosen \in Seq(I) /\ ToSet(t.chosen) = ToSet(r.chosen) \cup {image}
    BY <2>3, <2>4 DEF list
  <2>6. t \in Selections(P, I)
    BY <1>3, <1>6, <2>5 DEF Selections
  <2>7. ToSet(t.chosen) \subseteq t.forbidden
    BY <1>3, <1>7, <1>8, <2>5
  <2> QED
    BY <1>2, <1>3, <2>5, <2>6, <2>7 DEF Collected, Adds
<1>9. CASE ~ taken
  <2>1. t.chosen = r.chosen /\ t.forbidden = r.forbidden
    BY <1>3, <1>9
  <2>2. t \in Selections(P, I)
    BY <1>3, <1>5, <1>6, <2>1 DEF Selections
  <2> QED
    BY <1>3, <1>7, <2>1, <2>2 DEF Collected, Adds
<1> QED
  BY <1>8, <1>9

\* A take that does not fail chooses as many as wanted.
LEMMA TakeCollects ==
    ASSUME NEW P, NEW I, NEW s \in Selections(P, I), Collected(s), NEW pool \in P,
           NEW rows \in Seq(I), Len(rows) \in Nat, Len(rows) > 0, NEW count, NEW round \in Nat,
           NEW g, g = Selector_take(s, pool, rows, count, round)
    PROVE  /\ g \in Selections(P, I) /\ Collected(g) /\ Adds(rows, s, g)
           /\ ~ g.failed => ~ s.failed /\ Len(g.chosen) = Len(s.chosen) + count
<1> DEFINE c == [pools |-> P, images |-> I, before |-> s]
           wanted == Len(s.chosen) + count
           rounds == [visit \in 1..2 * round |-> visit > round]
           after == Collecting!Folded(pool, rows, wanted, c, s, rounds)
<1>1. g = [after EXCEPT !.failed = @ \/ Len(after.chosen) # wanted]
  BY Zenon DEF Selector_take, TurnStep, Collecting!Folded, Collecting!Iterates,
               Collecting!Unfolds, Collecting!Greatest, FoldLeft, MapThenFoldSet, Max
<1>2. rounds \in Seq(BOOLEAN)
  <2> DEFINE last == 2 * round
  <2>1. last \in Nat
    OBVIOUS
  <2> HIDE DEF last
  <2> QED
    BY <2>1 DEF last
<1>3. c.pools = P /\ c.images = I /\ c.before = s
  OBVIOUS
<1> HIDE DEF wanted, rounds, c
<1>4. CollectHolds(pool, rows, wanted, c, 0, s)
  BY <1>3 DEF CollectHolds, Adds
<1>5. ASSUME NEW k \in 1..Len(rounds), NEW r, CollectHolds(pool, rows, wanted, c, k - 1, r)
      PROVE  CollectHolds(pool, rows, wanted, c, k, TurnStep(pool, rows, wanted, c, r, rounds[k]))
  <2> DEFINE t == Visit(r, pool, rows, rounds[k])
  <2>1. r \in Selections(P, I) /\ Collected(r) /\ Adds(rows, s, r) /\ r.failed = s.failed
    BY <1>3, <1>5 DEF CollectHolds
  <2>2. TurnStep(pool, rows, wanted, c, r, rounds[k]) = IF Len(r.chosen) = wanted THEN r ELSE t
    BY DEF TurnStep
  <2> HIDE DEF t
  <2>3. t \in Selections(P, I) /\ Collected(t) /\ Adds(rows, r, t) /\ t.failed = r.failed
    BY <2>1, VisitCollects DEF t
  <2>4. Adds(rows, s, t) /\ t.failed = s.failed
    BY <2>1, <2>3 DEF Adds
  <2> QED
    BY <1>3, <2>1, <2>2, <2>3, <2>4 DEF CollectHolds
<1>6. CollectHolds(pool, rows, wanted, c, Len(rounds), after)
  BY <1>2, <1>4, <1>5, Collecting!FoldKeeps, SMT DEF after
<1> HIDE DEF after
<1>7. after \in Selections(P, I) /\ Collected(after) /\ Adds(rows, s, after)
      /\ after.failed = s.failed
  BY <1>3, <1>6 DEF CollectHolds
<1>8. /\ g.cursor = after.cursor /\ g.used = after.used /\ g.forbidden = after.forbidden
      /\ g.chosen = after.chosen /\ g.failed = (after.failed \/ Len(after.chosen) # wanted)
      /\ g = [cursor |-> g.cursor, used |-> g.used, forbidden |-> g.forbidden,
              chosen |-> g.chosen, failed |-> g.failed]
  BY <1>1, <1>7 DEF Selections
<1>9. g \in Selections(P, I)
  <2>1. g.failed \in BOOLEAN
    BY <1>8
  <2> QED
    BY <1>7, <1>8, <2>1 DEF Selections
<1> QED
  BY <1>7, <1>8, <1>9 DEF Collected, Adds, wanted

\* A new case has chosen nothing.
LEMMA NextCollected ==
    ASSUME NEW P, NEW I, NEW s \in Selections(P, I)
    PROVE  /\ NextCase(s) \in Selections(P, I) /\ Collected(NextCase(s))
           /\ NextCase(s).chosen = << >> /\ NextCase(s).failed = s.failed
<1> DEFINE g == NextCase(s)
<1>1. << >> \in Seq(I) /\ {} \in SUBSET I
  OBVIOUS
<1>2. /\ g.forbidden = {} /\ g.chosen = << >> /\ g.failed = s.failed
      /\ g \in Selections(P, I)
  BY <1>1 DEF NextCase, Selections
<1> HIDE DEF g
<1> QED
  BY <1>2, NoGroups DEF Collected, g

(***************************************************************************)
(* The wave manifests of v1.7.                                             *)
(***************************************************************************)

\* The rows of a pool are images of its modality and quality.
LEMMA PoolRowsAre ==
    ASSUME NEW dataset, IsDataset(dataset), NEW key, NEW i \in ToSet(PoolRows(dataset, key))
    PROVE  i \in DOMAIN dataset /\ dataset[i].modality = key.modality
           /\ dataset[i].quality = key.quality
<1> DEFINE rows == {j \in DOMAIN dataset :
                       /\ \A f \in {"modality", "status", "quality", "axis"} :
                             dataset[j][f] = key[f]
                       /\ key.linked => dataset[j].linked
                       /\ key.annotated => key.modality = "CT" /\ dataset[j].porosity}
           order == [j \in rows |-> j]
<1>1. DOMAIN dataset = 1..Len(dataset) /\ Len(dataset) \in Nat
  BY DEF IsDataset
<1>2. IsFiniteSet(DOMAIN dataset)
  BY <1>1, FS_Interval
<1>3. rows \subseteq DOMAIN dataset
  OBVIOUS
<1>4. PoolRows(dataset, key) = sorted(rows, order)
  BY DEF PoolRows
<1>5. \A j \in rows : dataset[j].modality = key.modality /\ dataset[j].quality = key.quality
  OBVIOUS
<1> HIDE DEF rows
<1>6. IsFiniteSet(rows)
  BY <1>2, <1>3, FS_Subset
<1>7. order \in [rows -> Int] /\ \A x, y \in rows : order[x] = order[y] => x = y
  BY <1>1, <1>3
<1> HIDE DEF order
<1>8. sorted(rows, order) \in Seq(rows)
  BY <1>6, <1>7, Sorted
<1>9. i \in rows
  <2>1. \A q \in Seq(rows) : ToSet(q) \subseteq rows
    BY DEF ToSet
  <2> QED
    BY <1>4, <1>8, <2>1
<1> QED
  BY <1>3, <1>5, <1>9

Failing(dataset, s) == {i \in ToSet(s.chosen) : dataset[i].quality = "FAIL"}

\* What was chosen for a group of the modality, number FAILs among it.
Chosen(dataset, modality, number, s) ==
    s.failed \/ /\ Collected(s)
                /\ \A i \in ToSet(s.chosen) : /\ dataset[i].modality = modality
                                              /\ dataset[i].quality \in {"PASS", "FAIL"}
                /\ Cardinality(Failing(dataset, s)) = number

\* Members that are new.
LEMMA NewMembers ==
    ASSUME NEW A, IsFiniteSet(A), NEW B, IsFiniteSet(B), A \subseteq B
    PROVE  IsFiniteSet(B \ A) /\ Cardinality(B \ A) = Cardinality(B) - Cardinality(A)
<1>1. /\ IsFiniteSet(B \ A) /\ Cardinality(B \ A) \in Nat /\ Cardinality(A) \in Nat
      /\ Cardinality(A \cup (B \ A))
            = Cardinality(A) + Cardinality(B \ A) - Cardinality(A \cap (B \ A))
  BY FS_Difference, FS_Union, FS_CardinalityType
<1>2. A \cup (B \ A) = B /\ A \cap (B \ A) = {}
  OBVIOUS
<1>3. Cardinality(A \cap (B \ A)) = 0
  BY <1>2, FS_EmptySet
<1> QED
  BY <1>1, <1>2, <1>3

\* One selection.
LEMMA SelectChooses ==
    ASSUME NEW dataset, IsDataset(dataset), NEW key \in PoolKeys, NEW s, PoolsAre(dataset, s),
           ~ s.failed, NEW number \in Nat, Chosen(dataset, key.modality, number, s),
           NEW count, key.quality = "FAIL" => count \in Int, NEW g, g = select(s, dataset, key, count)
    PROVE  Chosen(dataset, key.modality,
                  number + IF key.quality = "FAIL" THEN count ELSE 0, g)
<1> DEFINE rows == PoolRows(dataset, key)
           I == DOMAIN dataset
<1>1. SUFFICES ASSUME ~ g.failed
               PROVE  Chosen(dataset, key.modality,
                             number + IF key.quality = "FAIL" THEN count ELSE 0, g)
  BY DEF Chosen
<1>2. s \in Selections(PoolKeys, I)
  BY DEF PoolsAre, Selections
<1>3. /\ Collected(s)
      /\ \A i \in ToSet(s.chosen) : /\ dataset[i].modality = key.modality
                                    /\ dataset[i].quality \in {"PASS", "FAIL"}
      /\ Cardinality(Failing(dataset, s)) = number
  BY DEF Chosen
<1>4. rows # << >>
  <2> SUFFICES ASSUME rows = << >> PROVE FALSE
    OBVIOUS
  <2>1. g = [s EXCEPT !.failed = TRUE]
    BY DEF select
  <2>2. g.failed
    BY <1>2, <2>1 DEF Selections
  <2> QED
    BY <1>1, <2>2
<1>5. g = Selector_take(s, key, rows, count, Len(rows))
  BY <1>4 DEF select
<1>6. rows \in Seq(I)
  BY RowsAreImages
<1>7. \A i \in ToSet(rows) : dataset[i].modality = key.modality
                             /\ dataset[i].quality = key.quality
  BY PoolRowsAre
<1> HIDE DEF rows, I
<1>8. Len(rows) \in Nat /\ Len(rows) > 0
  BY <1>4, <1>6
<1>9. /\ g \in Selections(PoolKeys, I) /\ Collected(g) /\ Adds(rows, s, g)
      /\ Len(g.chosen) = Len(s.chosen) + count
  <2> DEFINE round == Len(rows)
  <2>1. round \in Nat /\ g = Selector_take(s, key, rows, count, round)
    BY <1>5, <1>8
  <2> HIDE DEF round
  <2>2. /\ g \in Selections(PoolKeys, I) /\ Collected(g) /\ Adds(rows, s, g)
        /\ ~ g.failed => ~ s.failed /\ Len(g.chosen) = Len(s.chosen) + count
    BY <1>2, <1>3, <1>6, <1>8, <2>1, TakeCollects
  <2> QED
    BY <1>1, <2>2
<1> DEFINE old == ToSet(s.chosen)
           all == ToSet(g.chosen)
           new == all \ old
<1>10. /\ IsFiniteSet(old) /\ Cardinality(old) = Len(s.chosen) /\ Len(s.chosen) \in Nat
       /\ IsFiniteSet(all) /\ Cardinality(all) = Len(g.chosen) /\ Len(g.chosen) \in Nat
  <2>1. \A list : Distinct(list) => /\ IsFiniteSet(ToSet(list))
                                    /\ Cardinality(ToSet(list)) = Len(list)
                                    /\ Len(list) \in Nat
    BY PlacesOf
  <2> QED
    BY <1>3, <1>9, <2>1 DEF Collected
<1>11. old \subseteq all /\ new \subseteq ToSet(rows)
  BY <1>9 DEF Adds
<1>12. IsFiniteSet(new) /\ Cardinality(new) = Len(g.chosen) - Len(s.chosen)
  BY <1>9, <1>10, <1>11, NewMembers
<1>13. \A i \in all : dataset[i].modality = key.modality
                      /\ dataset[i].quality \in {"PASS", "FAIL"}
  <2>1. key.quality \in {"PASS", "FAIL"}
    BY DEF PoolKeys
  <2> QED
    BY <1>3, <1>7, <1>11, <2>1
<1>14. Failing(dataset, s) = {i \in old : dataset[i].quality = "FAIL"}
       /\ Failing(dataset, g) = {i \in all : dataset[i].quality = "FAIL"}
  BY DEF Failing
<1> HIDE DEF old, all
<1>15. CASE key.quality = "FAIL"
  <2>1. Failing(dataset, g) = Failing(dataset, s) \cup new /\ Failing(dataset, s) \cap new = {}
    BY <1>7, <1>11, <1>14, <1>15
  <2>2. IsFiniteSet(Failing(dataset, s))
    BY <1>10, <1>14, FS_Subset
  <2> HIDE DEF new
  <2>3. Cardinality(Failing(dataset, g)) = number + count
    <3>1. Cardinality(Failing(dataset, s) \cap new) = 0
      BY <2>1, FS_EmptySet
    <3>2. Cardinality(new) = count
      BY <1>9, <1>10, <1>12, <1>15
    <3>3. Cardinality(Failing(dataset, s) \cup new)
             = number + count - Cardinality(Failing(dataset, s) \cap new)
      BY <1>3, <1>12, <2>2, <3>2, FS_Union
    <3> QED
      BY <1>15, <2>1, <3>1, <3>3
  <2> QED
    BY <1>9, <1>13, <1>15, <2>3 DEF Chosen, all
<1>16. CASE key.quality # "FAIL"
  <2>1. Failing(dataset, g) = Failing(dataset, s)
    BY <1>7, <1>11, <1>14, <1>16
  <2> QED
    BY <1>3, <1>9, <1>13, <1>16, <2>1 DEF Chosen, all
<1> QED
  BY <1>15, <1>16

\* One plan: as many FAILs as it wants.
LEMMA PlanChooses ==
    ASSUME NEW dataset, IsDataset(dataset), NEW modality \in ImageTypes,
           NEW status \in {"normal", "defective"}, NEW fails \in BOOLEAN,
           NEW plan, plan.axis \in PlanAxes, plan.fails \in Nat, NEW s, PoolsAre(dataset, s),
           NEW number \in Nat, Chosen(dataset, modality, number, s)
    PROVE  Chosen(dataset, modality, number + plan.fails,
                  ChoosePlan(s, dataset, modality, status, fails, plan))
<1> DEFINE Key(quality, linked, annotated) ==
              [modality |-> modality, status |-> status, quality |-> quality,
               axis |-> plan.axis, linked |-> linked, annotated |-> annotated]
           porous == IF modality = "CT" /\ status = "defective" /\ plan.axis = AnnotatedAxis
                     THEN Porosity ELSE 0
           Take(r, key, count, always) ==
              IF r.failed \/ (count = 0 /\ ~ always) THEN r
              ELSE select(r, dataset, key, count)
           failing == Take(s, Key("FAIL", TRUE, FALSE), plan.fails, FALSE)
           annotated == Take(failing, Key("PASS", fails, TRUE), porous, FALSE)
           normal == Take(annotated, Key("PASS", fails, FALSE),
                          plan.total - plan.fails - porous, TRUE)
           next == number + plan.fails
<1>1. \A quality \in {"PASS", "FAIL"}, linked \in BOOLEAN, porosity \in BOOLEAN :
         /\ Key(quality, linked, porosity) \in PoolKeys
         /\ Key(quality, linked, porosity).modality = modality
         /\ Key(quality, linked, porosity).quality = quality
  BY DEF PoolKeys, PlanAxes
<1>2. ASSUME NEW r, PoolsAre(dataset, r), NEW n \in Nat, Chosen(dataset, modality, n, r),
             NEW key \in PoolKeys, key.modality = modality, NEW count, NEW always,
             key.quality = "FAIL" => count \in Nat
      PROVE  /\ PoolsAre(dataset, Take(r, key, count, always))
             /\ Chosen(dataset, modality, n + IF key.quality = "FAIL" THEN count ELSE 0,
                       Take(r, key, count, always))
  <2> DEFINE sum == n + IF key.quality = "FAIL" THEN count ELSE 0
             taken == select(r, dataset, key, count)
  <2>1. PoolsAre(dataset, taken)
    BY <1>2, SelectKeeps
  <2>2. CASE r.failed
    BY <1>2, <2>2 DEF Chosen
  <2>3. CASE ~ r.failed
    <3>1. Chosen(dataset, modality, sum, taken)
      <4>1. /\ Chosen(dataset, key.modality, n, r) /\ ~ r.failed
            /\ key.quality = "FAIL" => count \in Int
        BY <1>2, <2>3
      <4> HIDE DEF taken
      <4>2. Chosen(dataset, key.modality, sum, taken)
        BY <1>2, <4>1, SelectChooses DEF taken
      <4> QED
        BY <1>2, <4>2
    <3>2. count = 0 => sum = n
      BY <1>2
    <3> DEFINE after == Take(r, key, count, always)
    <3> HIDE DEF sum
    <3>3. (count = 0 /\ ~ always) \/ after = taken
      BY <2>3
    <3>4. count = 0 /\ ~ always => after = r
      BY <2>3
    <3> HIDE DEF after, taken
    <3>5. PoolsAre(dataset, after) /\ Chosen(dataset, modality, sum, after)
      <4>1. CASE after = taken
        BY <2>1, <3>1, <4>1
      <4>2. CASE count = 0 /\ ~ always
        BY <1>2, <3>2, <3>4, <4>2
      <4> QED
        BY <3>3, <4>1, <4>2
    <3> QED
      BY <3>5 DEF sum, after
  <2> QED
    BY <2>2, <2>3
<1>3. ChoosePlan(s, dataset, modality, status, fails, plan) = normal
  BY DEF ChoosePlan
<1> HIDE DEF Key, Take, porous
<1>4. PoolsAre(dataset, failing) /\ Chosen(dataset, modality, next, failing)
  <2> DEFINE key == Key("FAIL", TRUE, FALSE)
             count == plan.fails
  <2>1. key \in PoolKeys /\ key.modality = modality /\ key.quality = "FAIL"
    BY <1>1
  <2>2. count \in Nat
    OBVIOUS
  <2>3. next = number + count
    OBVIOUS
  <2> HIDE DEF key, count, next
  <2>4. /\ PoolsAre(dataset, Take(s, key, count, FALSE))
        /\ Chosen(dataset, modality, number + IF key.quality = "FAIL" THEN count ELSE 0,
                  Take(s, key, count, FALSE))
    BY <1>2, <2>1, <2>2
  <2>5. Chosen(dataset, modality, next, Take(s, key, count, FALSE))
    BY <2>1, <2>3, <2>4
  <2> QED
    BY <2>4, <2>5 DEF key, count
<1>5. next \in Nat
  OBVIOUS
<1> HIDE DEF failing, next
<1>6. ASSUME NEW r, PoolsAre(dataset, r), Chosen(dataset, modality, next, r),
             NEW annotation \in BOOLEAN, NEW count, NEW always
      PROVE  LET t == Take(r, Key("PASS", fails, annotation), count, always)
             IN  PoolsAre(dataset, t) /\ Chosen(dataset, modality, next, t)
  <2> DEFINE key == Key("PASS", fails, annotation)
             sum == next + IF key.quality = "FAIL" THEN count ELSE 0
  <2>1. key \in PoolKeys /\ key.modality = modality /\ key.quality = "PASS"
    BY <1>1
  <2>2. sum = next
    BY <1>5, <2>1
  <2> HIDE DEF key
  <2>3. /\ PoolsAre(dataset, Take(r, key, count, always))
        /\ Chosen(dataset, modality, next + IF key.quality = "FAIL" THEN count ELSE 0,
                  Take(r, key, count, always))
    BY <1>2, <1>5, <1>6, <2>1
  <2>4. Chosen(dataset, modality, next, Take(r, key, count, always))
    BY <2>2, <2>3
  <2> QED
    BY <2>3, <2>4 DEF key
<1>7. PoolsAre(dataset, annotated) /\ Chosen(dataset, modality, next, annotated)
  BY <1>4, <1>6
<1> HIDE DEF annotated
<1>8. PoolsAre(dataset, normal) /\ Chosen(dataset, modality, next, normal)
  BY <1>6, <1>7
<1> QED
  BY <1>3, <1>8 DEF next

(***************************************************************************)
(* The plans of a group.                                                   *)
(***************************************************************************)

SumStep(p, q, u, v, sum, plan) == sum + plan.fails
SumHolds(p, q, u, v, k, sum) == sum \in Nat
Summing == INSTANCE Folding WITH Step <- SumStep, Holds <- SumHolds

SumsUp(f) == /\ f[0] = 0 /\ f[Len(AxisPlan)] = WaveFails
             /\ \A k \in 1..Len(AxisPlan) : f[k] = f[k - 1] + AxisPlan[k].fails

\* FAILs of the first k axes.
AxisFails == CHOOSE f : SumsUp(f)

\* The axes have as many as a wave needs.
LEMMA AxisFailsAre ==
    /\ SumsUp(AxisFails) /\ Len(AxisPlan) \in Nat /\ DOMAIN AxisPlan = 1..Len(AxisPlan)
    /\ \A k \in 1..Len(AxisPlan) : AxisPlan[k] \in [axis : STRING, total : Nat, fails : Nat]
<1> DEFINE Plan == [axis : STRING, total : Nat, fails : Nat]
<1>1. AxisPlan \in Seq(Plan)
  BY ManifestAssumption, Zenon
<1>2. Summing!Folded(0, 0, 0, 0, 0, AxisPlan) = WaveFails
  BY ManifestAssumption, Zenon
     DEF SumStep, Summing!Folded, Summing!Iterates, Summing!Unfolds, Summing!Greatest, FoldLeft,
         MapThenFoldSet, Max
<1> HIDE DEF Plan
<1>3. \E f : SumsUp(f)
  <2>1. PICK f : /\ f[0] = 0
                 /\ \A k \in 1..Len(AxisPlan) :
                       f[k] = SumStep(0, 0, 0, 0, f[k - 1], AxisPlan[k])
                 /\ Summing!Folded(0, 0, 0, 0, 0, AxisPlan) = f[Len(AxisPlan)]
    BY <1>1, Summing!FoldSteps
  <2> QED
    BY <1>2, <2>1 DEF SumStep, SumsUp
<1>4. SumsUp(AxisFails)
  BY <1>3 DEF AxisFails
<1>5. Len(AxisPlan) \in Nat /\ DOMAIN AxisPlan = 1..Len(AxisPlan)
      /\ \A k \in 1..Len(AxisPlan) : AxisPlan[k] \in Plan
  BY <1>1
<1> QED
  BY <1>4, <1>5 DEF Plan

\* FAILs that the first k plans ask for.
FailsOf(modality, fails, k) ==
    IF ~ fails THEN 0 ELSE IF modality = "CT" THEN AxisFails[k] ELSE IF k = 0 THEN 0 ELSE WaveFails

\* Each adds its own, and together they are as many as a recapture needs.
LEMMA PlansAre ==
    ASSUME NEW modality \in ImageTypes, NEW fails \in BOOLEAN,
           NEW plans, plans = Plans(modality, fails)
    PROVE  /\ \E S : plans \in Seq(S)
           /\ \A k \in 1..Len(plans) :
                 /\ plans[k].axis \in PlanAxes /\ plans[k].fails \in Nat
                 /\ FailsOf(modality, fails, k)
                       = FailsOf(modality, fails, k - 1) + plans[k].fails
           /\ FailsOf(modality, fails, 0) = 0
           /\ FailsOf(modality, fails, Len(plans)) = IF fails THEN WaveFails ELSE 0
<1> DEFINE count == IF fails THEN WaveFails ELSE 0
<1>1. CASE modality = "RGB"
  <2> DEFINE plan == [axis |-> "", total |-> WaveImages, fails |-> count]
  <2>1. plans = <<plan>>
    BY <1>1 DEF Plans
  <2>2. plan.axis = "" /\ plan.fails = count
    OBVIOUS
  <2>3. count \in Nat
    BY SomeImages
  <2> HIDE DEF plan, count
  <2>4. plans \in Seq({plan}) /\ Len(plans) = 1 /\ plans[1] = plan
    BY <2>1
  <2>5. plan.axis \in PlanAxes
    BY <2>2 DEF PlanAxes
  <2>6. FailsOf(modality, fails, 0) = 0 /\ FailsOf(modality, fails, 1) = count
    BY <1>1 DEF FailsOf, count
  <2>7. \A k \in 1..Len(plans) : k = 1
    BY <2>4
  <2>8. 0 + count = count
    BY <2>3
  <2>9. ASSUME NEW k \in 1..Len(plans)
        PROVE  /\ plans[k].axis \in PlanAxes /\ plans[k].fails \in Nat
               /\ FailsOf(modality, fails, k)
                     = FailsOf(modality, fails, k - 1) + plans[k].fails
    <3>1. k = 1 /\ k - 1 = 0
      BY <2>7
    <3>2. plans[k].axis \in PlanAxes /\ plans[k].fails = count
      BY <2>2, <2>4, <2>5, <3>1
    <3> QED
      BY <2>3, <2>6, <2>8, <3>1, <3>2
  <2>10. FailsOf(modality, fails, 0) = 0 /\ FailsOf(modality, fails, Len(plans)) = count
    BY <2>4, <2>6
  <2>11. \E S : plans \in Seq(S)
    BY <2>4
  <2> QED
    BY <2>9, <2>10, <2>11 DEF count
<1>2. CASE modality # "RGB"
  <2> DEFINE Plan(n) == [AxisPlan[n] EXCEPT !.fails = IF fails THEN @ ELSE 0]
             L == Len(AxisPlan)
  <2>1. plans = [n \in DOMAIN AxisPlan |-> Plan(n)]
    BY <1>2 DEF Plans
  <2>2. SumsUp(AxisFails) /\ L \in Nat /\ DOMAIN AxisPlan = 1..L
        /\ \A n \in 1..L : AxisPlan[n] \in [axis : STRING, total : Nat, fails : Nat]
    BY AxisFailsAre
  <2>3. ASSUME NEW n \in 1..L
        PROVE  /\ Plan(n).axis \in PlanAxes
               /\ Plan(n).fails = IF fails THEN AxisPlan[n].fails ELSE 0
               /\ AxisPlan[n].fails \in Nat
    <3>1. AxisPlan[n] \in [axis : STRING, total : Nat, fails : Nat]
      BY <2>2
    <3>2. Plan(n).axis = AxisPlan[n].axis
      BY <3>1
    <3>3. Plan(n).fails = IF fails THEN AxisPlan[n].fails ELSE 0
      BY <3>1
    <3>4. AxisPlan[n].fails \in Nat
      BY <3>1
    <3> QED
      BY <2>2, <3>2, <3>3, <3>4 DEF PlanAxes
  <2> HIDE DEF Plan, L
  <2>4. plans \in Seq({Plan(n) : n \in 1..L}) /\ Len(plans) = L
        /\ \A k \in 1..L : plans[k] = Plan(k)
    <3>1. plans = [n \in 1..L |-> Plan(n)]
      BY <2>1, <2>2
    <3>2. L \in Nat
      BY <2>2
    <3>3. plans \in Seq({Plan(n) : n \in 1..L}) /\ Len(plans) = L
      BY <3>1, <3>2
    <3>4. \A k \in 1..L : plans[k] = Plan(k)
      BY <3>1, Zenon
    <3> QED
      BY <3>3, <3>4
  <2>5. modality = "CT"
    BY <1>2 DEF ImageTypes
  <2>6. /\ FailsOf(modality, fails, 0) = 0
        /\ FailsOf(modality, fails, L) = count
        /\ \A k : FailsOf(modality, fails, k) = IF fails THEN AxisFails[k] ELSE 0
    BY <2>2, <2>5 DEF FailsOf, SumsUp, L
  <2>7. ASSUME NEW k \in 1..L
        PROVE  /\ plans[k].axis \in PlanAxes /\ plans[k].fails \in Nat
               /\ FailsOf(modality, fails, k)
                     = FailsOf(modality, fails, k - 1) + plans[k].fails
    <3>1. plans[k].axis \in PlanAxes /\ plans[k].fails \in Nat
          /\ plans[k].fails = IF fails THEN AxisPlan[k].fails ELSE 0
      BY <2>3, <2>4
    <3>2. AxisFails[k] = AxisFails[k - 1] + AxisPlan[k].fails
      BY <2>2 DEF SumsUp, L
    <3> QED
      BY <2>6, <3>1, <3>2
  <2> QED
    BY <2>4, <2>6, <2>7
<1> QED
  BY <1>1, <1>2

FailHolds(modality, status, fails, dataset, k, r) ==
    /\ PoolsAre(dataset, r) /\ FailsOf(modality, fails, k) \in Nat
    /\ Chosen(dataset, modality, FailsOf(modality, fails, k), r)
ChoosingFails == INSTANCE Folding WITH Step <- PlanStep, Holds <- FailHolds

\* The images of a case: all that a group needs.
LEMMA InitialChooses ==
    ASSUME NEW dataset, IsDataset(dataset), NEW modality \in ImageTypes,
           NEW status \in {"normal", "defective"}, NEW fails \in BOOLEAN,
           NEW s, PoolsAre(dataset, s),
           NEW g, g = choose_initial(s, dataset, modality, status, fails)
    PROVE  /\ Chosen(dataset, modality, IF fails THEN WaveFails ELSE 0, g)
           /\ ~ g.failed => Len(g.chosen) = WaveImages
<1> DEFINE plans == Plans(modality, fails)
           start == NextCase(s)
           chosen == ChoosingFails!Folded(modality, status, fails, dataset, start, plans)
           expected == IF status = "defective" THEN Porosity ELSE 0
           failed == \/ chosen.failed
                     \/ Len(chosen.chosen) # WaveImages
                     \/ modality = "CT" /\ expected # Cardinality(
                            {i \in ToSet(chosen.chosen) : dataset[i].porosity})
           number == IF fails THEN WaveFails ELSE 0
<1>1. g = [chosen EXCEPT !.failed = failed]
  BY Zenon DEF choose_initial, PlanStep, ChoosingFails!Folded, ChoosingFails!Iterates,
               ChoosingFails!Unfolds, ChoosingFails!Greatest, FoldLeft, MapThenFoldSet, Max
<1>2. /\ s \in Selections(PoolKeys, DOMAIN dataset)
      /\ start \in Selections(PoolKeys, DOMAIN dataset) /\ Collected(start)
      /\ start.chosen = << >> /\ start.used = s.used /\ start.forbidden = {}
  <2>1. s \in Selections(PoolKeys, DOMAIN dataset)
    BY DEF PoolsAre, Selections
  <2>2. start.used = s.used /\ start.forbidden = {}
    BY <2>1 DEF NextCase, Selections
  <2> QED
    BY <2>1, <2>2, NextCollected
<1>3. PoolsAre(dataset, start)
  BY <1>2, Zenon DEF PoolsAre, Selections
<1>4. /\ \E S : plans \in Seq(S)
      /\ \A k \in 1..Len(plans) :
            /\ plans[k].axis \in PlanAxes /\ plans[k].fails \in Nat
            /\ FailsOf(modality, fails, k)
                  = FailsOf(modality, fails, k - 1) + plans[k].fails
      /\ FailsOf(modality, fails, 0) = 0
      /\ FailsOf(modality, fails, Len(plans)) = number
  BY PlansAre
<1> HIDE DEF plans, start
<1>5. FailHolds(modality, status, fails, dataset, 0, start)
  <2>1. Failing(dataset, start) = {} /\ ToSet(start.chosen) = {}
    BY <1>2, NoGroups DEF Failing
  <2>2. Cardinality(Failing(dataset, start)) = 0
    BY <2>1, FS_EmptySet
  <2>3. Chosen(dataset, modality, 0, start)
    BY <1>2, <2>1, <2>2 DEF Chosen
  <2> QED
    BY <1>3, <1>4, <2>3 DEF FailHolds
<1>6. ASSUME NEW k \in 1..Len(plans), NEW r,
             FailHolds(modality, status, fails, dataset, k - 1, r)
      PROVE  FailHolds(modality, status, fails, dataset, k,
                       PlanStep(modality, status, fails, dataset, r, plans[k]))
  <2> DEFINE plan == plans[k]
             sum == FailsOf(modality, fails, k - 1)
             t == ChoosePlan(r, dataset, modality, status, fails, plan)
  <2>1. plan.axis \in PlanAxes /\ plan.fails \in Nat
        /\ FailsOf(modality, fails, k) = sum + plan.fails
    BY <1>4
  <2>2. PoolsAre(dataset, r) /\ sum \in Nat /\ Chosen(dataset, modality, sum, r)
    BY <1>6 DEF FailHolds
  <2> HIDE DEF plan, sum
  <2>3. PoolsAre(dataset, t)
    BY <2>1, <2>2, PlanKeeps
  <2>4. Chosen(dataset, modality, sum + plan.fails, t)
    BY <2>1, <2>2, PlanChooses
  <2>5. PlanStep(modality, status, fails, dataset, r, plans[k]) = t
    BY DEF PlanStep, plan
  <2>6. sum + plan.fails \in Nat
    BY <2>1, <2>2
  <2> QED
    BY <2>1, <2>3, <2>4, <2>5, <2>6 DEF FailHolds
<1>7. FailHolds(modality, status, fails, dataset, Len(plans), chosen)
  BY <1>4, <1>5, <1>6, ChoosingFails!FoldKeeps, SMT
<1> HIDE DEF chosen, number
<1>8. PoolsAre(dataset, chosen) /\ Chosen(dataset, modality, number, chosen)
  BY <1>4, <1>7 DEF FailHolds
<1>9. /\ g.chosen = chosen.chosen /\ g.forbidden = chosen.forbidden /\ g.failed = failed
  <2>1. chosen \in Selections(PoolKeys, DOMAIN dataset)
    BY <1>8, Zenon DEF PoolsAre, Selections
  <2>2. \A t \in Selections(PoolKeys, DOMAIN dataset) : \A f :
           LET q == [t EXCEPT !.failed = f]
           IN  q.chosen = t.chosen /\ q.forbidden = t.forbidden /\ q.failed = f
    BY DEF Selections
  <2> HIDE DEF failed
  <2> QED
    BY <1>1, <2>1, <2>2
<1>10. Chosen(dataset, modality, number, g)
  <2>1. CASE g.failed
    BY <2>1 DEF Chosen
  <2>2. CASE ~ g.failed
    <3>1. ~ chosen.failed
      BY <1>9, <2>2
    <3> HIDE DEF failed
    <3> QED
      BY <1>8, <1>9, <3>1 DEF Chosen, Collected, Failing
  <2> QED
    BY <2>1, <2>2
<1> QED
  BY <1>9, <1>10 DEF number

\* The group that a half of a case becomes.
HalfName(case, modality) ==
    <<(case - 1) \div CASES_PER_WAVE + 1, 1 + ((case - 1) % CASES_PER_WAVE), modality>>

CaptureRows(dataset, case, images, set) ==
    [n \in DOMAIN images |-> runtime_row(dataset, case, images[n], set)]

\* Different halves become different groups, of the five waves.
LEMMA HalfNames ==
    \E waves \in 0..5 :
       /\ \A case \in 1..CASES, modality \in ImageTypes :
             HalfName(case, modality) \in (1..waves) \X Serials \X ImageTypes
       /\ \A c, d \in 1..CASES, t, u \in ImageTypes :
             HalfName(c, t) = HalfName(d, u) => c = d /\ t = u
       /\ \A g \in (1..waves) \X Serials \X ImageTypes :
             \E case \in 1..CASES : g = HalfName(case, g[3])
<1> DEFINE L == CASES_PER_WAVE
           Wave(c) == (c - 1) \div L
           Cell(c) == (c - 1) % L
<1>1. L \in Nat /\ L > 0 /\ L = CellCount /\ CASES \in Nat
  BY CasesAre
<1>2. PICK waves \in 0..5 : CASES = L * waves
  <2>1. PICK waves \in 0..5 : CASES = waves * CASES_PER_WAVE
    BY ManifestAssumption, Zenon
  <2>2. waves * L = L * waves
    BY <1>1
  <2> QED
    BY <2>1, <2>2
<1> HIDE DEF L
<1>3. waves \in {0, 1, 2, 3, 4, 5}
  OBVIOUS
<1>4. ASSUME NEW c \in 1..CASES
      PROVE  /\ Wave(c) \in 0..waves - 1 /\ Cell(c) \in 0..L - 1
             /\ c - 1 = L * Wave(c) + Cell(c)
  <2> DEFINE a == c - 1
             q == a \div L
             e == a % L
  <2>1. a \in Nat /\ a < CASES
    BY <1>1
  <2> HIDE DEF a
  <2>2. q \in Nat /\ e \in 0..L - 1 /\ a = L * q + e
    BY <1>1, <2>1, Remainder
  <2> HIDE DEF q, e
  <2>3. L * q < L * waves
    BY <1>1, <1>2, <2>1, <2>2
  <2>4. q < waves
    BY <1>1, <1>3, <2>2, <2>3
  <2> QED
    BY <1>3, <2>2, <2>4 DEF a, q, e
<1>5. \A c, t : HalfName(c, t) = <<Wave(c) + 1, 1 + Cell(c), t>>
  BY DEF HalfName, L
<1> HIDE DEF Wave, Cell
<1>6. ASSUME NEW c \in 1..CASES, NEW t \in ImageTypes
      PROVE  HalfName(c, t) \in (1..waves) \X Serials \X ImageTypes
  <2>1. Wave(c) + 1 \in 1..waves /\ 1 + Cell(c) \in 1..L
    <3> DEFINE w == Wave(c)
               e == Cell(c)
    <3>1. w \in 0..waves - 1 /\ e \in 0..L - 1
      BY <1>4
    <3> HIDE DEF w, e
    <3>2. w + 1 \in 1..waves /\ 1 + e \in 1..L
      BY <1>1, <1>3, <3>1
    <3> QED
      BY <3>2 DEF w, e
  <2> QED
    BY <1>1, <1>5, <2>1 DEF Serials
<1>7. ASSUME NEW c \in 1..CASES, NEW d \in 1..CASES, NEW t, NEW u,
             HalfName(c, t) = HalfName(d, u)
      PROVE  c = d /\ t = u
  <2>1. <<Wave(c) + 1, 1 + Cell(c), t>> = <<Wave(d) + 1, 1 + Cell(d), u>>
    BY <1>5, <1>7
  <2>2. Wave(c) + 1 = Wave(d) + 1 /\ 1 + Cell(c) = 1 + Cell(d) /\ t = u
    BY <2>1
  <2>3. /\ Wave(c) \in Int /\ Wave(d) \in Int /\ Cell(c) \in Int /\ Cell(d) \in Int
        /\ c - 1 = L * Wave(c) + Cell(c) /\ d - 1 = L * Wave(d) + Cell(d)
    BY <1>4
  <2>4. Wave(c) = Wave(d) /\ Cell(c) = Cell(d)
    BY <2>2, <2>3
  <2>5. c - 1 = d - 1
    BY <2>3, <2>4
  <2> QED
    BY <2>2, <2>5
<1>8. ASSUME NEW g \in (1..waves) \X Serials \X ImageTypes
      PROVE  \E case \in 1..CASES : g = HalfName(case, g[3])
  <2> DEFINE q == g[1] - 1
             e == g[2] - 1
             a == L * q + e
             case == a + 1
  <2>1. g = <<g[1], g[2], g[3]>> /\ q \in Nat /\ q <= waves - 1 /\ e \in 0..L - 1
        /\ g[1] = q + 1 /\ g[2] = 1 + e
    BY <1>1, <1>3, <1>8 DEF Serials
  <2> HIDE DEF q, e
  <2>2. a \in Nat /\ a < CASES
    <3>1. L * q \in Nat /\ L * q <= L * (waves - 1) /\ L * (waves - 1) = CASES - L
      BY <1>1, <1>2, <1>3, <2>1
    <3> DEFINE m == L * q
               n == L * (waves - 1)
    <3>2. m \in Nat /\ m <= n /\ n = CASES - L
      BY <3>1
    <3> HIDE DEF m, n
    <3>3. m + e \in Nat /\ m + e < CASES
      BY <1>1, <2>1, <3>2
    <3> QED
      BY <3>3 DEF m
  <2> DEFINE b == a
  <2>3. b = L * q + e
    OBVIOUS
  <2> HIDE DEF a
  <2>4. a \div L = q /\ a % L = e
    BY <1>1, <2>1, <2>2, <2>3, QuotientIs, RemainderIs
  <2>5. case \in 1..CASES /\ case - 1 = a
    BY <1>1, <2>2
  <2>6. Wave(case) = q /\ Cell(case) = e
    BY <2>4, <2>5 DEF Wave, Cell
  <2>7. HalfName(case, g[3]) = <<q + 1, 1 + e, g[3]>>
    BY <1>5, <2>6
  <2> QED
    BY <2>1, <2>5, <2>7
<1> QED
  BY <1>6, <1>7, <1>8

\* A half of a case that did not fail becomes a complete group.
LEMMA CaptureRowsFit ==
    ASSUME NEW dataset, NEW case, NEW modality,
           HalfName(case, modality)[1] # Legacy, NEW fails \in BOOLEAN,
           NEW s, ~ s.failed, Len(s.chosen) = WaveImages,
           Chosen(dataset, modality, IF fails THEN WaveFails ELSE 0, s),
           NEW rows, rows = CaptureRows(dataset, case, s.chosen, "INITIAL")
                            \o IF fails THEN CaptureRows(dataset, case, s.chosen, "RECAPTURE")
                               ELSE << >>
    PROVE  Distinct(rows) /\ Fits(ToSet(rows), HalfName(case, modality), Closed)
<1> DEFINE g == HalfName(case, modality)
           initial == s.chosen
           again == IF fails THEN s.chosen ELSE << >>
           first == CaptureRows(dataset, case, initial, "INITIAL")
           second == CaptureRows(dataset, case, again, "RECAPTURE")
           failing == Failing(dataset, s)
           number == IF fails THEN WaveFails ELSE 0
<1>1. rows = first \o second
  <2>1. CaptureRows(dataset, case, << >>, "RECAPTURE") = << >>
    BY DEF CaptureRows
  <2> QED
    BY <2>1
<1>2. /\ Distinct(initial) /\ Len(initial) = WaveImages
      /\ \A i \in ToSet(initial) : /\ dataset[i].modality = modality
                                   /\ dataset[i].quality \in {"PASS", "FAIL"}
      /\ Cardinality(failing) = number
      /\ Distinct(again) /\ ToSet(again) \subseteq ToSet(initial)
      /\ Len(again) = IF fails THEN WaveImages ELSE 0
  BY NoGroups DEF Chosen, Collected
<1>3. failing = {i \in ToSet(initial) : dataset[i].quality = "FAIL"}
  BY DEF Failing
<1> HIDE DEF initial, again, failing
<1>4. /\ \A n \in DOMAIN initial : initial[n] \in ToSet(initial)
      /\ \A n \in DOMAIN again : again[n] \in ToSet(initial)
  BY <1>2 DEF ToSet
<1>5. /\ first = [n \in DOMAIN initial |-> first[n]]
      /\ \A n \in DOMAIN initial :
            LET r == first[n]
            IN  /\ Name(r) = g /\ r.set = "INITIAL" /\ r.object.source = initial[n]
                /\ r.object.set = r.set /\ r.object.type = r.type
                /\ r.quality \in {"PASS", "FAIL"}
                /\ r.quality = dataset[initial[n]].quality
  BY <1>2, <1>4 DEF CaptureRows, runtime_row, Name, HalfName
<1>6. /\ second = [n \in DOMAIN again |-> second[n]]
      /\ \A n \in DOMAIN again :
            LET r == second[n]
            IN  /\ Name(r) = g /\ r.set = "RECAPTURE" /\ r.object.source = again[n]
                /\ r.object.set = r.set /\ r.object.type = r.type /\ r.quality = "PASS"
  BY <1>2, <1>4 DEF CaptureRows, runtime_row, Name, HalfName
<1> HIDE DEF first, second, g
<1>7. /\ Distinct(first) /\ Len(first) = Len(initial)
      /\ \A r, q \in ToSet(first) : r.object = q.object => r = q
      /\ \A r \in ToSet(first) : \E n \in DOMAIN initial : r = first[n]
      /\ \A n \in DOMAIN initial : first[n] \in ToSet(first)
  <2>1. \A m, n \in DOMAIN initial : first[m].object = first[n].object => initial[m] = initial[n]
    BY <1>5
  <2> QED
    BY <1>2, <1>5, <2>1, RowsOfImages
<1>8. /\ Distinct(second) /\ Len(second) = Len(again)
      /\ \A r, q \in ToSet(second) : r.object = q.object => r = q
      /\ \A r \in ToSet(second) : \E n \in DOMAIN again : r = second[n]
  <2>1. \A m, n \in DOMAIN again : second[m].object = second[n].object => again[m] = again[n]
    BY <1>6
  <2>2. Distinct(again) /\ second = [n \in DOMAIN again |-> second[n]]
    BY <1>2, <1>6
  <2> QED
    BY <2>1, <2>2, RowsOfImages
<1>9. ASSUME NEW r \in ToSet(first)
      PROVE  /\ Name(r) = g /\ r.set = "INITIAL" /\ r.object.set = r.set /\ r.object.type = r.type
             /\ r.quality \in {"PASS", "FAIL"}
  BY <1>5, <1>7
<1>10. ASSUME NEW r \in ToSet(second)
       PROVE  /\ Name(r) = g /\ r.set = "RECAPTURE" /\ r.object.set = r.set
              /\ r.object.type = r.type /\ r.quality = "PASS"
  BY <1>6, <1>8
<1>11. ToSet(first) \cap ToSet(second) = {}
  BY <1>9, <1>10
<1>12. Distinct(first \o second) /\ ToSet(first \o second) = ToSet(first) \cup ToSet(second)
  BY <1>7, <1>8, <1>11, JoinedDistinct
<1> DEFINE F == ToSet(first)
           A == ToSet(second)
           G == F \cup A
           bad == {r \in F : r.quality = "FAIL"}
<1>13. Cardinality(F) = WaveImages /\ Cardinality(A) = Len(again)
  BY <1>2, <1>7, <1>8, PlacesOf
<1>14. WellMade(G, g)
  <2>1. \A r, q \in G : r.object = q.object => r = q
    <3> SUFFICES ASSUME NEW r \in G, NEW q \in G, r.object = q.object PROVE r = q
      OBVIOUS
    <3>1. r.object.set = r.set /\ q.object.set = q.set
      BY <1>9, <1>10
    <3>2. r.set = q.set
      BY <3>1
    <3> QED
      BY <1>7, <1>8, <1>9, <1>10, <3>2
  <2>2. \A r \in G : /\ Name(r) = g /\ r.set \in {"INITIAL", "RECAPTURE"}
                     /\ r.quality \in {"PASS", "FAIL"}
                     /\ r.object.set = r.set /\ r.object.type = r.type
    BY <1>9, <1>10
  <2> HIDE DEF G
  <2> QED
    BY <2>1, <2>2 DEF WellMade
<1>15. /\ Captures(G, "INITIAL", {"PASS", "FAIL"}) = F
       /\ Captures(G, "RECAPTURE", {"PASS", "FAIL"}) = A
       /\ Captures(G, "RECAPTURE", {"FAIL"}) = {}
       /\ Captures(G, "INITIAL", {"FAIL"}) = bad
  BY <1>9, <1>10 DEF Captures
<1>16. Cardinality(bad) = number
  <2>1. Cardinality({n \in DOMAIN initial : initial[n] \in failing}) = Cardinality(failing)
    <3>1. ToSet(initial) \cap failing = failing
      BY <1>3
    <3>2. Cardinality({n \in DOMAIN initial : initial[n] \in failing})
             = Cardinality(ToSet(initial) \cap failing)
      BY <1>2, PlacesOf, Zenon
    <3> QED
      BY <3>1, <3>2
  <2>2. Cardinality({n \in DOMAIN first : first[n] \in bad}) = Cardinality(bad)
    <3>1. ToSet(first) \cap bad = bad
      OBVIOUS
    <3> HIDE DEF bad
    <3>2. Cardinality({n \in DOMAIN first : first[n] \in bad})
             = Cardinality(ToSet(first) \cap bad)
      BY <1>7, PlacesOf, Zenon
    <3> QED
      BY <3>1, <3>2
  <2>3. DOMAIN first = DOMAIN initial
    BY <1>5
  <2>4. {n \in DOMAIN first : first[n] \in bad} = {n \in DOMAIN initial : initial[n] \in failing}
    BY <1>3, <1>4, <1>5, <1>7, <2>3
  <2> QED
    BY <1>2, <2>1, <2>2, <2>4
<1>17. g[1] # Legacy /\ Cardinality({}) = 0
  BY FS_EmptySet DEF g
<1>18. number = WaveFails <=> fails
  BY SomeImages
<1> HIDE DEF G, F, A, bad
<1>19. IsComplete(G, g)
  BY <1>2, <1>13, <1>15, <1>16, <1>17, <1>18 DEF IsComplete
<1> QED
  BY <1>1, <1>12, <1>14, <1>19 DEF Fits, G, F, A, g

\* Lists may be joined in either order.
LEMMA JoinedTwice ==
    ASSUME NEW a, IsSequence(a), NEW b, IsSequence(b), NEW c, IsSequence(c)
    PROVE  (a \o b) \o c = a \o (b \o c)
<1> DEFINE Of(s) == {s[n] : n \in DOMAIN s}
           U == Of(a) \cup Of(b) \cup Of(c)
<1>1. a \in Seq(U) /\ b \in Seq(U) /\ c \in Seq(U)
  <2>1. /\ \A n \in 1..Len(a) : a[n] \in U
        /\ \A n \in 1..Len(b) : b[n] \in U
        /\ \A n \in 1..Len(c) : c[n] \in U
    BY DEF IsSequence
  <2> HIDE DEF U
  <2>2. a \in [1..Len(a) -> U] /\ b \in [1..Len(b) -> U] /\ c \in [1..Len(c) -> U]
    BY <2>1 DEF IsSequence
  <2> QED
    BY <2>2 DEF IsSequence
<1> HIDE DEF U
<1> QED
  BY <1>1

\* The groups of the first k halves.
FirstHalves(k) == {HalfName(CellTypes(CASES)[n][1], CellTypes(CASES)[n][2]) : n \in 1..k}

GroupHolds(dataset, q, u, v, k, b) ==
    /\ HalfHolds(dataset, 0, 0, 0, k, b)
    /\ ~ b.pools.failed => Distinct(b.rows) /\ GroupsFit(ToSet(b.rows), FirstHalves(k), Closed)
EachHalf == INSTANCE Folding WITH Step <- HalfStep, Holds <- GroupHolds

\* A complete group is added.
AddsGroup(before, g, after) ==
    \E rows : after = before \o rows /\ Distinct(rows) /\ Fits(ToSet(rows), g, Closed)

\* A half adds its group.
LEMMA HalfAdds ==
    ASSUME NEW dataset, IsDataset(dataset), NEW b, PoolsAre(dataset, b.pools),
           b = [pools |-> b.pools, rows |-> b.rows, cases |-> b.cases],
           ~ b.pools.failed => IsSequence(b.rows),
           NEW case, NEW modality \in ImageTypes, HalfName(case, modality)[1] # Legacy,
           NEW after, after = BuildCase(b, dataset, case, modality), ~ after.pools.failed
    PROVE  ~ b.pools.failed /\ AddsGroup(b.rows, HalfName(case, modality), after.rows)
<1> DEFINE fails == case \in CaptureFailCases[modality]
           status == IF case \in DefectCases[modality] THEN "defective" ELSE "normal"
           s == choose_initial(b.pools, dataset, modality, status, fails)
           first == CaptureRows(dataset, case, s.chosen, "INITIAL")
           second == CaptureRows(dataset, case, s.chosen, "RECAPTURE")
           again == IF fails THEN second ELSE << >>
           lost == fails /\ \E i \in ToSet(s.chosen) : ~ dataset[i].linked
           cases == Append(b.cases, ToSet(s.chosen))
<1>1. after = IF b.pools.failed THEN b ELSE AddRows(b, dataset, case, fails, s)
  BY DEF BuildCase
<1>2. ~ b.pools.failed
  BY <1>1
<1>3. after = IF lost THEN [b EXCEPT !.pools.failed = TRUE]
              ELSE [b EXCEPT !.pools = s, !.cases = Append(@, ToSet(s.chosen)),
                             !.rows = @ \o first \o again]
  BY <1>1, <1>2, Zenon DEF AddRows, CaptureRows
<1>4. fails \in BOOLEAN /\ status \in {"normal", "defective"}
  OBVIOUS
<1> HIDE DEF fails, status
<1>5. /\ Chosen(dataset, modality, IF fails THEN WaveFails ELSE 0, s)
      /\ ~ s.failed => Len(s.chosen) = WaveImages
  BY <1>4, InitialChooses
<1>6. b.pools \in Selections(PoolKeys, DOMAIN dataset)
  BY Zenon DEF PoolsAre, Selections
<1> HIDE DEF s, first, second
<1>7. ~ lost
  <2> SUFFICES ASSUME lost PROVE FALSE
    OBVIOUS
  <2> HIDE DEF lost
  <2>1. after = [b EXCEPT !.pools.failed = TRUE]
    BY <1>3
  <2>2. after.pools = [b.pools EXCEPT !.failed = TRUE]
    BY <2>1
  <2>3. after.pools.failed
    BY <1>6, <2>2 DEF Selections
  <2> QED
    BY <2>3
<1> HIDE DEF lost
<1>8. after.pools = s /\ after.rows = b.rows \o first \o again
  BY <1>3, <1>7
<1>9. ~ s.failed /\ Len(s.chosen) = WaveImages
  BY <1>5, <1>8
<1> DEFINE rows == first \o again
<1>10. Distinct(rows) /\ Fits(ToSet(rows), HalfName(case, modality), Closed)
  <2>1. rows = CaptureRows(dataset, case, s.chosen, "INITIAL")
               \o IF fails THEN CaptureRows(dataset, case, s.chosen, "RECAPTURE") ELSE << >>
    BY DEF first, second
  <2> HIDE DEF rows, again
  <2> QED
    BY <1>4, <1>5, <1>9, <2>1, CaptureRowsFit
<1>11. IsSequence(first) /\ IsSequence(again)
  <2>1. IsSequence(s.chosen)
    BY <1>5, <1>9 DEF Chosen, Collected, Distinct
  <2>2. \A set : IsSequence(CaptureRows(dataset, case, s.chosen, set))
    BY <2>1 DEF CaptureRows, IsSequence
  <2>3. IsSequence(<< >>)
    BY DEF IsSequence
  <2> QED
    BY <2>2, <2>3 DEF first, second
<1> HIDE DEF again
<1>12. after.rows = b.rows \o rows
  BY <1>2, <1>8, <1>11, JoinedTwice
<1> HIDE DEF rows
<1> QED
  BY <1>2, <1>10, <1>12 DEF AddsGroup

\* A whole output has all groups of its waves.
LEMMA WavesHaveGroups ==
    ASSUME NEW dataset, IsDataset(dataset), NEW b, b = build_waves(dataset), b # Refused
    PROVE  /\ Distinct(b.rows)
           /\ GroupsFit(ToSet(b.rows), {HalfName(h[1], h[2]) : h \in (1..CASES) \X ImageTypes},
                        Closed)
<1> DEFINE start == [pools |-> FreshPools(PoolKeys, DOMAIN dataset), rows |-> << >>,
                     cases |-> << >>]
           halves == CellTypes(CASES)
           built == EachHalf!Folded(dataset, 0, 0, 0, start, halves)
           all == {HalfName(h[1], h[2]) : h \in (1..CASES) \X ImageTypes}
<1>1. b = AllDistinct(built)
  BY Zenon DEF build_waves, HalfStep, EachHalf!Folded, EachHalf!Iterates,
               EachHalf!Unfolds, EachHalf!Greatest, FoldLeft, MapThenFoldSet, Max
<1>2. HalfHolds(dataset, 0, 0, 0, 0, start) /\ start.rows = << >> /\ ~ start.pools.failed
  <2>1. PoolsAre(dataset, FreshPools(PoolKeys, DOMAIN dataset))
    BY DEF PoolsAre, FreshPools
  <2>2. ~ start.pools.failed
    BY DEF FreshPools
  <2> QED
    BY <2>1, <2>2 DEF HalfHolds
<1>3. CASES \in Nat
  BY CasesAre
<1>4. /\ Len(halves) = 2 * CASES /\ 2 * CASES \in Nat
      /\ halves \in Seq((1..CASES) \X ImageTypes)
      /\ \A n \in 1..2 * CASES : /\ halves[n][1] \in 1..CASES /\ halves[n][2] \in ImageTypes
                                 /\ halves[n] = <<halves[n][1], halves[n][2]>>
      /\ \A m, n \in 1..2 * CASES : halves[m] = halves[n] => m = n
      /\ \A c \in 1..CASES, t \in ImageTypes : \E n \in 1..2 * CASES : halves[n] = <<c, t>>
  BY <1>3, CellTypesAre
<1>5. PICK waves \in 0..5 :
         /\ \A case \in 1..CASES, modality \in ImageTypes :
               HalfName(case, modality) \in (1..waves) \X Serials \X ImageTypes
         /\ \A c, d \in 1..CASES, t, u \in ImageTypes :
               HalfName(c, t) = HalfName(d, u) => c = d /\ t = u
  BY HalfNames
<1>6. \A k : FirstHalves(k) = {HalfName(halves[n][1], halves[n][2]) : n \in 1..k}
  BY DEF FirstHalves
<1> HIDE DEF built, halves, start
<1>7. GroupHolds(dataset, 0, 0, 0, 0, start)
  <2>1. FirstHalves(0) = {}
    BY <1>6
  <2> QED
    BY <1>2, <2>1, NoGroups DEF GroupHolds
<1>8. ASSUME NEW k \in 1..Len(halves), NEW r, GroupHolds(dataset, 0, 0, 0, k - 1, r)
      PROVE  GroupHolds(dataset, 0, 0, 0, k, HalfStep(dataset, 0, 0, 0, r, halves[k]))
  <2> DEFINE c == halves[k][1]
             t == halves[k][2]
             g == HalfName(c, t)
             done == FirstHalves(k - 1)
             after == BuildCase(r, dataset, c, t)
  <2>1. c \in 1..CASES /\ t \in ImageTypes
    BY <1>4
  <2>2. g \notin done /\ FirstHalves(k) = done \cup {g}
    <3>1. ASSUME NEW n \in 1..k - 1 PROVE halves[n] # halves[k]
      <4> DEFINE L == 2 * CASES
      <4>1. Len(halves) = L /\ L \in Nat
            /\ \A m, i \in 1..L : halves[m] = halves[i] => m = i
        BY <1>4
      <4> HIDE DEF L
      <4>2. n \in 1..L /\ k \in 1..L /\ n # k
        BY <4>1
      <4> QED
        BY <4>1, <4>2, Zenon
    <3>2. ASSUME NEW n \in 1..k - 1, HalfName(halves[n][1], halves[n][2]) = g PROVE FALSE
      <4> DEFINE L == 2 * CASES
      <4>4. /\ Len(halves) = L /\ L \in Nat
            /\ \A m \in 1..L : /\ halves[m][1] \in 1..CASES /\ halves[m][2] \in ImageTypes
                              /\ halves[m] = <<halves[m][1], halves[m][2]>>
        BY <1>4
      <4> HIDE DEF L
      <4>5. n \in 1..L /\ k \in 1..L
        BY <4>4
      <4>1. halves[n][1] \in 1..CASES /\ halves[n][2] \in ImageTypes
            /\ halves[n] = <<halves[n][1], halves[n][2]>> /\ halves[k] = <<c, t>>
        BY <4>4, <4>5, Zenon DEF c, t
      <4>2. halves[n][1] = c /\ halves[n][2] = t
        BY <1>5, <2>1, <3>2, <4>1
      <4>3. halves[n] = halves[k]
        BY <4>1, <4>2, Zenon
      <4> QED
        BY <3>1, <4>3
    <3>3. 1..k = (1..k - 1) \cup {k}
      <4>1. Len(halves) \in Nat
        BY <1>4
      <4> QED
        BY <4>1
    <3> QED
      BY <1>6, <3>2, <3>3
  <2>3. HalfStep(dataset, 0, 0, 0, r, halves[k]) = after
    BY DEF HalfStep
  <2>4. /\ HalfHolds(dataset, 0, 0, 0, k - 1, r)
        /\ ~ r.pools.failed => Distinct(r.rows) /\ GroupsFit(ToSet(r.rows), done, Closed)
    BY <1>8 DEF GroupHolds
  <2> HIDE DEF c, t, done, after
  <2>5. HalfHolds(dataset, 0, 0, 0, k, after)
    BY <2>1, <2>4, HalfKeeps DEF after
  <2>6. ASSUME ~ after.pools.failed
        PROVE  Distinct(after.rows) /\ GroupsFit(ToSet(after.rows), done \cup {g}, Closed)
    <3>1. g[1] # Legacy
      <4>1. g \in (1..waves) \X Serials \X ImageTypes
        BY <1>5, <2>1
      <4> QED
        BY <4>1 DEF Legacy
    <3>2. PoolsAre(dataset, r.pools) /\ r = [pools |-> r.pools, rows |-> r.rows, cases |-> r.cases]
      BY <2>4 DEF HalfHolds
    <3>3. ~ r.pools.failed => IsSequence(r.rows)
      BY <2>4 DEF Distinct
    <3>4. ~ r.pools.failed /\ AddsGroup(r.rows, HalfName(c, t), after.rows)
      <4>1. after = BuildCase(r, dataset, c, t) /\ ~ after.pools.failed
        BY <2>6 DEF after
      <4>2. HalfName(c, t)[1] # Legacy
        BY <3>1
      <4> HIDE DEF g
      <4> QED
        BY <2>1, <3>2, <3>3, <4>1, <4>2, HalfAdds
    <3>5. PICK rows : /\ after.rows = r.rows \o rows
                      /\ Distinct(rows) /\ Fits(ToSet(rows), g, Closed)
      BY <3>4 DEF AddsGroup
    <3> DEFINE before == r.rows
    <3>6. Distinct(before) /\ GroupsFit(ToSet(before), done, Closed)
      BY <2>4, <3>4
    <3> HIDE DEF g, before
    <3>7. /\ GroupsFit(ToSet(before) \cup ToSet(rows), done \cup {g}, Closed)
          /\ ToSet(before) \cap ToSet(rows) = {}
      BY <2>2, <3>5, <3>6, GroupJoins
    <3>8. Distinct(before \o rows) /\ ToSet(before \o rows) = ToSet(before) \cup ToSet(rows)
      BY <3>5, <3>6, <3>7, JoinedDistinct
    <3> QED
      BY <3>5, <3>7, <3>8 DEF before
  <2> QED
    BY <2>2, <2>3, <2>5, <2>6 DEF GroupHolds
<1>9. GroupHolds(dataset, 0, 0, 0, Len(halves), built)
  <2>1. \E S : halves \in Seq(S)
    BY <1>4
  <2> QED
    BY <1>7, <1>8, <2>1, EachHalf!FoldKeeps, SMT DEF built
<1>10. FirstHalves(Len(halves)) = all
  <2>1. \A n \in 1..2 * CASES : HalfName(halves[n][1], halves[n][2]) \in all
    <3> SUFFICES ASSUME NEW n \in 1..2 * CASES PROVE HalfName(halves[n][1], halves[n][2]) \in all
      OBVIOUS
    <3>1. <<halves[n][1], halves[n][2]>> \in (1..CASES) \X ImageTypes
      BY <1>4
    <3> QED
      BY <3>1
  <2>2. \A g \in all : \E n \in 1..2 * CASES : g = HalfName(halves[n][1], halves[n][2])
    <3> SUFFICES ASSUME NEW h \in (1..CASES) \X ImageTypes
                 PROVE  \E n \in 1..2 * CASES :
                           HalfName(h[1], h[2]) = HalfName(halves[n][1], halves[n][2])
      OBVIOUS
    <3>1. h[1] \in 1..CASES /\ h[2] \in ImageTypes /\ h = <<h[1], h[2]>>
      OBVIOUS
    <3>2. PICK n \in 1..2 * CASES : halves[n] = <<h[1], h[2]>>
      BY <1>4, <3>1
    <3>3. halves[n][1] = h[1] /\ halves[n][2] = h[2]
      BY <3>2
    <3> QED
      BY <3>3
  <2>3. FirstHalves(Len(halves)) = {HalfName(halves[n][1], halves[n][2]) : n \in 1..2 * CASES}
    BY <1>4, <1>6
  <2> HIDE DEF all
  <2> QED
    BY <2>1, <2>2, <2>3, Zenon
<1>11. ~ built.pools.failed /\ b = built
  BY <1>1 DEF AllDistinct
<1> QED
  BY <1>9, <1>10, <1>11 DEF GroupHolds

\* So every wave that is written loads.
LEMMA WavesLoad ==
    ASSUME NEW dataset, IsDataset(dataset), NEW b, b = build_waves(dataset), b # Refused,
           NEW w \in {b.rows[n].wave : n \in DOMAIN b.rows}
    PROVE  Accepted(WaveRows(b, w))
<1> DEFINE S == ToSet(b.rows)
           all == {HalfName(h[1], h[2]) : h \in (1..CASES) \X ImageTypes}
           places == {n \in DOMAIN b.rows : b.rows[n].wave = w}
           rows == WaveRows(b, w)
<1>1. Distinct(b.rows) /\ GroupsFit(S, all, Closed)
  BY WavesHaveGroups
<1>2. PICK waves \in 0..5 :
         /\ \A case \in 1..CASES, modality \in ImageTypes :
               HalfName(case, modality) \in (1..waves) \X Serials \X ImageTypes
         /\ \A g \in (1..waves) \X Serials \X ImageTypes :
               \E case \in 1..CASES : g = HalfName(case, g[3])
  BY HalfNames
<1>3. all = (1..waves) \X Serials \X ImageTypes
  <2>1. ASSUME NEW h \in (1..CASES) \X ImageTypes
        PROVE  HalfName(h[1], h[2]) \in (1..waves) \X Serials \X ImageTypes
    <3>1. h[1] \in 1..CASES /\ h[2] \in ImageTypes
      OBVIOUS
    <3> QED
      BY <1>2, <3>1
  <2>2. ASSUME NEW g \in (1..waves) \X Serials \X ImageTypes PROVE g \in all
    <3>1. PICK case \in 1..CASES : g = HalfName(case, g[3])
      BY <1>2
    <3> DEFINE h == <<case, g[3]>>
    <3>2. h \in (1..CASES) \X ImageTypes /\ h[1] = case /\ h[2] = g[3]
      OBVIOUS
    <3> HIDE DEF h
    <3>3. g = HalfName(h[1], h[2])
      BY <3>1, <3>2
    <3> QED
      BY <3>2, <3>3
  <2> QED
    BY <2>1, <2>2
<1>4. Distinct(rows) /\ ToSet(rows) = {r \in S : r.wave = w}
  <2>1. places \subseteq DOMAIN b.rows /\ {b.rows[n] : n \in places} = {r \in S : r.wave = w}
    BY DEF ToSet
  <2>2. rows = Picked(b.rows, places)
    BY DEF WaveRows
  <2> HIDE DEF places, rows
  <2> QED
    BY <1>1, <2>1, <2>2, PickedDistinct
<1> HIDE DEF all, rows
<1>5. w \in 1..waves
  <2>1. PICK r \in S : r.wave = w
    BY DEF ToSet
  <2>2. Name(r) \in (1..waves) \X Serials \X ImageTypes /\ Name(r)[1] = w
    BY <1>1, <1>3, <2>1 DEF GroupsFit, Name
  <2> QED
    BY <2>2
<1>6. Names(w) \subseteq all
  BY <1>3, <1>5 DEF Names
<1> HIDE DEF S
<1>7. GroupsFit(ToSet(rows), Names(w), Closed)
  <2>1. ASSUME NEW r \in ToSet(rows) PROVE Name(r) \in Names(w)
    <3>1. r \in S /\ r.wave = w
      BY <1>4
    <3>2. Name(r) \in (1..waves) \X Serials \X ImageTypes
      BY <1>1, <1>3, <3>1 DEF GroupsFit
    <3>3. r.cell \in Serials /\ r.type \in ImageTypes
      BY <3>2 DEF Name
    <3> QED
      BY <3>1, <3>3 DEF Name, Names
  <2>2. ASSUME NEW g \in Names(w) PROVE Fits(Group(ToSet(rows), g), g, Closed)
    <3>1. \A r : Name(r) = g => r.wave = w
      BY DEF Name, Names
    <3>2. Group(ToSet(rows), g) = Group(S, g)
      BY <1>4, <3>1 DEF Group
    <3>3. Fits(Group(S, g), g, Closed)
      BY <1>1, <1>6 DEF GroupsFit
    <3> QED
      BY <3>2, <3>3
  <2> QED
    BY <2>1, <2>2 DEF GroupsFit
<1>8. w \in 0..5
  BY <1>5
<1> QED
  BY <1>4, <1>7, <1>8, GroupsAreAccepted DEF rows

(***************************************************************************)
(* The demonstration waves of v1.8.                                        *)
(***************************************************************************)

\* Initial captures that pass, as many as a group of a wave has.
LEMMA PassingIsComplete ==
    ASSUME NEW G, NEW g, g[1] # Legacy, Cardinality(G) = WaveImages,
           \A r \in G : r.set = "INITIAL" /\ r.quality = "PASS"
    PROVE  IsComplete(G, g)
<1>1. /\ Captures(G, "INITIAL", {"PASS", "FAIL"}) = G
      /\ Captures(G, "INITIAL", {"FAIL"}) = {}
      /\ Captures(G, "RECAPTURE", {"PASS", "FAIL"}) = {}
      /\ Captures(G, "RECAPTURE", {"FAIL"}) = {}
  BY DEF Captures
<1>2. Cardinality({}) = 0 /\ WaveFails # 0
  BY FS_EmptySet, SomeImages
<1> QED
  BY <1>1, <1>2 DEF IsComplete

\* The rows of the wave that a case keeps are its other group.
LEMMA KeptGroup ==
    ASSUME NEW wave, Distinct(wave), NEW open, GroupsFit(ToSet(wave), Names(1), open),
           NEW cell \in Serials, NEW type \in ImageTypes, NEW other \in ImageTypes, other # type,
           NEW kept, kept = Other(Case(wave, cell), other)
    PROVE  /\ Distinct(kept) /\ ToSet(kept) = Group(ToSet(wave), <<1, cell, type>>)
           /\ Fits(ToSet(kept), <<1, cell, type>>, open)
<1> DEFINE case == Case(wave, cell)
           places == {n \in DOMAIN wave : wave[n].cell = cell}
           others == {n \in DOMAIN case : case[n].type # other}
           S == ToSet(wave)
<1>1. IsSequence(wave)
  BY DEF Distinct
<1>2. case = Picked(wave, places) /\ places \subseteq DOMAIN wave
  BY DEF Case
<1> HIDE DEF case, places
<1>3. Distinct(case)
  BY <1>2, PickedDistinct
<1>4. IsSequence(case) /\ ToSet(case) = {r \in S : r.cell = cell}
  <2>1. IsSequence(Case(wave, cell)) /\ ToSet(Case(wave, cell)) = {r \in ToSet(wave) : r.cell = cell}
    BY <1>1, PartsAre
  <2> QED
    BY <2>1 DEF case
<1>5. kept = Picked(case, others) /\ others \subseteq DOMAIN case
  BY DEF Other, case
<1>6. ToSet(kept) = {r \in ToSet(case) : r.type # other}
  BY <1>4, PartsAre DEF case
<1> HIDE DEF others
<1>7. Distinct(kept)
  BY <1>3, <1>5, PickedDistinct
<1>8. \A r \in S : r.wave = 1 /\ r.type \in ImageTypes
  BY DEF GroupsFit, Names, Name
<1>9. ToSet(kept) = Group(S, <<1, cell, type>>)
  <2>1. \A t \in ImageTypes : t # other <=> t = type
    BY DEF ImageTypes
  <2>2. \A r \in S : Name(r) = <<1, cell, type>> <=> r.cell = cell /\ r.type = type
    BY <1>8 DEF Name
  <2> HIDE DEF S
  <2> QED
    BY <1>4, <1>6, <1>8, <2>1, <2>2 DEF Group
<1>10. <<1, cell, type>> \in Names(1)
  BY SomeImages
<1>11. Fits(Group(S, <<1, cell, type>>), <<1, cell, type>>, open)
  BY <1>10 DEF GroupsFit
<1> QED
  BY <1>7, <1>9, <1>11

\* Chosen images, no one twice, as a group of the case.
LEMMA CalibratedFit ==
    ASSUME NEW rows, AreRows(rows), NEW sources, NEW type, AreSources(sources, rows, type),
           NEW s, s.chosen \in Seq(DOMAIN sources), Distinct(s.chosen), NEW cell, NEW status,
           NEW added, added = CalibratedRows(s, sources, cell, status)
    PROVE  /\ Distinct(added) /\ Cardinality(ToSet(added)) = Len(s.chosen)
           /\ WellMade(ToSet(added), <<1, cell, type>>)
           /\ \A r \in ToSet(added) : r.set = "INITIAL" /\ r.quality = "PASS"
<1> DEFINE images == s.chosen
<1>1. images \in Seq(DOMAIN sources) /\ Distinct(images)
  OBVIOUS
<1>2. added = [n \in DOMAIN images |-> Calibrated(sources, images[n], cell, status)]
  BY DEF CalibratedRows
<1> HIDE DEF images
<1>3. ASSUME NEW o \in DOMAIN sources
      PROVE  LET r == Calibrated(sources, o, cell, status)
             IN  /\ r.object = o /\ Name(r) = <<1, cell, type>> /\ r.set = "INITIAL"
                 /\ r.quality = "PASS" /\ r.object.set = r.set /\ r.object.type = r.type
  <2> DEFINE source == sources[o]
  <2>1. source \in ToSet(rows) /\ source.object = o /\ source.type = type /\ source.set = "INITIAL"
    BY DEF AreSources
  <2>2. /\ DOMAIN source = RowFields
        /\ source.object = [set |-> source.set, type |-> source.type,
                            source |-> source.object.source]
    BY <2>1 DEF AreRows
  <2>3. o.set = "INITIAL" /\ o.type = type
    BY <2>1, <2>2
  <2>4. Calibrated(sources, o, cell, status)
          = [source EXCEPT !.wave = 1, !.cell = cell, !.set = "INITIAL",
                           !.quality = "PASS", !.status = status]
    BY DEF Calibrated
  <2> HIDE DEF source
  <2> DEFINE r == Calibrated(sources, o, cell, status)
  <2>5. /\ r.object = o /\ r.wave = 1 /\ r.cell = cell /\ r.type = type /\ r.set = "INITIAL"
        /\ r.quality = "PASS"
    BY <2>1, <2>2, <2>4 DEF RowFields
  <2> HIDE DEF r
  <2>6. /\ r.object = o /\ Name(r) = <<1, cell, type>> /\ r.set = "INITIAL"
        /\ r.quality = "PASS" /\ r.object.set = r.set /\ r.object.type = r.type
    BY <2>3, <2>5 DEF Name
  <2> QED
    BY <2>6 DEF r
<1>4. \A n \in DOMAIN images : images[n] \in DOMAIN sources
  BY <1>1
<1>5. /\ added = [n \in DOMAIN images |-> added[n]]
      /\ \A n \in DOMAIN images :
            LET r == added[n]
            IN  /\ r.object = images[n] /\ Name(r) = <<1, cell, type>> /\ r.set = "INITIAL"
                /\ r.quality = "PASS" /\ r.object.set = r.set /\ r.object.type = r.type
  BY <1>2, <1>3, <1>4
<1>6. /\ Distinct(added) /\ Len(added) = Len(images)
      /\ \A r, q \in ToSet(added) : r.object = q.object => r = q
      /\ \A r \in ToSet(added) : \E n \in DOMAIN images : r = added[n]
      /\ \A n \in DOMAIN images : added[n] \in ToSet(added)
  <2>1. \A m, n \in DOMAIN images : added[m].object = added[n].object => images[m] = images[n]
    BY <1>5
  <2>2. added = [n \in DOMAIN images |-> added[n]]
    BY <1>5
  <2>3. Distinct(images)
    BY <1>1
  <2> DEFINE more == added
  <2>4. more = [n \in DOMAIN images |-> more[n]]
    BY <2>2
  <2>5. \A m, n \in DOMAIN images : more[m].object = more[n].object => images[m] = images[n]
    BY <2>1
  <2> HIDE DEF more
  <2>6. /\ Distinct(more) /\ Len(more) = Len(images)
        /\ \A r, q \in ToSet(more) : r.object = q.object => r = q
        /\ \A r \in ToSet(more) : \E n \in DOMAIN images : r = more[n]
        /\ \A n \in DOMAIN images : more[n] \in ToSet(more)
    BY <2>3, <2>4, <2>5, RowsOfImages
  <2> QED
    BY <2>6 DEF more
<1>7. Cardinality(ToSet(added)) = Len(images)
  BY <1>6, PlacesOf
<1>8. \A r \in ToSet(added) :
         /\ Name(r) = <<1, cell, type>> /\ r.set = "INITIAL" /\ r.quality = "PASS"
         /\ r.object.set = r.set /\ r.object.type = r.type
  BY <1>5, <1>6
<1>9. WellMade(ToSet(added), <<1, cell, type>>)
  BY <1>6, <1>8 DEF WellMade
<1> QED
  BY <1>6, <1>7, <1>8, <1>9 DEF images

\* A case of two groups follows.
LEMMA TwoGroups ==
    ASSUME NEW rows, Distinct(rows), NEW done, NEW open, GroupsFit(ToSet(rows), done, open),
           NEW g, NEW h, g \notin done, h \notin done, g # h,
           NEW first, Distinct(first), Fits(ToSet(first), g, open),
           NEW second, Distinct(second), Fits(ToSet(second), h, open),
           NEW all, all = rows \o first \o second
    PROVE  Distinct(all) /\ GroupsFit(ToSet(all), done \cup {g, h}, open)
<1> DEFINE more == rows \o first
           next == done \cup {g}
<1>1. /\ GroupsFit(ToSet(rows) \cup ToSet(first), next, open)
      /\ ToSet(rows) \cap ToSet(first) = {}
  BY GroupJoins
<1>2. Distinct(more) /\ ToSet(more) = ToSet(rows) \cup ToSet(first)
  BY <1>1, JoinedDistinct
<1>3. h \notin next
  OBVIOUS
<1>4. next \cup {h} = done \cup {g, h}
  OBVIOUS
<1>5. all = more \o second
  OBVIOUS
<1> HIDE DEF more, next
<1>6. GroupsFit(ToSet(more), next, open)
  BY <1>1, <1>2
<1>7. /\ GroupsFit(ToSet(more) \cup ToSet(second), next \cup {h}, open)
      /\ ToSet(more) \cap ToSet(second) = {}
  BY <1>3, <1>6, GroupJoins
<1>8. Distinct(more \o second) /\ ToSet(more \o second) = ToSet(more) \cup ToSet(second)
  BY <1>2, <1>7, JoinedDistinct
<1> QED
  BY <1>4, <1>5, <1>7, <1>8

\* The groups of the first k cells.
FirstCells(cells, k) == {<<1, cells[n], t>> : n \in 1..k, t \in ImageTypes}

\* The cells of a wave that has all groups.
LEMMA CellsOfWave ==
    ASSUME NEW rows, Distinct(rows), GroupsFit(ToSet(rows), Names(1), Closed),
           NEW cells, cells = CellsOf(rows)
    PROVE  /\ cells \in Seq(Serials) /\ Len(cells) \in Nat /\ DOMAIN cells = 1..Len(cells)
           /\ \A n \in 1..Len(cells) : cells[n] \in Serials
           /\ \A m, n \in 1..Len(cells) : cells[m] = cells[n] => m = n
           /\ ToSet(cells) = Serials
<1> DEFINE S == ToSet(rows)
           used == {r.cell : r \in S}
           cell == [r \in S |-> r.cell]
<1>1. used = Serials
  <2>1. \A r \in S : r.cell \in Serials
    BY DEF GroupsFit, Name, Names
  <2>2. ASSUME NEW c \in Serials
        PROVE  c \in used
    <3> DEFINE g == <<1, c, "CT">>
    <3>1. g \in Names(1)
      BY SomeImages DEF ImageTypes
    <3>2. IsComplete(Group(S, g), g)
      <4>1. Fits(Group(S, g), g, Closed)
        BY <3>1 DEF GroupsFit
      <4> QED
        BY <4>1 DEF Fits, Closed
    <3> HIDE DEF g
    <3>3. Group(S, g) # {}
      BY <3>2, SomeRows
    <3> QED
      BY <3>3 DEF Group, Name, g
  <2> QED
    BY <2>1, <2>2
<1>2. IsFiniteSet(used)
  <2>1. used = {cell[r] : r \in S}
    OBVIOUS
  <2>2. IsFiniteSet(S)
    BY FewMembers DEF Distinct
  <2> HIDE DEF cell, S, used
  <2> QED
    BY <2>1, <2>2, ImageIsFinite
<1>3. cells = ascending(used)
  BY DEF CellsOf
<1> HIDE DEF used, S
<1>4. used \subseteq Int
  BY <1>1, SomeImages DEF Serials
<1>5. /\ ascending(used) \in Seq(used) /\ Len(ascending(used)) \in Nat
      /\ DOMAIN ascending(used) = 1..Len(ascending(used))
      /\ \A n \in 1..Len(ascending(used)) : ascending(used)[n] \in used
      /\ \A m, n \in 1..Len(ascending(used)) :
            m < n => ascending(used)[m] < ascending(used)[n]
      /\ \A x \in used : \E n \in 1..Len(ascending(used)) : ascending(used)[n] = x
  BY <1>2, <1>4, Ascending
<1>6. /\ cells \in Seq(Serials) /\ Len(cells) \in Nat /\ DOMAIN cells = 1..Len(cells)
      /\ \A n \in 1..Len(cells) : cells[n] \in Serials
      /\ \A m, n \in 1..Len(cells) : m < n => cells[m] < cells[n]
      /\ \A x \in Serials : \E n \in 1..Len(cells) : cells[n] = x
  BY <1>1, <1>3, <1>5
<1>7. \A n \in 1..Len(cells) : cells[n] \in Int
  BY <1>1, <1>4, <1>6
<1>8. ASSUME NEW m \in 1..Len(cells), NEW n \in 1..Len(cells), cells[m] = cells[n]
      PROVE  m = n
  <2>1. ~ (m < n) /\ ~ (n < m)
    BY <1>6, <1>7, <1>8
  <2> QED
    BY <1>6, <2>1
<1>9. ToSet(cells) = Serials
  BY <1>6 DEF ToSet
<1> QED
  BY <1>6, <1>8, <1>9

\* One cell more.
LEMMA FirstCellsAre ==
    ASSUME NEW cells, Len(cells) \in Nat, DOMAIN cells = 1..Len(cells),
           \A n \in 1..Len(cells) : cells[n] \in Serials,
           \A m, n \in 1..Len(cells) : cells[m] = cells[n] => m = n,
           ToSet(cells) = Serials
    PROVE  /\ FirstCells(cells, 0) = {} /\ FirstCells(cells, Len(cells)) = Names(1)
           /\ \A k \in 1..Len(cells) :
                 /\ \A t \in ImageTypes : <<1, cells[k], t>> \notin FirstCells(cells, k - 1)
                 /\ FirstCells(cells, k) = FirstCells(cells, k - 1)
                       \cup {<<1, cells[k], "CT">>, <<1, cells[k], "RGB">>}
<1>1. FirstCells(cells, 0) = {}
  BY DEF FirstCells
<1>2. FirstCells(cells, Len(cells)) = Names(1)
  <2>1. \A g \in FirstCells(cells, Len(cells)) : g \in Names(1)
    BY DEF FirstCells, Names
  <2>2. ASSUME NEW g \in Names(1)
        PROVE  g \in FirstCells(cells, Len(cells))
    <3>1. PICK c \in Serials, t \in ImageTypes : g = <<1, c, t>>
      BY DEF Names
    <3>2. PICK n \in 1..Len(cells) : c = cells[n]
      BY DEF ToSet
    <3> QED
      BY <3>1, <3>2 DEF FirstCells
  <2> QED
    BY <2>1, <2>2
<1>3. ASSUME NEW k \in 1..Len(cells), NEW t \in ImageTypes
      PROVE  <<1, cells[k], t>> \notin FirstCells(cells, k - 1)
  <2> SUFFICES ASSUME NEW n \in 1..k - 1, NEW u \in ImageTypes,
                      <<1, cells[k], t>> = <<1, cells[n], u>>
               PROVE  FALSE
    BY DEF FirstCells
  <2>1. cells[k] = cells[n] /\ n \in 1..Len(cells) /\ n # k
    OBVIOUS
  <2> QED
    BY <2>1
<1>4. ASSUME NEW k \in 1..Len(cells)
      PROVE  FirstCells(cells, k) = FirstCells(cells, k - 1)
                \cup {<<1, cells[k], "CT">>, <<1, cells[k], "RGB">>}
  <2>1. 1..k = (1..k - 1) \cup {k}
    OBVIOUS
  <2>2. \A t : t \in ImageTypes <=> t = "CT" \/ t = "RGB"
    BY DEF ImageTypes
  <2>3. \A g : g \in FirstCells(cells, k) <=>
           g \in FirstCells(cells, k - 1) \/ \E t \in ImageTypes : g = <<1, cells[k], t>>
    BY <2>1 DEF FirstCells
  <2> QED
    BY <2>2, <2>3
<1> QED
  BY <1>1, <1>2, <1>3, <1>4

\* A pool that serves a case serves it with different images, as many as
\* wanted.
LEMMA PoolCollects ==
    ASSUME NEW P, NEW R, NEW I, AreApart(P, R, I), NEW s \in Selections(P, I), Collected(s),
           NEW pool \in P, NEW count \in Nat, count > 0,
           NEW g, g = Pool_take(s, pool, R[pool], count), ~ g.failed
    PROVE  /\ g \in Selections(P, I) /\ Collected(g)
           /\ ~ s.failed /\ Len(g.chosen) = Len(s.chosen) + count
<1> DEFINE rows == R[pool]
           round == 2 * Len(rows)
<1>1. rows \in Seq(I) /\ Len(rows) \in Nat
  BY DEF AreApart, IsPool
<1>2. ~ s.failed /\ ~ (Len(rows) < count)
  <2>1. ASSUME s.failed \/ Len(rows) < count
        PROVE  g.failed
    <3>1. g = [s EXCEPT !.failed = TRUE]
      BY <2>1 DEF Pool_take
    <3> QED
      BY <3>1 DEF Selections
  <2> QED
    BY <2>1
<1>3. g = Selector_take(s, pool, rows, count, round)
  BY <1>2 DEF Pool_take
<1>4. round \in Nat /\ Len(rows) > 0
  BY <1>1, <1>2
<1> HIDE DEF rows, round
<1>5. /\ g \in Selections(P, I) /\ Collected(g)
      /\ ~ g.failed => ~ s.failed /\ Len(g.chosen) = Len(s.chosen) + count
  BY <1>1, <1>3, <1>4, TakeCollects
<1> QED
  BY <1>5

\* The groups of a case that the first tool fills.
LEMMA RgbCaseFits ==
    ASSUME NEW rows, NEW wave, NEW sources, IsDemo(rows, wave, sources, "RGB"),
           Distinct(wave), GroupsFit(ToSet(wave), Names(1), Closed),
           NEW observations, NEW k, NEW b, RgbHolds(sources, observations, wave, 0, k, b),
           NEW done, Distinct(b.rows), GroupsFit(ToSet(b.rows), done, Closed),
           NEW cell \in Serials, \A t \in ImageTypes : <<1, cell, t>> \notin done,
           NEW after, after = RgbCase(b, sources, observations, wave, cell),
           ~ after.pools.failed
    PROVE  /\ Distinct(after.rows)
           /\ GroupsFit(ToSet(after.rows), done \cup {<<1, cell, "CT">>, <<1, cell, "RGB">>}, Closed)
<1> DEFINE case == Case(wave, cell)
           rgb == Only(case, "RGB")
           status == rgb[1].status
           class == IF status = "normal" THEN "NORMAL_DUAL_PASS" ELSE "DEFECT_DUAL_REJECT"
           P == RgbClasses
           R == RgbRows(sources, observations)
           I == DOMAIN sources
           start == NextCase(b.pools)
           s == Pool_take(start, class, RgbPool(sources, observations, class), WaveImages)
           valid == /\ Len(rgb) = WaveImages
                    /\ \A r \in ToSet(rgb) : r.set = "INITIAL" /\ r.status = status
           kept == Other(case, "RGB")
           added == CalibratedRows(s, sources, cell, status)
           g == <<1, cell, "CT">>
           h == <<1, cell, "RGB">>
<1>1. b = [pools |-> b.pools, rows |-> b.rows] /\ b.pools \in Selections(P, I)
  BY DEF RgbHolds
<1>2. after = IF b.pools.failed \/ ~ valid THEN [b EXCEPT !.pools.failed = TRUE]
              ELSE Built(s, b.rows \o kept \o added)
  BY DEF RgbCase
<1>3. class \in P
  BY DEF RgbClasses
<1> HIDE DEF case, class, P, R, I, start, s, valid, kept, added, status
<1>4. ~ (b.pools.failed \/ ~ valid)
  <2>1. ASSUME after = [b EXCEPT !.pools.failed = TRUE]
        PROVE  FALSE
    BY <1>1, <2>1, FailedSelections
  <2> QED
    BY <1>2, <2>1
<1>5. after.pools = s /\ after.rows = b.rows \o kept \o added
  BY <1>2, <1>4 DEF Built
<1>6. start \in Selections(P, I) /\ Collected(start) /\ start.chosen = << >>
  <2> DEFINE pools == b.pools
  <2>1. pools \in Selections(P, I)
    BY <1>1
  <2> HIDE DEF pools
  <2>2. NextCase(pools) \in Selections(P, I) /\ Collected(NextCase(pools))
        /\ NextCase(pools).chosen = << >>
    BY <2>1, NextCollected
  <2> QED
    BY <2>2 DEF start, pools
<1>7. AreApart(P, R, I) /\ R[class] = RgbPool(sources, observations, class)
  BY <1>3, PoolsAreApart DEF IsDemo, RgbRows, P, R, I
<1>8. s \in Selections(P, I) /\ Collected(s) /\ Len(s.chosen) = WaveImages
  <2>1. s = Pool_take(start, class, R[class], WaveImages) /\ ~ s.failed
    BY <1>5, <1>7 DEF s
  <2>2. s \in Selections(P, I) /\ Collected(s) /\ Len(s.chosen) = Len(start.chosen) + WaveImages
    BY <1>3, <1>6, <1>7, <2>1, SomeImages, PoolCollects
  <2> QED
    BY <1>6, <2>2, SomeImages
<1>9. /\ Distinct(added) /\ Cardinality(ToSet(added)) = WaveImages
      /\ WellMade(ToSet(added), h)
      /\ \A r \in ToSet(added) : r.set = "INITIAL" /\ r.quality = "PASS"
  <2>1. s.chosen \in Seq(DOMAIN sources) /\ Distinct(s.chosen)
    BY <1>8 DEF Selections, Collected, I
  <2>2. AreRows(rows) /\ AreSources(sources, rows, "RGB")
    BY DEF IsDemo
  <2>3. /\ Distinct(added) /\ Cardinality(ToSet(added)) = Len(s.chosen)
        /\ WellMade(ToSet(added), <<1, cell, "RGB">>)
        /\ \A r \in ToSet(added) : r.set = "INITIAL" /\ r.quality = "PASS"
    BY <2>1, <2>2, CalibratedFit DEF added
  <2> QED
    BY <1>8, <2>3
<1>10. Fits(ToSet(added), h, Closed)
  <2> DEFINE G == ToSet(added)
  <2>1. Cardinality(G) = WaveImages /\ h[1] # Legacy
        /\ \A r \in G : r.set = "INITIAL" /\ r.quality = "PASS"
    BY <1>9 DEF Legacy
  <2> HIDE DEF G, h
  <2>2. IsComplete(G, h)
    BY <2>1, PassingIsComplete
  <2> QED
    BY <1>9, <2>2 DEF Fits, G
<1>11. Distinct(kept) /\ Fits(ToSet(kept), g, Closed)
  <2>1. kept = Other(Case(wave, cell), "RGB") /\ "RGB" # "CT"
        /\ "RGB" \in ImageTypes /\ "CT" \in ImageTypes
    BY DEF kept, case, ImageTypes
  <2>2. Distinct(kept) /\ Fits(ToSet(kept), <<1, cell, "CT">>, Closed)
    BY <2>1, KeptGroup
  <2> QED
    BY <2>2
<1>12. g \notin done /\ h \notin done /\ g # h
  BY DEF ImageTypes
<1> DEFINE all == after.rows
           old == b.rows
<1>13. all = old \o kept \o added /\ Distinct(old) /\ GroupsFit(ToSet(old), done, Closed)
  BY <1>5
<1> HIDE DEF all, old, g, h
<1>14. Distinct(all) /\ GroupsFit(ToSet(all), done \cup {g, h}, Closed)
  BY <1>9, <1>10, <1>11, <1>12, <1>13, TwoGroups
<1> QED
  BY <1>14 DEF all, g, h

RgbFits(sources, observations, wave, v, k, b) ==
    /\ RgbHolds(sources, observations, wave, 0, k, b)
    /\ ~ b.pools.failed =>
          Distinct(b.rows) /\ GroupsFit(ToSet(b.rows), FirstCells(CellsOf(wave), k), Closed)

RgbGroups == INSTANCE Folding WITH Step <- RgbStep, Holds <- RgbFits

\* The first tool makes a wave of all groups.
LEMMA RgbWaveFits ==
    ASSUME NEW rows, NEW wave, NEW sources, IsDemo(rows, wave, sources, "RGB"),
           Distinct(wave), GroupsFit(ToSet(wave), Names(1), Closed), NEW observations,
           NEW b, b = build_wave_one(wave, sources, observations), ~ b.pools.failed
    PROVE  Distinct(b.rows) /\ GroupsFit(ToSet(b.rows), Names(1), Closed)
<1> DEFINE cells == CellsOf(wave)
           start == Built(FreshPools({"NORMAL_DUAL_PASS", "DEFECT_DUAL_REJECT"}, DOMAIN sources),
                          << >>)
           built == RgbGroups!Folded(sources, observations, wave, 0, start, cells)
<1>1. b = built
  BY Zenon DEF build_wave_one, RgbStep, RgbGroups!Folded, RgbGroups!Iterates,
               RgbGroups!Unfolds, RgbGroups!Greatest, FoldLeft, MapThenFoldSet, Max
<1>2. /\ cells \in Seq(Serials) /\ Len(cells) \in Nat /\ DOMAIN cells = 1..Len(cells)
      /\ \A n \in 1..Len(cells) : cells[n] \in Serials
      /\ \A m, n \in 1..Len(cells) : cells[m] = cells[n] => m = n
      /\ ToSet(cells) = Serials
  BY CellsOfWave
<1> HIDE DEF cells
<1>3. /\ FirstCells(cells, 0) = {} /\ FirstCells(cells, Len(cells)) = Names(1)
      /\ \A k \in 1..Len(cells) :
            /\ \A t \in ImageTypes : <<1, cells[k], t>> \notin FirstCells(cells, k - 1)
            /\ FirstCells(cells, k) = FirstCells(cells, k - 1)
                  \cup {<<1, cells[k], "CT">>, <<1, cells[k], "RGB">>}
  BY <1>2, FirstCellsAre
<1>4. RgbFits(sources, observations, wave, 0, 0, start)
  <2>1. RgbHolds(sources, observations, wave, 0, 0, start)
    BY RgbStarts
  <2>2. start.rows = << >>
    BY DEF Built
  <2> HIDE DEF start
  <2>3. Distinct(start.rows) /\ GroupsFit(ToSet(start.rows), {}, Closed)
    BY <2>2, NoGroups
  <2> QED
    BY <1>3, <2>1, <2>3 DEF RgbFits, cells
<1> HIDE DEF start
<1>5. ASSUME NEW k \in 1..Len(cells), NEW c, RgbFits(sources, observations, wave, 0, k - 1, c)
      PROVE  RgbFits(sources, observations, wave, 0, k,
                     RgbStep(sources, observations, wave, 0, c, cells[k]))
  <2> DEFINE before == k - 1
             cell == cells[k]
             done == FirstCells(cells, before)
             after == RgbCase(c, sources, observations, wave, cell)
  <2>1. /\ RgbHolds(sources, observations, wave, 0, before, c)
        /\ ~ c.pools.failed => Distinct(c.rows) /\ GroupsFit(ToSet(c.rows), done, Closed)
    BY <1>5 DEF RgbFits, cells
  <2>2. /\ cell \in Serials /\ \A t \in ImageTypes : <<1, cell, t>> \notin done
        /\ FirstCells(cells, k) = done \cup {<<1, cell, "CT">>, <<1, cell, "RGB">>}
    BY <1>2, <1>3
  <2> HIDE DEF before, cell, done
  <2>3. RgbHolds(sources, observations, wave, 0, k, after)
    BY <2>1, RgbCaseKeeps
  <2>4. c.pools.failed => after.pools.failed
    <3>1. /\ c = [pools |-> c.pools, rows |-> c.rows]
          /\ c.pools \in Selections(RgbClasses, DOMAIN sources)
      BY <2>1 DEF RgbHolds
    <3>2. c.pools.failed => after = [c EXCEPT !.pools.failed = TRUE]
      BY DEF RgbCase
    <3> HIDE DEF after
    <3> QED
      BY <3>1, <3>2, FailedSelections
  <2> HIDE DEF after
  <2>5. ASSUME ~ after.pools.failed
        PROVE  Distinct(after.rows)
               /\ GroupsFit(ToSet(after.rows), FirstCells(cells, k), Closed)
    <3>1. Distinct(c.rows) /\ GroupsFit(ToSet(c.rows), done, Closed)
      BY <2>1, <2>4, <2>5
    <3>2. after = RgbCase(c, sources, observations, wave, cell)
      BY DEF after
    <3>3. /\ Distinct(after.rows)
          /\ GroupsFit(ToSet(after.rows), done \cup {<<1, cell, "CT">>, <<1, cell, "RGB">>}, Closed)
      BY <2>1, <2>2, <2>5, <3>1, <3>2, RgbCaseFits
    <3> QED
      BY <2>2, <3>3
  <2>6. RgbStep(sources, observations, wave, 0, c, cells[k]) = after
    BY DEF RgbStep, after, cell
  <2> QED
    BY <2>3, <2>5, <2>6 DEF RgbFits, cells
<1>6. RgbFits(sources, observations, wave, 0, Len(cells), built)
  BY <1>2, <1>4, <1>5, RgbGroups!FoldKeeps, SMT
<1> HIDE DEF built
<1> QED
  BY <1>1, <1>3, <1>6 DEF RgbFits, cells

\* After some axes the images of a case are different.
AxisCollected(sources, observations, axes, v, k, r) ==
    /\ AxisHolds(sources, observations, axes, v, k, r)
    /\ ~ r.failed => Collected(r)

AxesCollect == INSTANCE Folding WITH Step <- AxisStep, Holds <- AxisCollected

\* An axis adds different ones.
LEMMA AxisCollects ==
    ASSUME NEW rows, NEW sources, AreRows(rows), AreSources(sources, rows, "CT"),
           NEW observations, NEW k, k \in 1..Len(Axes), NEW r,
           AxisCollected(sources, observations, Axes, 0, k - 1, r)
    PROVE  AxisCollected(sources, observations, Axes, 0, k,
                         AxisStep(sources, observations, Axes, 0, r, Axes[k]))
<1> DEFINE P == DOMAIN AxisCounts
           R == CtRows(sources, observations)
           I == DOMAIN sources
           axis == Axes[k]
           count == AxisCounts[axis]
           g == Pool_take(r, axis, CtPool(sources, observations, axis), count)
<1>1. axis \in P /\ Len(Axes) \in Nat
  BY AxesAre
<1>2. AreApart(P, R, I) /\ \A p \in P : R[p] = CtPool(sources, observations, p)
  BY PoolsAreApart DEF CtRows
<1>3. count \in Nat /\ count > 0
  BY <1>1, CalibrationAssumption
<1>4. AxisHolds(sources, observations, Axes, 0, k - 1, r) /\ (~ r.failed => Collected(r))
  BY DEF AxisCollected
<1>5. r \in Selections(P, I)
  BY <1>4 DEF AxisHolds
<1>6. g = Pool_take(r, axis, R[axis], count)
  BY <1>1, <1>2
<1>7. AxisStep(sources, observations, Axes, 0, r, Axes[k]) = g
  BY DEF AxisStep
<1>8. AxisHolds(sources, observations, Axes, 0, k, g)
  BY <1>4, <1>7, AxisKeeps
<1> HIDE DEF P, R, I, axis, count, g
<1>9. ASSUME ~ g.failed
      PROVE  Collected(g)
  <2>1. ~ r.failed
    <3>1. r.failed => g = [r EXCEPT !.failed = TRUE]
      BY <1>6 DEF Pool_take
    <3> QED
      BY <1>5, <1>9, <3>1 DEF Selections
  <2> QED
    BY <1>1, <1>2, <1>3, <1>4, <1>5, <1>6, <1>9, <2>1, PoolCollects
<1> QED
  BY <1>7, <1>8, <1>9 DEF AxisCollected

\* A case is served with different images.
LEMMA AxesCollected ==
    ASSUME NEW rows, NEW sources, AreRows(rows), AreSources(sources, rows, "CT"),
           NEW observations, NEW s,
           Turning(DOMAIN AxisCounts, CtRows(sources, observations), DOMAIN sources, s),
           NEW g, g = AxesTaken(sources, observations, NextCase(s)), ~ g.failed
    PROVE  g \in Selections(DOMAIN AxisCounts, DOMAIN sources) /\ Collected(g)
<1> DEFINE start == NextCase(s)
           taken == AxesCollect!Folded(sources, observations, Axes, 0, start, Axes)
           P == DOMAIN AxisCounts
           R == CtRows(sources, observations)
           I == DOMAIN sources
<1>1. g = taken
  BY Zenon DEF AxesTaken, AxisStep, AxesCollect!Folded, AxesCollect!Iterates,
               AxesCollect!Unfolds, AxesCollect!Greatest, FoldLeft, MapThenFoldSet, Max
<1>2. /\ Turning(P, R, I, start) /\ start.forbidden = {} /\ start.chosen = << >>
  <2>1. \A t : Turning(P, R, I, t) =>
           /\ Turning(P, R, I, NextCase(t))
           /\ NextCase(t).forbidden = {} /\ NextCase(t).chosen = << >>
    BY NextTurning
  <2>2. Turning(P, R, I, s)
    OBVIOUS
  <2> QED
    BY <2>1, <2>2
<1>3. start \in Selections(P, I) /\ Collected(start)
  <2>1. s \in Selections(P, I)
    BY DEF Turning
  <2> HIDE DEF P, I
  <2> QED
    BY <2>1, NextCollected
<1> HIDE DEF start, taken
<1>4. AxisCollected(sources, observations, Axes, 0, 0, start)
  <2>1. ToSet(start.chosen) = {}
    BY <1>2 DEF ToSet
  <2> QED
    BY <1>2, <1>3, <2>1 DEF AxisCollected, AxisHolds
<1>5. \A k \in 1..Len(Axes) : \A r : AxisCollected(sources, observations, Axes, 0, k - 1, r) =>
         AxisCollected(sources, observations, Axes, 0, k,
                       AxisStep(sources, observations, Axes, 0, r, Axes[k]))
  BY AxisCollects
<1>6. Axes \in Seq(P)
  BY AxesAre
<1> HIDE DEF P, R, I
<1>7. AxisCollected(sources, observations, Axes, 0, Len(Axes), taken)
  BY <1>4, <1>5, <1>6, AxesCollect!FoldKeeps, SMT DEF taken
<1> QED
  BY <1>1, <1>7 DEF AxisCollected, AxisHolds, P, I

\* The groups of a case that the second tool fills: those of CT may still
\* have any number of images.
LEMMA CtCaseFits ==
    ASSUME NEW rows, NEW original, NEW observations, NEW wave,
           AreRgbRows(rows, original, observations, wave),
           Distinct(wave), GroupsFit(ToSet(wave), Names(1), Closed),
           NEW sources, AreSources(sources, rows, "CT"),
           NEW k, NEW b, CtHolds(sources, observations, wave, original, k, b),
           NEW done, Distinct(b.rows), GroupsFit(ToSet(b.rows), done, CtOpen),
           NEW cell \in Serials, \A t \in ImageTypes : <<1, cell, t>> \notin done,
           NEW after, after = CtCase(b, sources, observations, wave, cell),
           ~ after.pools.failed
    PROVE  /\ Distinct(after.rows)
           /\ GroupsFit(ToSet(after.rows), done \cup {<<1, cell, "CT">>, <<1, cell, "RGB">>},
                        CtOpen)
<1> DEFINE case == Case(wave, cell)
           ct == GroupOf(case, cell, "CT", "INITIAL")
           status == ct[1].status
           P == DOMAIN AxisCounts
           I == DOMAIN sources
           s == AxesTaken(sources, observations, NextCase(b.pools))
           valid == Len(ct) = WaveImages /\ \A r \in ToSet(ct) : r.status = status
           rgbKept == Other(case, "CT")
           ctKept == Other(case, "RGB")
           added == CalibratedRows(s, sources, cell, "normal")
           g == <<1, cell, "CT">>
           h == <<1, cell, "RGB">>
<1>1. b = [pools |-> b.pools, rows |-> b.rows] /\ b.pools \in Selections(P, I)
  BY DEF CtHolds
<1>2. after = IF b.pools.failed \/ ~ valid THEN [b EXCEPT !.pools.failed = TRUE]
              ELSE IF status = "defective" THEN [b EXCEPT !.rows = @ \o ctKept \o rgbKept]
              ELSE Built(s, b.rows \o added \o rgbKept)
  BY DEF CtCase, AxesTaken
<1> HIDE DEF case, ct, P, I, s, valid, rgbKept, ctKept, added, status
<1>3. ~ (b.pools.failed \/ ~ valid)
  <2>1. ASSUME after = [b EXCEPT !.pools.failed = TRUE]
        PROVE  FALSE
    BY <1>1, <2>1, FailedSelections
  <2> QED
    BY <1>2, <2>1
<1>4. \A t, other \in ImageTypes : other # t =>
         Distinct(Other(case, other)) /\ Fits(ToSet(Other(case, other)), <<1, cell, t>>, Closed)
  BY KeptGroup DEF case
<1>5. \A G, f : Fits(G, f, Closed) => Fits(G, f, CtOpen)
  BY DEF Fits, Closed
<1>6. /\ Distinct(rgbKept) /\ Fits(ToSet(rgbKept), h, CtOpen)
      /\ Distinct(ctKept) /\ Fits(ToSet(ctKept), g, CtOpen)
  BY <1>4, <1>5 DEF rgbKept, ctKept, ImageTypes
<1>7. g \notin done /\ h \notin done /\ g # h
  BY DEF ImageTypes
<1> DEFINE all == after.rows
           old == b.rows
<1>8. Distinct(old) /\ GroupsFit(ToSet(old), done, CtOpen)
  OBVIOUS
<1>9. CASE status = "defective"
  <2>1. all = old \o ctKept \o rgbKept
    BY <1>1, <1>2, <1>3, <1>9
  <2> HIDE DEF all, old, g, h
  <2>2. Distinct(all) /\ GroupsFit(ToSet(all), done \cup {g, h}, CtOpen)
    BY <1>6, <1>7, <1>8, <2>1, TwoGroups
  <2> QED
    BY <2>2 DEF all, g, h
<1>10. CASE status # "defective"
  <2>1. after.pools = s /\ all = old \o added \o rgbKept
    BY <1>2, <1>3, <1>10 DEF Built
  <2>2. s \in Selections(P, I) /\ Collected(s)
    <3> DEFINE pools == b.pools
    <3>1. Turning(P, CtRows(sources, observations), I, pools)
      BY <1>3 DEF CtHolds, P, I
    <3>2. AreRows(rows) /\ AreSources(sources, rows, "CT")
      BY DEF AreRgbRows
    <3>3. s = AxesTaken(sources, observations, NextCase(pools)) /\ ~ s.failed
      BY <2>1 DEF s
    <3> HIDE DEF pools
    <3> QED
      BY <3>1, <3>2, <3>3, AxesCollected DEF P, I
  <2>3. /\ Distinct(added) /\ WellMade(ToSet(added), g)
        /\ \A r \in ToSet(added) : r.set = "INITIAL" /\ r.quality = "PASS"
    <3>1. s.chosen \in Seq(DOMAIN sources) /\ Distinct(s.chosen)
      BY <2>2 DEF Selections, Collected, I
    <3>2. AreRows(rows) /\ AreSources(sources, rows, "CT")
      BY DEF AreRgbRows
    <3> QED
      BY <3>1, <3>2, CalibratedFit DEF added
  <2>4. Fits(ToSet(added), g, CtOpen)
    BY <2>3 DEF Fits, CtOpen
  <2> HIDE DEF all, old, g, h
  <2>5. Distinct(all) /\ GroupsFit(ToSet(all), done \cup {g, h}, CtOpen)
    BY <1>6, <1>7, <1>8, <2>1, <2>3, <2>4, TwoGroups
  <2> QED
    BY <2>5 DEF all, g, h
<1> QED
  BY <1>9, <1>10

CtFits(sources, observations, wave, original, k, b) ==
    /\ CtHolds(sources, observations, wave, original, k, b)
    /\ ~ b.pools.failed =>
          Distinct(b.rows) /\ GroupsFit(ToSet(b.rows), FirstCells(CellsOf(wave), k), CtOpen)

CtGroups == INSTANCE Folding WITH Step <- CtStep, Holds <- CtFits

\* Groups that are open are closed when they have all their images.
LEMMA FullGroups ==
    ASSUME NEW S, NEW done, GroupsFit(S, done, CtOpen),
           \A g \in done : g[1] # Legacy,
           \A g \in done : g[3] = "CT" => Cardinality(Group(S, g)) = WaveImages
    PROVE  GroupsFit(S, done, Closed)
<1> SUFFICES ASSUME NEW g \in done
             PROVE  Fits(Group(S, g), g, Closed)
  BY DEF GroupsFit
<1> DEFINE G == Group(S, g)
<1>1. Fits(G, g, CtOpen)
  BY DEF GroupsFit
<1>2. g[3] = "CT" => Cardinality(G) = WaveImages
  OBVIOUS
<1> HIDE DEF G
<1>3. CASE IsComplete(G, g)
  BY <1>1, <1>3 DEF Fits, G
<1>4. CASE ~ IsComplete(G, g)
  <2>1. g[3] = "CT" /\ \A r \in G : r.set = "INITIAL" /\ r.quality = "PASS"
    BY <1>1, <1>4 DEF Fits, CtOpen
  <2>2. IsComplete(G, g)
    BY <1>2, <2>1, PassingIsComplete
  <2> QED
    BY <1>4, <2>2
<1> QED
  BY <1>3, <1>4

\* The last look of the second tool counts the CT images of a case.
LEMMA CtImagesOfCase ==
    ASSUME NEW rows, Distinct(rows), NEW open, GroupsFit(ToSet(rows), Names(1), open),
           NEW cell \in Serials
    PROVE  Len(Only(Case(rows, cell), "CT"))
              = Cardinality(Group(ToSet(rows), <<1, cell, "CT">>))
<1> DEFINE case == Case(rows, cell)
           kept == Other(case, "RGB")
<1>1. "CT" \in ImageTypes /\ "RGB" \in ImageTypes /\ "CT" # "RGB"
  BY DEF ImageTypes
<1>2. Distinct(kept) /\ ToSet(kept) = Group(ToSet(rows), <<1, cell, "CT">>)
  <2>1. kept = Other(Case(rows, cell), "RGB")
    OBVIOUS
  <2> QED
    BY <1>1, <2>1, KeptGroup
<1>3. \A n \in DOMAIN case : case[n].type \in ImageTypes
  <2>1. IsSequence(rows) /\ {n \in DOMAIN rows : rows[n].cell = cell} \subseteq DOMAIN rows
    BY DEF Distinct
  <2>2. ToSet(case) \subseteq ToSet(rows)
    <3>1. ToSet(case) = {rows[n] : n \in {n \in DOMAIN rows : rows[n].cell = cell}}
      BY <2>1, PickedAre DEF Case
    <3> QED
      BY <3>1 DEF ToSet
  <2>3. \A r \in ToSet(rows) : r.type \in ImageTypes
    BY DEF GroupsFit, Names, Name
  <2> HIDE DEF case
  <2> QED
    BY <2>2, <2>3 DEF ToSet
<1>4. Only(case, "CT") = kept
  <2> HIDE DEF case
  <2>1. {n \in DOMAIN case : case[n].type = "CT"} = {n \in DOMAIN case : case[n].type # "RGB"}
    BY <1>3 DEF ImageTypes
  <2> QED
    BY <2>1 DEF Only, Other
<1> HIDE DEF kept
<1>5. Cardinality(ToSet(kept)) = Len(kept)
  BY <1>2, PlacesOf
<1> QED
  BY <1>2, <1>4, <1>5

\* The second tool makes a wave of all groups.
LEMMA CtWaveFits ==
    ASSUME NEW rows, NEW original, NEW observations, NEW wave,
           AreRgbRows(rows, original, observations, wave),
           Distinct(wave), GroupsFit(ToSet(wave), Names(1), Closed),
           NEW sources, AreSources(sources, rows, "CT"),
           NEW b, b = build_wave(wave, sources, observations), ~ b.pools.failed
    PROVE  Distinct(b.rows) /\ GroupsFit(ToSet(b.rows), Names(1), Closed)
<1> DEFINE cells == CellsOf(wave)
           start == Built(FreshPools(DOMAIN AxisCounts, DOMAIN sources), << >>)
           built == CtGroups!Folded(sources, observations, wave, original, start, cells)
           Images(c, axis) == Cardinality({n \in DOMAIN built.rows :
               built.rows[n].cell = c /\ built.rows[n].type = "CT" /\ built.rows[n].axis = axis})
           refused == \/ built.pools.failed
                      \/ \E r \in ToSet(built.rows) : r.type = "CT" /\ r.set # "INITIAL"
                      \/ \E c \in ToSet(CellsOf(wave)) :
                            Len(Only(Case(built.rows, c), "CT")) # WaveImages
                      \/ \E c \in ToSet(CellsOf(wave)), axis \in DOMAIN AxisCounts :
                            Images(c, axis) # AxisCounts[axis]
<1>1. build_wave(wave, sources, observations)
        = IF refused THEN [built EXCEPT !.pools.failed = TRUE] ELSE built
  BY Zenon DEF build_wave, CtStep, CtGroups!Folded, CtGroups!Iterates,
               CtGroups!Unfolds, CtGroups!Greatest, FoldLeft, MapThenFoldSet, Max
<1>2. /\ cells \in Seq(Serials) /\ Len(cells) \in Nat /\ DOMAIN cells = 1..Len(cells)
      /\ \A n \in 1..Len(cells) : cells[n] \in Serials
      /\ \A m, n \in 1..Len(cells) : cells[m] = cells[n] => m = n
      /\ ToSet(cells) = Serials
  BY CellsOfWave
<1> HIDE DEF cells
<1>3. /\ FirstCells(cells, 0) = {} /\ FirstCells(cells, Len(cells)) = Names(1)
      /\ \A k \in 1..Len(cells) :
            /\ \A t \in ImageTypes : <<1, cells[k], t>> \notin FirstCells(cells, k - 1)
            /\ FirstCells(cells, k) = FirstCells(cells, k - 1)
                  \cup {<<1, cells[k], "CT">>, <<1, cells[k], "RGB">>}
  BY <1>2, FirstCellsAre
<1>4. CtFits(sources, observations, wave, original, 0, start)
  <2>1. CtHolds(sources, observations, wave, original, 0, start)
    BY CtStarts
  <2>2. start.rows = << >>
    BY DEF Built
  <2> HIDE DEF start
  <2>3. Distinct(start.rows) /\ GroupsFit(ToSet(start.rows), {}, CtOpen)
    BY <2>2, NoGroups
  <2> QED
    BY <1>3, <2>1, <2>3 DEF CtFits, cells
<1> HIDE DEF start
<1>5. ASSUME NEW k \in 1..Len(cells), NEW c,
             CtFits(sources, observations, wave, original, k - 1, c)
      PROVE  CtFits(sources, observations, wave, original, k,
                    CtStep(sources, observations, wave, original, c, cells[k]))
  <2> DEFINE before == k - 1
             cell == cells[k]
             done == FirstCells(cells, before)
             after == CtCase(c, sources, observations, wave, cell)
  <2>1. /\ CtHolds(sources, observations, wave, original, before, c)
        /\ ~ c.pools.failed => Distinct(c.rows) /\ GroupsFit(ToSet(c.rows), done, CtOpen)
    BY <1>5 DEF CtFits, cells
  <2>2. /\ cell \in Serials /\ \A t \in ImageTypes : <<1, cell, t>> \notin done
        /\ FirstCells(cells, k) = done \cup {<<1, cell, "CT">>, <<1, cell, "RGB">>}
    BY <1>2, <1>3
  <2> HIDE DEF before, cell, done
  <2>3. CtHolds(sources, observations, wave, original, k, after)
    BY <2>1, CtCaseKeeps
  <2>4. c.pools.failed => after.pools.failed
    <3>1. /\ c = [pools |-> c.pools, rows |-> c.rows]
          /\ c.pools \in Selections(DOMAIN AxisCounts, DOMAIN sources)
      BY <2>1 DEF CtHolds
    <3>2. c.pools.failed => after = [c EXCEPT !.pools.failed = TRUE]
      BY DEF CtCase
    <3> HIDE DEF after
    <3> QED
      BY <3>1, <3>2, FailedSelections
  <2> HIDE DEF after
  <2>5. ASSUME ~ after.pools.failed
        PROVE  Distinct(after.rows)
               /\ GroupsFit(ToSet(after.rows), FirstCells(cells, k), CtOpen)
    <3>1. Distinct(c.rows) /\ GroupsFit(ToSet(c.rows), done, CtOpen)
      BY <2>1, <2>4, <2>5
    <3>2. after = CtCase(c, sources, observations, wave, cell)
      BY DEF after
    <3>3. /\ Distinct(after.rows)
          /\ GroupsFit(ToSet(after.rows), done \cup {<<1, cell, "CT">>, <<1, cell, "RGB">>}, CtOpen)
      BY <2>1, <2>2, <2>5, <3>1, <3>2, CtCaseFits
    <3> QED
      BY <2>2, <3>3
  <2>6. CtStep(sources, observations, wave, original, c, cells[k]) = after
    BY DEF CtStep, after, cell
  <2> QED
    BY <2>3, <2>5, <2>6 DEF CtFits, cells
<1>6. CtFits(sources, observations, wave, original, Len(cells), built)
  BY <1>2, <1>4, <1>5, CtGroups!FoldKeeps, SMT
<1> HIDE DEF built
<1>7. ~ refused
  <2>1. /\ built = [pools |-> built.pools, rows |-> built.rows]
        /\ built.pools \in Selections(DOMAIN AxisCounts, DOMAIN sources)
    BY <1>6 DEF CtFits, CtHolds
  <2>2. [built EXCEPT !.pools.failed = TRUE].pools.failed
    BY <2>1, FailedSelections
  <2> HIDE DEF refused
  <2> QED
    BY <1>1, <2>2
<1>8. b = built
  BY <1>1, <1>7
<1>9. /\ ~ built.pools.failed
      /\ \A c \in Serials : Len(Only(Case(built.rows, c), "CT")) = WaveImages
  BY <1>2, <1>7 DEF cells
<1>10. Distinct(built.rows) /\ GroupsFit(ToSet(built.rows), Names(1), CtOpen)
  BY <1>3, <1>6, <1>9 DEF CtFits, cells
<1>11. ASSUME NEW g \in Names(1)
       PROVE  /\ g[1] # Legacy
              /\ g[3] = "CT" => Cardinality(Group(ToSet(built.rows), g)) = WaveImages
  <2>1. g[1] = 1 /\ g[2] \in Serials /\ g = <<1, g[2], g[3]>>
    BY DEF Names
  <2> DEFINE cell == g[2]
             list == built.rows
  <2>2. Distinct(list) /\ GroupsFit(ToSet(list), Names(1), CtOpen) /\ cell \in Serials
    BY <1>10, <2>1
  <2>3. Len(Only(Case(list, cell), "CT")) = WaveImages
    BY <1>9, <2>1
  <2> HIDE DEF cell, list
  <2>4. Cardinality(Group(ToSet(list), <<1, cell, "CT">>)) = WaveImages
    BY <2>2, <2>3, CtImagesOfCase
  <2> QED
    BY <2>1, <2>4 DEF Legacy, cell, list
<1>12. GroupsFit(ToSet(built.rows), Names(1), Closed)
  <2> DEFINE S == ToSet(built.rows)
             done == Names(1)
  <2>1. /\ GroupsFit(S, done, CtOpen) /\ \A g \in done : g[1] # Legacy
        /\ \A g \in done : g[3] = "CT" => Cardinality(Group(S, g)) = WaveImages
    BY <1>10, <1>11
  <2> HIDE DEF S, done
  <2>2. GroupsFit(S, done, Closed)
    BY <2>1, FullGroups
  <2> QED
    BY <2>2 DEF S, done
<1> QED
  BY <1>8, <1>10, <1>12

\* Both manifests of a demonstration load.
LEMMA DemosLoad ==
    ASSUME NEW rows, AreRows(rows), Accepted(FirstWave(rows)), NEW results,
           Calibrate(rows, results) # Refused
    PROVE  LET b == Calibrate(rows, results)
           IN  Accepted(b.rgb.rows) /\ Accepted(b.ct.rows)
<1> DEFINE observations == load_observations(results)
           wave == FirstWave(rows)
           rgbSources == load_sources(rows, "RGB")
           ctSources == load_sources(rows, "CT")
           rgb == build_wave_one(wave, rgbSources, observations)
           ct == build_wave(rgb.rows, ctSources, observations)
<1>1. /\ Calibrate(rows, results) = [rgb |-> rgb, ct |-> ct]
      /\ rgbSources # Refused /\ ctSources # Refused
      /\ ~ rgb.pools.failed /\ ~ ct.pools.failed
  BY DEF Calibrate
<1>2. /\ IsSequence(wave) /\ Accepted(wave)
      /\ \A r \in ToSet(wave) : r \in ToSet(rows) /\ r.wave = 1
  <2> DEFINE places == {n \in DOMAIN rows : rows[n].wave = 1}
  <2>1. IsSequence(rows) /\ places \subseteq DOMAIN rows
    BY DEF AreRows
  <2>2. \A n \in places : rows[n] \in ToSet(rows) /\ rows[n].wave = 1
    BY DEF ToSet
  <2>3. wave = Picked(rows, places)
    BY DEF FirstWave
  <2> HIDE DEF places, wave
  <2>4. IsSequence(wave) /\ ToSet(wave) = {rows[n] : n \in places}
    BY <2>1, <2>3, PickedAre
  <2> QED
    BY <2>2, <2>4 DEF wave
<1> HIDE DEF wave
<1>3. Distinct(wave) /\ GroupsFit(ToSet(wave), Names(1), Closed)
  BY <1>2, AcceptedGroups
<1>4. AreSources(rgbSources, rows, "RGB") /\ AreSources(ctSources, rows, "CT")
  BY <1>1, LoadedSources
<1> HIDE DEF observations, rgbSources, ctSources
<1>5. IsDemo(rows, wave, rgbSources, "RGB")
  BY <1>2, <1>4 DEF IsDemo
<1>6. RgbHolds(rgbSources, observations, wave, 0, Len(CellsOf(wave)), rgb)
  BY <1>5, RgbWave
<1>7. Distinct(rgb.rows) /\ GroupsFit(ToSet(rgb.rows), Names(1), Closed)
  BY <1>1, <1>3, <1>5, RgbWaveFits
<1> HIDE DEF rgb
<1>8. AreRgbRows(rows, wave, observations, rgb.rows)
  BY <1>1, <1>2, <1>5, <1>6 DEF RgbHolds, AreRgbRows, IsDemo
<1>9. Distinct(ct.rows) /\ GroupsFit(ToSet(ct.rows), Names(1), Closed)
  BY <1>1, <1>4, <1>7, <1>8, CtWaveFits
<1> HIDE DEF ct
<1>10. Accepted(rgb.rows) /\ Accepted(ct.rows)
  <2>1. 1 \in 0..5
    OBVIOUS
  <2> QED
    BY <1>7, <1>9, <2>1, GroupsAreAccepted
<1> QED
  BY <1>1, <1>10

\* Every manifest that a builder writes is one that the seed loads
\* (build-simulation-manifest.py:186-243, build-v17-runtime-manifests.py:
\* 292-426, both build-v18 scripts; apply-simulation-seed.py:66-164).
THEOREM ManifestsLoad == Spec => []BuiltManifestsLoad
<1>1. ReturnedIs => BuiltManifestsLoad
  <2> SUFFICES ASSUME ReturnedIs PROVE BuiltManifestsLoad
    OBVIOUS
  <2>1. ASSUME Returned("build")
        PROVE  Accepted(result)
    <3>1. /\ task \in Tasks /\ task.tool = "build"
          /\ result = build(task.meta) /\ result # Refused
      BY <2>1 DEF ReturnedIs, Returned
    <3>2. IsMeta(task.meta)
      BY <3>1, BuildAssumption DEF IsMeta
    <3> QED
      BY <3>1, <3>2, BuildLoads
  <2>2. ASSUME Returned("waves"), NEW w \in {result.rows[n].wave : n \in DOMAIN result.rows}
        PROVE  Accepted(WaveRows(result, w))
    <3>1. /\ task \in Tasks /\ task.tool = "waves"
          /\ result = build_waves(task.dataset) /\ result # Refused
      BY <2>2 DEF ReturnedIs, Returned
    <3>2. IsDataset(task.dataset)
      BY <3>1, WavesAssumption DEF IsDataset
    <3> QED
      BY <2>2, <3>1, <3>2, WavesLoad
  <2>3. ASSUME Returned("demo")
        PROVE  Accepted(result.rgb.rows) /\ Accepted(result.ct.rows)
    <3>1. /\ task \in Tasks /\ task.tool = "demo"
          /\ result = Calibrate(task.rows, task.results) /\ result # Refused
      BY <2>3 DEF ReturnedIs, Returned
    <3>2. AreRows(task.rows) /\ Accepted(FirstWave(task.rows))
      BY <3>1, ManifestsAreRows, DemosAssumption
    <3> QED
      BY <3>1, <3>2, DemosLoad
  <2> QED
    BY <2>1, <2>2, <2>3 DEF BuiltManifestsLoad
<1> QED
  BY <1>1, CallsReturn, PTL
=============================================================================
