------------------------------- MODULE Folding -------------------------------
(***************************************************************************)
(* Induction over the natural numbers, and over the steps of a fold, in a  *)
(* form that can be used for any property and any step: a property is the  *)
(* set of the numbers that have it, and the step and the invariant of a    *)
(* fold are constants of this module, to be replaced in an INSTANCE of it. *)
(* Their first four arguments are for what the step takes from its context.*)
(***************************************************************************)
EXTENDS Sequences, Integers, WellFoundedInduction, TLAPS

CONSTANTS Step(_, _, _, _, _, _),    \* context, state, member of the sequence
          Holds(_, _, _, _, _, _)    \* context, steps done, state

(***************************************************************************)
(* The natural numbers.                                                    *)
(***************************************************************************)

\* A set of numbers that is not empty has a least member.
LEMMA LeastNumber ==
    ASSUME NEW T, T \subseteq Nat, T # {}
    PROVE  \E x \in T : \A y \in T : x <= y
<1>1. PICK x \in T : \A y \in T : ~ (<<y, x>> \in OpToRel(<, Nat))
  BY WFMin, NatLessThanWellFounded
<1>2. \A y \in T : ~ (y < x)
  BY <1>1 DEF OpToRel
<1> QED
  BY <1>2

\* What holds of zero and is handed on holds of every number.
LEMMA Induction ==
    ASSUME NEW T, 0 \in T, \A n \in Nat : n \in T => n + 1 \in T
    PROVE  \A n \in Nat : n \in T
<1> SUFFICES ASSUME Nat \ T # {} PROVE FALSE
  OBVIOUS
<1>1. PICK x \in Nat \ T : \A y \in Nat \ T : x <= y
  BY LeastNumber
<1>2. x # 0 /\ x - 1 \in Nat /\ x - 1 \in T
  BY <1>1
<1> QED
  BY <1>1, <1>2

(***************************************************************************)
(* FoldLeft of the community modules is the value, at the whole domain, of *)
(* a function on the sets of positions that calls itself on the set        *)
(* without its greatest member.  That there is such a function is the      *)
(* first thing to prove.                                                   *)
(***************************************************************************)

Greatest(s) == CHOOSE x \in s : \A y \in s : x >= y

Unfolds(it, p, q, u, v, base, seq) ==
    it = [s \in SUBSET DOMAIN seq |->
             IF s = {} THEN base ELSE Step(p, q, u, v, it[s \ {Greatest(s)}], seq[Greatest(s)])]

Iterates(p, q, u, v, base, seq) == CHOOSE it : Unfolds(it, p, q, u, v, base, seq)

\* FoldLeft(LAMBDA r, x : Step(p, q, u, v, r, x), base, seq), which a theorem
\* cannot name without naming the step.
Folded(p, q, u, v, base, seq) == Iterates(p, q, u, v, base, seq)[DOMAIN seq]

\* The greatest of the first k + 1 positions, if it is in the set.
LEMMA GreatestPosition ==
    ASSUME NEW k \in Nat, NEW s, s \subseteq 1..k + 1
    PROVE  /\ k + 1 \in s => Greatest(s) = k + 1 /\ s \ {Greatest(s)} \subseteq 1..k
           /\ k + 1 \notin s => s \subseteq 1..k
<1>1. CASE k + 1 \in s
  <2>1. \A y \in s : k + 1 >= y
    OBVIOUS
  <2>2. \A x \in s : (\A y \in s : x >= y) => x = k + 1
    BY <1>1
  <2>3. Greatest(s) = k + 1
    BY <1>1, <2>1, <2>2 DEF Greatest
  <2> QED
    BY <1>1, <2>3
<1>2. CASE k + 1 \notin s
  BY <1>2
<1> QED
  BY <1>1, <1>2

\* The recursive definition of a fold has a solution.
LEMMA FoldIsDefined ==
    ASSUME NEW p, NEW q, NEW u, NEW v, NEW base, NEW S, NEW seq \in Seq(S)
    PROVE  \E it : Unfolds(it, p, q, u, v, base, seq)
<1> DEFINE
      Upto(it, k) ==
        it = [s \in SUBSET (1..k) |->
                 IF s = {} THEN base
                 ELSE Step(p, q, u, v, it[s \ {Greatest(s)}], seq[Greatest(s)])]
      T == {k \in Nat : \E it : Upto(it, k)}
<1>1. 0 \in T
  <2>1. \A s \in SUBSET (1..0) : s = {}
    OBVIOUS
  <2>2. Upto([s \in SUBSET (1..0) |-> base], 0)
    BY <2>1
  <2> QED
    BY <2>2
<1>2. ASSUME NEW k \in Nat, k \in T
      PROVE  k + 1 \in T
  <2>1. PICK it : Upto(it, k)
    BY <1>2
  <2> DEFINE new == [s \in SUBSET (1..k + 1) |->
                        IF k + 1 \in s
                        THEN Step(p, q, u, v, it[s \ {k + 1}], seq[k + 1])
                        ELSE it[s]]
             Next(s) == IF s = {} THEN base
                        ELSE Step(p, q, u, v, new[s \ {Greatest(s)}], seq[Greatest(s)])
  <2>2. \A s \in SUBSET (1..k) : new[s] = it[s]
    OBVIOUS
  <2>3. ASSUME NEW s \in SUBSET (1..k + 1)
        PROVE  new[s] = Next(s)
    <3>1. CASE k + 1 \in s
      <4>1. Greatest(s) = k + 1 /\ s \ {k + 1} \in SUBSET (1..k) /\ s # {}
        BY <3>1, GreatestPosition
      <4>2. new[s] = Step(p, q, u, v, it[s \ {k + 1}], seq[k + 1])
        BY <3>1
      <4>3. new[s \ {k + 1}] = it[s \ {k + 1}]
        BY <4>1, <2>2
      <4> QED
        BY <4>1, <4>2, <4>3
    <3>2. CASE k + 1 \notin s
      <4>1. s \in SUBSET (1..k)
        BY <3>2, GreatestPosition
      <4>2. new[s] = it[s]
        BY <4>1, <2>2
      <4>3. it[s] = IF s = {} THEN base
                    ELSE Step(p, q, u, v, it[s \ {Greatest(s)}], seq[Greatest(s)])
        BY <4>1, <2>1
      <4>4. s \ {Greatest(s)} \in SUBSET (1..k)
        BY <4>1
      <4>5. new[s \ {Greatest(s)}] = it[s \ {Greatest(s)}]
        BY <4>4, <2>2
      <4> QED
        BY <4>2, <4>3, <4>5
    <3> QED
      BY <3>1, <3>2
  <2>4. new = [s \in SUBSET (1..k + 1) |-> new[s]]
    OBVIOUS
  <2> HIDE DEF new
  <2>5. Upto(new, k + 1)
    BY <2>3, <2>4
  <2> HIDE DEF Upto
  <2> QED
    BY <2>5
<1>3. \E it : Upto(it, Len(seq))
  <2> HIDE DEF Upto
  <2>1. \A n \in Nat : n \in T
    BY <1>1, <1>2, Induction
  <2> QED
    BY <2>1
<1>4. DOMAIN seq = 1..Len(seq)
  OBVIOUS
<1> QED
  BY <1>3, <1>4 DEF Unfolds

\* A fold goes through its sequence from the first member to the last.
THEOREM FoldSteps ==
    ASSUME NEW p, NEW q, NEW u, NEW v, NEW base, NEW S, NEW seq \in Seq(S)
    PROVE  \E f : /\ f[0] = base
                  /\ \A k \in 1..Len(seq) : f[k] = Step(p, q, u, v, f[k - 1], seq[k])
                  /\ Folded(p, q, u, v, base, seq) = f[Len(seq)]
<1> DEFINE it == Iterates(p, q, u, v, base, seq)
           f == [k \in 0..Len(seq) |-> it[1..k]]
<1>1. Unfolds(it, p, q, u, v, base, seq)
  BY FoldIsDefined DEF Iterates
<1>2. /\ DOMAIN seq = 1..Len(seq) /\ Len(seq) \in Nat
      /\ \A k \in 0..Len(seq) : 1..k \subseteq DOMAIN seq
  OBVIOUS
<1>3. Folded(p, q, u, v, base, seq) = it[DOMAIN seq]
  BY DEF Folded
<1> HIDE DEF it
<1>4. f[0] = base
  BY <1>1, <1>2 DEF Unfolds
<1>5. ASSUME NEW k \in 1..Len(seq)
      PROVE  f[k] = Step(p, q, u, v, f[k - 1], seq[k])
  <2>1. k - 1 \in Nat /\ 1..k \subseteq 1..(k - 1) + 1 /\ k \in 1..k /\ k = (k - 1) + 1
    OBVIOUS
  <2>2. Greatest(1..k) = k
    BY <2>1, GreatestPosition
  <2>3. (1..k) \ {k} = 1..k - 1 /\ 1..k # {} /\ 1..k \in SUBSET DOMAIN seq
    BY <1>2
  <2>4. it[1..k] = IF 1..k = {} THEN base
                   ELSE Step(p, q, u, v, it[(1..k) \ {Greatest(1..k)}], seq[Greatest(1..k)])
    BY <1>1, <2>3 DEF Unfolds
  <2>5. it[1..k] = Step(p, q, u, v, it[1..k - 1], seq[k])
    BY <2>2, <2>3, <2>4
  <2>6. f[k] = it[1..k] /\ f[k - 1] = it[1..k - 1]
    BY <1>2
  <2> QED
    BY <2>5, <2>6
<1>6. Folded(p, q, u, v, base, seq) = f[Len(seq)]
  BY <1>2, <1>3
<1> HIDE DEF f
<1> QED
  BY <1>4, <1>5, <1>6

\* What holds of the first state and is kept by every step holds of the last.
THEOREM FoldKeeps ==
    ASSUME NEW p, NEW q, NEW u, NEW v, NEW base, NEW S, NEW seq \in Seq(S),
           Holds(p, q, u, v, 0, base),
           \A k \in 1..Len(seq) : \A r : Holds(p, q, u, v, k - 1, r) =>
               Holds(p, q, u, v, k, Step(p, q, u, v, r, seq[k]))
    PROVE  Holds(p, q, u, v, Len(seq), Folded(p, q, u, v, base, seq))
<1>1. PICK f : /\ f[0] = base
               /\ \A k \in 1..Len(seq) : f[k] = Step(p, q, u, v, f[k - 1], seq[k])
               /\ Folded(p, q, u, v, base, seq) = f[Len(seq)]
  BY FoldSteps
<1> DEFINE T == {k \in Nat : k <= Len(seq) => Holds(p, q, u, v, k, f[k])}
<1>2. 0 \in T
  BY <1>1
<1>3. ASSUME NEW k \in Nat, k \in T
      PROVE  k + 1 \in T
  <2>1. CASE k + 1 <= Len(seq)
    <3>1. k + 1 \in 1..Len(seq) /\ (k + 1) - 1 = k /\ k <= Len(seq)
      BY <2>1
    <3>2. Holds(p, q, u, v, k, f[k])
      BY <1>3, <3>1
    <3>3. Holds(p, q, u, v, k + 1, Step(p, q, u, v, f[k], seq[k + 1]))
      BY <3>1, <3>2
    <3> QED
      BY <1>1, <3>1, <3>3
  <2> QED
    BY <2>1
<1>4. \A n \in Nat : n \in T
  <2> HIDE DEF T
  <2> QED
    BY <1>2, <1>3, Induction
<1> QED
  BY <1>1, <1>4
=============================================================================
