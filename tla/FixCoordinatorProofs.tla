------------------------ MODULE FixCoordinatorProofs ------------------------
(***************************************************************************)
(* Proofs about FixCoordinator, for a file of any length and any number of  *)
(* fixes of any edits: the state is well typed, the one sweep over the       *)
(* edits finds every fix with an edit that clashes with another and no       *)
(* other, and the file is what the edits of the accepted fixes make of it.   *)
(*                                                                         *)
(* CoordinateInv is inductive. The sweep compares an edit with one           *)
(* replacement, and an insertion with one other: whatever else the edit      *)
(* clashes with clashes with that one too, so it was found before. TextInv   *)
(* rests on it: edits that do not clash lie apart, so the one that is made   *)
(* from behind leaves what is before it as it was.                           *)
(***************************************************************************)
EXTENDS FixCoordinator, WellFoundedInduction, TLAPS
(* The fixes that are not refused one by one, and their edits. *)
Candidates == {i \in Fixes : Refusal(selections[i]) = "none"}
All == EditsOf(Candidates)

(* The edits the sweep has visited. *)
Visited == All \ edits

Inserts(e) == e.start = e.end
Replaces(e) == e.start < e.end

(* A fix has an edit that clashes with another in the set. *)
Clashes(i, set) == \E a, b \in set : a # b /\ a.fix = i /\ Clash(a, b)

(* The edits are visited in their order; the locals of the sweep say of those it has *)
(* visited where the first insertions are, and which replacement reaches furthest.   *)
SweepInv ==
  phase = "sweep" =>
    /\ edits \subseteq All
    /\ \A d \in Visited, e \in edits : Before(d, e)
    /\ \A d \in Visited : Inserts(d) => insertions[d.start] # 0
    /\ \A p \in Offsets : insertions[p] # 0 =>
         \E d \in Visited : Inserts(d) /\ d.start = p /\ d.fix = insertions[p]
    /\ active.fix # 0 =>
         \E d \in Visited :
           Replaces(d) /\ d.fix = active.fix /\ d.start = active.start /\ d.end = active.end
    /\ \A d \in Visited, e \in edits :
         Replaces(d) /\ e.start < d.end => active.fix # 0 /\ d.end <= active.end

(* The candidates that are rejected for a conflict, as far as the set tells. *)
Found(set) ==
  /\ \A i \in Fixes \ Candidates : reason[i] = Refusal(selections[i])
  /\ \A i \in Candidates :
       reason[i] = "conflict" <=> i \in ImportConflicts(Candidates) \/ Clashes(i, set)

FoundInv ==
  /\ phase = "prepare" => edits = {} /\ active = None /\ insertions = [p \in Offsets |-> 0]
  /\ phase = "sweep" => Found(Visited)
  /\ phase \in {"splice", "done"} => Found(All)

CoordinateInv == TypeOK /\ SweepInv /\ FoundInv

-----------------------------------------------------------------------------
(* The text while the edits are made                                        *)

(* The edits that have been made. *)
Done == EditsOf(Prepared) \ edits

Things == All \cup Range(Input)

(* Edits are made from the end of the file: what is before those that are left is as it *)
(* was, and the rest is what those that were made make of it.                            *)
TextInv ==
  /\ phase \in {"prepare", "sweep"} => bytes = Input /\ applied = {}
  /\ phase = "splice" =>
       /\ applied = {} /\ edits \subseteq EditsOf(Prepared) /\ bytes \in Seq(Things)
       /\ \A d \in Done, e \in edits : Before(e, d)
       /\ Range(bytes) = Pieces(Done) /\ InOrder(bytes)
       /\ \A e \in edits : e.end <= Len(bytes) /\ \A n \in 1..e.end : bytes[n] = Input[n]
  /\ AppliedWhole

-----------------------------------------------------------------------------
(* Edits                                                                    *)

LEMMA SelectionsOf ==
  ASSUME selections \in Seq(Shapes), NEW i \in Fixes
  PROVE  i \in Nat \ {0} /\ selections[i] \in Shapes
BY DEF Fixes

(* A fix that is not refused has edits of valid ranges. *)
LEMMA NotRefused ==
  ASSUME NEW s \in Shapes, Refusal(s) = "none"
  PROVE  \A k \in DOMAIN s.edits : validEditRange(s.edits[k])
BY DEF Refusal

LEMMA RefusalType ==
  ASSUME NEW s \in Shapes
  PROVE  Refusal(s) \in Reasons \ {"conflict", "validation"}
BY DEF Refusal, Reasons

(* What an edit of a candidate is. *)
Made(i, k) ==
  [fix |-> i, number |-> k, start |-> selections[i].edits[k].start,
   end |-> selections[i].edits[k].end, deletes |-> selections[i].edits[k].deletes]

LEMMA EditMade ==
  ASSUME NEW fixes, NEW e \in EditsOf(fixes)
  PROVE  \E i \in fixes : \E k \in DOMAIN selections[i].edits : e = Made(i, k)
BY DEF EditsOf, Made

LEMMA EditTypes ==
  ASSUME selections \in Seq(Shapes), NEW e \in All
  PROVE  /\ e.fix \in Candidates /\ e.fix \in Fixes /\ e.fix \in Nat \ {0}
         /\ e.number \in Nat
         /\ e.start \in Offsets /\ e.end \in Offsets /\ e.start <= e.end
         /\ e.start \in Nat /\ e.end \in Nat
<1>0. PICK i \in Candidates : \E k \in DOMAIN selections[i].edits : e = Made(i, k)
  BY EditMade DEF All
<1>1. PICK k \in DOMAIN selections[i].edits : e = Made(i, k)
  BY <1>0
<1>2. i \in Fixes /\ Refusal(selections[i]) = "none"
  BY DEF Candidates
<1>3. i \in Nat \ {0} /\ selections[i] \in Shapes
  BY <1>2, SelectionsOf
<1>4. selections[i].edits \in Seq(Edit)
  BY <1>3, ShapesAssumption
<1>5. k \in Nat /\ selections[i].edits[k] \in Edit
  BY <1>4
<1>6. validEditRange(selections[i].edits[k])
  BY <1>2, <1>3, NotRefused
<1>7. /\ e.fix = i /\ e.number = k
      /\ e.start = selections[i].edits[k].start /\ e.end = selections[i].edits[k].end
  BY <1>1 DEF Made
<1>8. e.start \in Int /\ e.end \in Int
  BY <1>5, <1>7 DEF Edit
<1>9. e.start >= 0 /\ e.end >= e.start /\ e.end <= Length
  BY <1>6, <1>7 DEF validEditRange
<1> QED
  BY <1>2, <1>3, <1>5, <1>7, <1>8, <1>9, LengthAssumption DEF Offsets

(* An edit is known by its fix and its number. *)
LEMMA EditsDiffer ==
  ASSUME NEW a \in All, NEW b \in All, a.fix = b.fix, a.number = b.number
  PROVE  a = b
<1>1. PICK i \in Candidates : \E k \in DOMAIN selections[i].edits : a = Made(i, k)
  BY EditMade DEF All
<1>2. PICK j \in Candidates : \E k \in DOMAIN selections[j].edits : b = Made(j, k)
  BY EditMade DEF All
<1>3. i = j /\ a = Made(i, a.number) /\ b = Made(j, b.number)
  BY <1>1, <1>2 DEF Made
<1> QED
  BY <1>3

(* Two different edits are in order, one way. *)
LEMMA BeforeTotal ==
  ASSUME selections \in Seq(Shapes), NEW a \in All, NEW b \in All, a # b
  PROVE  Before(a, b) \/ Before(b, a)
<1>1. /\ a.start \in Nat /\ a.end \in Nat /\ a.fix \in Nat /\ a.number \in Nat
      /\ b.start \in Nat /\ b.end \in Nat /\ b.fix \in Nat /\ b.number \in Nat
  BY EditTypes
<1>2. a.fix # b.fix \/ a.number # b.number
  BY EditsDiffer
<1> QED
  BY <1>1, <1>2 DEF Before

LEMMA BeforeTransitive ==
  ASSUME selections \in Seq(Shapes), NEW a \in All, NEW b \in All, NEW c \in All,
         Before(a, b), Before(b, c)
  PROVE  Before(a, c)
<1>1. /\ a.start \in Nat /\ a.end \in Nat /\ a.fix \in Nat /\ a.number \in Nat
      /\ b.start \in Nat /\ b.end \in Nat /\ b.fix \in Nat /\ b.number \in Nat
      /\ c.start \in Nat /\ c.end \in Nat /\ c.fix \in Nat /\ c.number \in Nat
  BY EditTypes
<1>2. a.start <= b.start /\ b.start <= c.start
  BY <1>1 DEF Before
<1>3. CASE a.start < c.start
  BY <1>3 DEF Before
<1>4. CASE a.start = b.start /\ b.start = c.start
  <2>1. a.end <= b.end /\ b.end <= c.end
    BY <1>1, <1>4 DEF Before
  <2>2. CASE a.end < c.end
    BY <1>4, <2>2 DEF Before
  <2>3. CASE a.end = b.end /\ b.end = c.end
    <3>1. a.fix < b.fix \/ (a.fix = b.fix /\ a.number < b.number)
      BY <1>1, <1>4, <2>3 DEF Before
    <3>2. b.fix < c.fix \/ (b.fix = c.fix /\ b.number < c.number)
      BY <1>1, <1>4, <2>3 DEF Before
    <3>3. a.fix < c.fix \/ (a.fix = c.fix /\ a.number < c.number)
      <4>1. CASE a.fix < b.fix
        BY <1>1, <3>2, <4>1
      <4>2. CASE a.fix = b.fix /\ a.number < b.number
        BY <1>1, <3>2, <4>2
      <4> QED
        BY <3>1, <4>1, <4>2
    <3> QED
      BY <1>4, <2>3, <3>3 DEF Before
  <2> QED
    BY <1>1, <2>1, <2>2, <2>3
<1>5. a.start < c.start \/ (a.start = b.start /\ b.start = c.start)
  BY <1>1, <1>2
<1> QED
  BY <1>3, <1>4, <1>5

LEMMA LeastNumber ==
  ASSUME NEW S, S \subseteq Nat, S # {}
  PROVE  \E n \in S : \A m \in S : n <= m
<1> DEFINE R == OpToRel(<, Nat)
<1>1. IsWellFoundedOn(R, Nat)
  BY NatLessThanWellFounded
<1>2. \A x, y \in Nat : y < x => <<y, x>> \in R
  BY DEF OpToRel
<1> HIDE DEF R
<1>3. PICK n \in S : \A m \in S : <<m, n>> \notin R
  BY <1>1, WFMin, Zenon
<1>4. \A m \in S : ~(m < n)
  BY <1>2, <1>3, Zenon
<1> QED
  BY <1>4

(* There is a first edit: one that begins first, ends first, is of the first fix and is *)
(* the first of it.                                                                      *)
LEMMA FirstIn ==
  ASSUME selections \in Seq(Shapes), NEW set, set \subseteq All, set # {}
  PROVE  /\ FirstEdit(set) \in set
         /\ \A other \in set \ {FirstEdit(set)} : Before(FirstEdit(set), other)
<1>1. \A e \in set : e.start \in Nat /\ e.end \in Nat /\ e.fix \in Nat /\ e.number \in Nat
  BY EditTypes
<1>2. PICK a \in {e.start : e \in set} : \A m \in {e.start : e \in set} : a <= m
  <2>1. {e.start : e \in set} \subseteq Nat /\ {e.start : e \in set} # {}
    BY <1>1
  <2> QED
    BY <2>1, LeastNumber
<1> DEFINE A == {e \in set : e.start = a}
<1>3. A # {} /\ \A e \in set : a <= e.start
  BY <1>2
<1>4. PICK b \in {e.end : e \in A} : \A m \in {e.end : e \in A} : b <= m
  <2>1. {e.end : e \in A} \subseteq Nat /\ {e.end : e \in A} # {}
    BY <1>1, <1>3
  <2> QED
    BY <2>1, LeastNumber
<1> DEFINE B == {e \in A : e.end = b}
<1>5. B # {} /\ \A e \in A : b <= e.end
  BY <1>4
<1>6. PICK c \in {e.fix : e \in B} : \A m \in {e.fix : e \in B} : c <= m
  <2>1. {e.fix : e \in B} \subseteq Nat /\ {e.fix : e \in B} # {}
    BY <1>1, <1>5
  <2> QED
    BY <2>1, LeastNumber
<1> DEFINE C == {e \in B : e.fix = c}
<1>7. C # {} /\ \A e \in B : c <= e.fix
  BY <1>6
<1>8. PICK n \in {e.number : e \in C} : \A m \in {e.number : e \in C} : n <= m
  <2>1. {e.number : e \in C} \subseteq Nat /\ {e.number : e \in C} # {}
    BY <1>1, <1>7
  <2> QED
    BY <2>1, LeastNumber
<1>9. PICK first \in C : first.number = n
  BY <1>8
<1>10. \A e \in C : n <= e.number
  BY <1>8
<1>11. first \in set /\ first.start = a /\ first.end = b /\ first.fix = c
  OBVIOUS
<1>12. ASSUME NEW other \in set \ {first} PROVE Before(first, other)
  <2>1. other.fix # c \/ other.number # n
    BY <1>9, <1>11, EditsDiffer
  <2>2. a <= other.start
    BY <1>3
  <2>3. other.start = a => b <= other.end
    BY <1>5
  <2>4. other.start = a /\ other.end = b => c <= other.fix
    BY <1>7
  <2>5. other.start = a /\ other.end = b /\ other.fix = c => n <= other.number
    BY <1>10
  <2>6. /\ other.start \in Nat /\ other.end \in Nat /\ other.fix \in Nat /\ other.number \in Nat
        /\ a \in Nat /\ b \in Nat /\ c \in Nat /\ n \in Nat
    BY <1>1, <1>9, <1>11
  <2> QED
    BY <1>9, <1>11, <2>1, <2>2, <2>3, <2>4, <2>5, <2>6 DEF Before
<1>13. \E e \in set : \A other \in set \ {e} : Before(e, other)
  BY <1>11, <1>12
<1> QED
  BY <1>13 DEF FirstEdit

(* When two edits clash, case by case. *)
LEMMA ClashWhen ==
  ASSUME selections \in Seq(Shapes), NEW a \in All, NEW b \in All
  PROVE  /\ Inserts(a) /\ Inserts(b) => (Clash(a, b) <=> a.start = b.start)
         /\ Inserts(a) /\ Replaces(b) => (Clash(a, b) <=> b.start < a.start /\ a.start < b.end)
         /\ Replaces(a) /\ Inserts(b) => (Clash(a, b) <=> a.start < b.start /\ b.start < a.end)
         /\ Replaces(a) /\ Replaces(b) => (Clash(a, b) <=> a.start < b.end /\ b.start < a.end)
         /\ Inserts(a) \/ Replaces(a)
<1>1. /\ a.start \in Nat /\ a.end \in Nat /\ a.start <= a.end
      /\ b.start \in Nat /\ b.end \in Nat /\ b.start <= b.end
  BY EditTypes
<1> QED
  BY <1>1 DEF Clash, Inserts, Replaces

LEMMA ClashSymmetric ==
  ASSUME selections \in Seq(Shapes), NEW a \in All, NEW b \in All
  PROVE  Clash(a, b) <=> Clash(b, a)
<1>1. Inserts(b) \/ Replaces(b)
  BY ClashWhen
<1> QED
  BY <1>1, ClashWhen

(* Two replacements that both reach beyond an offset at which neither begins later. *)
LEMMA BothCover ==
  ASSUME selections \in Seq(Shapes), NEW a \in All, NEW b \in All, Replaces(a), Replaces(b),
         NEW p \in Nat, a.start <= p, p < a.end, b.start <= p, p < b.end
  PROVE  Clash(a, b)
<1>1. a.start \in Nat /\ a.end \in Nat /\ b.start \in Nat /\ b.end \in Nat
  BY EditTypes
<1>2. a.start < b.end /\ b.start < a.end
  BY <1>1
<1> QED
  BY <1>2, ClashWhen

-----------------------------------------------------------------------------
(* One edit of the sweep                                                    *)

(* The sweep is at the edit e: it is the first of those that are left. *)
At(e) ==
  /\ CoordinateInv /\ phase = "sweep"
  /\ e \in edits /\ \A other \in edits \ {e} : Before(e, other)

LEMMA AtFirst ==
  ASSUME CoordinateInv, phase = "sweep", edits # {}
  PROVE  At(FirstEdit(edits))
<1>1. selections \in Seq(Shapes) /\ edits \subseteq All
  BY DEF CoordinateInv, TypeOK, SweepInv
<1> QED
  BY <1>1, FirstIn DEF At

LEMMA AtEdit ==
  ASSUME NEW e, At(e)
  PROVE  /\ selections \in Seq(Shapes) /\ edits \subseteq All /\ Visited \subseteq All
         /\ e \in All /\ e \in edits /\ e \notin Visited
         /\ \A d \in Visited : Before(d, e) /\ d.start <= e.start
         /\ \A d \in Visited : Replaces(d) /\ Inserts(e) => d.start < e.start
<1>1. /\ selections \in Seq(Shapes) /\ edits \subseteq All /\ e \in edits
      /\ \A d \in Visited : Before(d, e)
  BY DEF At, CoordinateInv, TypeOK, SweepInv
<1>2. e \in All /\ e \notin Visited /\ Visited \subseteq All
  BY <1>1 DEF Visited
<1>3. ASSUME NEW d \in Visited
      PROVE  d.start <= e.start /\ (Replaces(d) /\ Inserts(e) => d.start < e.start)
  <2>1. d \in All /\ Before(d, e)
    BY <1>1, <1>2
  <2>2. /\ d.start \in Nat /\ d.end \in Nat /\ e.start \in Nat /\ e.end \in Nat
        /\ d.start <= d.end
    BY <1>1, <1>2, <2>1, EditTypes
  <2> QED
    BY <2>1, <2>2 DEF Before, Replaces, Inserts
<1> QED
  BY <1>1, <1>2, <1>3

(* The active replacement at an edit is one that covers its start, and of all that the *)
(* sweep has visited the one that reaches furthest.                                     *)
LEMMA ActiveCovers ==
  ASSUME NEW e, At(e)
  PROVE  /\ ActiveAt(e) \in {None, active}
         /\ ActiveAt(e).fix # 0 =>
              \E w \in Visited :
                /\ Replaces(w) /\ e.start < w.end
                /\ w.fix = ActiveAt(e).fix /\ w.start = ActiveAt(e).start
                /\ w.end = ActiveAt(e).end
         /\ \A d \in Visited :
              Replaces(d) /\ e.start < d.end => ActiveAt(e).fix # 0 /\ d.end <= ActiveAt(e).end
<1>1. selections \in Seq(Shapes) /\ e \in All /\ e \in edits /\ Visited \subseteq All
  BY AtEdit
<1>2. e.start \in Nat /\ active.end \in Nat /\ \A d \in Visited : d.end \in Nat
  BY <1>1, EditTypes, LengthAssumption DEF At, CoordinateInv, TypeOK, Offsets
<1>3. active.fix # 0 =>
        \E w \in Visited :
          Replaces(w) /\ w.fix = active.fix /\ w.start = active.start /\ w.end = active.end
  BY DEF At, CoordinateInv, SweepInv
<1>4. \A d \in Visited :
        Replaces(d) /\ e.start < d.end => active.fix # 0 /\ d.end <= active.end
  BY <1>1 DEF At, CoordinateInv, SweepInv
<1>5. CASE active.fix # 0 /\ e.start >= active.end
  <2>1. ActiveAt(e) = None /\ None.fix = 0
    BY <1>5 DEF ActiveAt, None
  <2>2. \A d \in Visited : ~(Replaces(d) /\ e.start < d.end)
    BY <1>2, <1>4, <1>5
  <2> QED
    BY <2>1, <2>2
<1>6. CASE ~(active.fix # 0 /\ e.start >= active.end)
  <2>1. ActiveAt(e) = active
    BY <1>6 DEF ActiveAt
  <2>2. active.fix # 0 => e.start < active.end
    BY <1>2, <1>6
  <2> QED
    BY <1>3, <1>4, <2>1, <2>2
<1> QED
  BY <1>5, <1>6

(* Which fixes an edit marks: each clashes now, and what clashes only now is marked. *)
Marked(e, fixes) ==
  /\ \A i \in fixes : Clashes(i, Visited \cup {e})
  /\ \A d \in Visited : Clash(d, e) => d.fix \in fixes \/ Clashes(d.fix, Visited)
  /\ (\E d \in Visited : Clash(d, e)) => e.fix \in fixes

(* Two edits that clash are both found. *)
LEMMA BothClash ==
  ASSUME selections \in Seq(Shapes), NEW set, set \subseteq All,
         NEW a \in set, NEW b \in set, a # b, Clash(a, b)
  PROVE  Clashes(a.fix, set) /\ Clashes(b.fix, set)
<1>1. Clash(b, a)
  BY ClashSymmetric
<1> QED
  BY <1>1 DEF Clashes

(* An edit that covers an offset which the active replacement covers too was found. *)
LEMMA CoversFound ==
  ASSUME NEW e, At(e), NEW w \in Visited, NEW d \in Visited, Replaces(w), Replaces(d),
         e.start < w.end, e.start < d.end
  PROVE  d = w \/ Clashes(d.fix, Visited)
<1>1. /\ selections \in Seq(Shapes) /\ Visited \subseteq All /\ e \in All
      /\ d.start <= e.start /\ w.start <= e.start
  BY AtEdit
<1>2. e.start \in Nat
  BY <1>1, EditTypes
<1>3. Clash(d, w)
  BY <1>1, <1>2, BothCover
<1> QED
  BY <1>1, <1>3, BothClash

LEMMA OverwriteMarks ==
  ASSUME NEW e, At(e), Replaces(e)
  PROVE  Marked(e, IF ActiveAt(e).fix # 0 /\ e.start < ActiveAt(e).end
                   THEN {ActiveAt(e).fix, e.fix} ELSE {})
<1> DEFINE current == ActiveAt(e)
           fixes == IF current.fix # 0 /\ e.start < current.end THEN {current.fix, e.fix} ELSE {}
           both == Visited \cup {e}
<1>1. /\ selections \in Seq(Shapes) /\ Visited \subseteq All /\ e \in All /\ e \notin Visited
      /\ \A d \in Visited : d.start <= e.start
  BY AtEdit
<1>2. /\ e.start \in Nat /\ e.end \in Nat /\ current.end \in Nat
      /\ \A d \in Visited : d.start \in Nat /\ d.end \in Nat
  <2>1. active.end \in Nat /\ None.end \in Nat
    BY LengthAssumption DEF At, CoordinateInv, TypeOK, Offsets, None
  <2>2. current.end \in Nat
    BY <2>1, ActiveCovers
  <2> QED
    BY <1>1, <2>2, EditTypes
<1>3. \A d \in Visited : Clash(d, e) <=> Replaces(d) /\ e.start < d.end
  <2>1. ASSUME NEW d \in Visited PROVE Clash(d, e) <=> Replaces(d) /\ e.start < d.end
    <3>1. d \in All /\ d.start <= e.start /\ e.start < e.end
      BY <1>1 DEF Replaces
    <3>2. CASE Replaces(d)
      BY <1>1, <1>2, <3>1, <3>2, ClashWhen
    <3>3. CASE Inserts(d)
      <4>1. ~Clash(d, e)
        BY <1>1, <1>2, <3>1, <3>3, ClashWhen
      <4> QED
        BY <1>2, <3>3, <4>1 DEF Inserts, Replaces
    <3> QED
      BY <1>1, <3>1, <3>2, <3>3, ClashWhen
  <2> QED
    BY <2>1
<1>4. /\ current.fix # 0 =>
           \E w \in Visited : Replaces(w) /\ e.start < w.end /\ w.fix = current.fix
                              /\ w.end = current.end
      /\ \A d \in Visited :
           Replaces(d) /\ e.start < d.end => current.fix # 0 /\ d.end <= current.end
  BY ActiveCovers
<1> HIDE DEF current
<1>5. ASSUME NEW i \in fixes PROVE Clashes(i, both)
  <2>1. current.fix # 0
    BY <1>5
  <2>2. PICK w \in Visited : Replaces(w) /\ e.start < w.end /\ w.fix = current.fix
    BY <1>4, <2>1
  <2>3. Clash(w, e) /\ w # e
    BY <1>1, <1>3, <2>2
  <2>4. both \subseteq All
    BY <1>1
  <2>5. Clashes(w.fix, both) /\ Clashes(e.fix, both)
    BY <1>1, <2>3, <2>4, BothClash
  <2> QED
    BY <1>5, <2>2, <2>5
<1>6. ASSUME NEW d \in Visited, Clash(d, e)
      PROVE  e.fix \in fixes /\ (d.fix \in fixes \/ Clashes(d.fix, Visited))
  <2>1. Replaces(d) /\ e.start < d.end
    BY <1>3, <1>6
  <2>2. current.fix # 0 /\ d.end <= current.end
    BY <1>4, <2>1
  <2>3. e.start < current.end
    BY <1>2, <2>1, <2>2
  <2>4. PICK w \in Visited : Replaces(w) /\ e.start < w.end /\ w.fix = current.fix
    BY <1>4, <2>2
  <2>5. d = w \/ Clashes(d.fix, Visited)
    BY <2>1, <2>4, CoversFound
  <2> QED
    BY <2>2, <2>3, <2>4, <2>5
<1> QED
  BY <1>5, <1>6 DEF Marked, current

LEMMA InsertMarks ==
  ASSUME NEW e, At(e), Inserts(e), NEW twice, NEW inside,
         twice = (IF insertions[e.start] = 0 THEN {} ELSE {insertions[e.start], e.fix}),
         inside = (IF ActiveAt(e).fix # 0 /\ e.start > ActiveAt(e).start
                   THEN {ActiveAt(e).fix, e.fix} ELSE {})
  PROVE  Marked(e, twice \cup inside)
<1> DEFINE current == ActiveAt(e)
           both == Visited \cup {e}
<1>1. /\ selections \in Seq(Shapes) /\ Visited \subseteq All /\ e \in All /\ e \notin Visited
      /\ \A d \in Visited : Replaces(d) => d.start < e.start
  BY AtEdit
<1>2. e.start \in Offsets /\ both \subseteq All
  BY <1>1, EditTypes
<1>3. /\ \A d \in Visited : Inserts(d) => insertions[d.start] # 0
      /\ insertions[e.start] # 0 =>
           \E d \in Visited : Inserts(d) /\ d.start = e.start /\ d.fix = insertions[e.start]
  BY <1>2 DEF At, CoordinateInv, SweepInv
<1>4. /\ current.fix # 0 =>
           \E w \in Visited : Replaces(w) /\ e.start < w.end /\ w.fix = current.fix
                              /\ w.start = current.start
      /\ \A d \in Visited :
           Replaces(d) /\ e.start < d.end => current.fix # 0
  BY ActiveCovers
<1>5. \A d \in Visited :
        /\ Inserts(d) => (Clash(d, e) <=> d.start = e.start)
        /\ Replaces(d) => (Clash(d, e) <=> d.start < e.start /\ e.start < d.end)
        /\ Inserts(d) \/ Replaces(d)
  BY <1>1, ClashWhen
<1>6. \A d \in Visited : Clash(d, e) => Clashes(d.fix, both) /\ Clashes(e.fix, both)
  BY <1>1, <1>2, BothClash
<1> HIDE DEF current
<1>7. ASSUME NEW i \in twice PROVE Clashes(i, both)
  <2>1. PICK d \in Visited : Inserts(d) /\ d.start = e.start /\ d.fix = insertions[e.start]
    BY <1>3, <1>7
  <2> QED
    BY <1>5, <1>6, <1>7, <2>1
<1>8. ASSUME NEW i \in inside PROVE Clashes(i, both)
  <2>1. PICK w \in Visited : Replaces(w) /\ e.start < w.end /\ w.fix = current.fix
    BY <1>4, <1>8 DEF current
  <2>2. Clash(w, e)
    BY <1>1, <1>5, <2>1
  <2> QED
    BY <1>6, <1>8, <2>1, <2>2 DEF current
<1>9. ASSUME NEW d \in Visited, Clash(d, e), Inserts(d)
      PROVE  e.fix \in twice /\ (d.fix \in twice \/ Clashes(d.fix, Visited))
  <2>1. d.start = e.start /\ insertions[e.start] # 0
    BY <1>3, <1>5, <1>9
  <2>2. PICK f \in Visited : Inserts(f) /\ f.start = e.start /\ f.fix = insertions[e.start]
    BY <1>3, <2>1
  <2>3. f \in All /\ d \in All /\ Clash(d, f)
    BY <1>1, <1>9, <2>1, <2>2, ClashWhen
  <2>4. d = f \/ Clashes(d.fix, Visited)
    BY <1>1, <2>3, BothClash
  <2> QED
    BY <2>1, <2>2, <2>4
<1>10. ASSUME NEW d \in Visited, Clash(d, e), Replaces(d)
       PROVE  e.fix \in inside /\ (d.fix \in inside \/ Clashes(d.fix, Visited))
  <2>1. e.start < d.end /\ current.fix # 0
    BY <1>4, <1>5, <1>10
  <2>2. PICK w \in Visited : Replaces(w) /\ e.start < w.end /\ w.fix = current.fix
                             /\ w.start = current.start
    BY <1>4, <2>1
  <2>3. w.start < e.start /\ w.start \in Nat /\ e.start \in Nat
    BY <1>1, <2>2, EditTypes
  <2>4. inside = {current.fix, e.fix}
    BY <2>1, <2>2, <2>3 DEF current
  <2>5. d = w \/ Clashes(d.fix, Visited)
    BY <1>10, <2>1, <2>2, CoversFound
  <2> QED
    BY <2>2, <2>4, <2>5
<1>11. \A d \in Visited : Clash(d, e) =>
         /\ e.fix \in twice \cup inside
         /\ d.fix \in twice \cup inside \/ Clashes(d.fix, Visited)
  BY <1>5, <1>9, <1>10
<1>12. \A i \in twice \cup inside : Clashes(i, both)
  BY <1>7, <1>8
<1> QED
  BY <1>11, <1>12 DEF Marked

(* What stays as long as the selection does. *)
LEMMA SelectionSame ==
  ASSUME selections' = selections
  PROVE  /\ Fixes' = Fixes /\ Candidates' = Candidates /\ All' = All
         /\ ImportConflicts(Candidates)' = ImportConflicts(Candidates)
<1>1. Fixes' = Fixes
  BY DEF Fixes
<1>2. Candidates' = Candidates
  BY <1>1 DEF Candidates
<1>3. All' = All
  BY <1>2 DEF All, EditsOf
<1>4. ImportConflicts(Candidates)' = ImportConflicts(Candidates)
  BY <1>2 DEF ImportConflicts
<1> QED
  BY <1>1, <1>2, <1>3, <1>4

LEMMA VisitedMore ==
  ASSUME NEW e, At(e), selections' = selections, edits' = edits \ {e}
  PROVE  Visited' = Visited \cup {e}
<1>1. All' = All /\ e \in All /\ e \in edits
  BY SelectionSame, AtEdit
<1> QED
  BY <1>1 DEF Visited

(* What an edit marks is what it adds to the clashes. *)
LEMMA MarkedFound ==
  ASSUME NEW e, At(e), NEW fixes, Marked(e, fixes), Mark(fixes),
         selections' = selections, edits' = edits \ {e}
  PROVE  Found(Visited)' /\ reason' \in [Fixes -> Reasons]
<1> DEFINE both == Visited \cup {e}
<1>1. /\ selections \in Seq(Shapes) /\ Visited \subseteq All /\ e \in All /\ e \notin Visited
      /\ both \subseteq All
  BY AtEdit
<1>2. Found(Visited) /\ reason \in [Fixes -> Reasons]
  BY DEF At, CoordinateInv, FoundInv, TypeOK
<1>3. reason' = [i \in Fixes |-> IF i \in fixes THEN "conflict" ELSE reason[i]]
  BY DEF Mark
<1>4. fixes \subseteq Candidates
  <2>1. \A i \in fixes : \E a \in both : a.fix = i
    BY DEF Marked, Clashes
  <2> QED
    BY <1>1, <2>1, EditTypes
<1>5. Candidates \subseteq Fixes
  BY DEF Candidates
<1>6. ASSUME NEW i \in Fixes \ Candidates PROVE reason'[i] = Refusal(selections[i])
  BY <1>2, <1>3, <1>4 DEF Found
<1>7. ASSUME NEW i \in Candidates
      PROVE  reason'[i] = "conflict" <=> i \in ImportConflicts(Candidates) \/ Clashes(i, both)
  <2>1. reason'[i] = "conflict" <=> i \in fixes \/ reason[i] = "conflict"
    BY <1>3, <1>5
  <2>2. reason[i] = "conflict" <=> i \in ImportConflicts(Candidates) \/ Clashes(i, Visited)
    BY <1>2 DEF Found
  <2>3. i \in fixes \/ Clashes(i, Visited) => Clashes(i, both)
    BY DEF Marked, Clashes
  <2>4. ASSUME Clashes(i, both) PROVE i \in fixes \/ Clashes(i, Visited)
    <3>1. PICK a \in both, b \in both : a # b /\ a.fix = i /\ Clash(a, b)
      BY <2>4 DEF Clashes
    <3>2. CASE a \in Visited /\ b \in Visited
      BY <3>1, <3>2 DEF Clashes
    <3>3. CASE a \in Visited /\ b = e
      BY <3>1, <3>3 DEF Marked
    <3>4. CASE a = e /\ b \in Visited
      <4>1. Clash(b, e)
        BY <1>1, <3>1, <3>4, ClashSymmetric
      <4> QED
        BY <3>1, <3>4, <4>1 DEF Marked
    <3> QED
      BY <3>1, <3>2, <3>3, <3>4
  <2> QED
    BY <2>1, <2>2, <2>3, <2>4
<1>8. reason' \in [Fixes -> Reasons]
  BY <1>2, <1>3 DEF Reasons
<1>9. Visited' = both
  BY VisitedMore
<1> QED
  BY <1>6, <1>7, <1>8, <1>9, SelectionSame DEF Found, Clashes

(* The edits that are left stay in order. *)
LEMMA VisitedOrder ==
  ASSUME NEW e, At(e), selections' = selections, edits' = edits \ {e}
  PROVE  /\ edits' \subseteq All' /\ \A d \in Visited', f \in edits' : Before(d, f)
         /\ \A f \in edits' : f \in All /\ e.start <= f.start
<1>1. edits \subseteq All /\ e \in All /\ selections \in Seq(Shapes)
  BY AtEdit
<1>2. \A f \in edits' : Before(e, f)
  BY DEF At
<1>3. \A d \in Visited, f \in edits : Before(d, f)
  BY DEF At, CoordinateInv, SweepInv
<1>4. \A d \in Visited', f \in edits' : Before(d, f)
  BY <1>2, <1>3, VisitedMore
<1>5. ASSUME NEW f \in edits' PROVE f \in All /\ e.start <= f.start
  <2>1. f \in All /\ Before(e, f)
    BY <1>1, <1>2
  <2>2. e.start \in Nat /\ f.start \in Nat
    BY <1>1, <2>1, EditTypes
  <2> QED
    BY <2>1, <2>2 DEF Before
<1> QED
  BY <1>1, <1>4, <1>5, SelectionSame

LEMMA InsertSweeps ==
  ASSUME NEW e, At(e), Inserts(e), Insert(e), UNCHANGED <<selections, phase>>,
         edits' = edits \ {e}
  PROVE  /\ SweepInv' /\ Found(Visited)' /\ reason' \in [Fixes -> Reasons]
         /\ insertions' \in [Offsets -> Fixes \cup {0}]
         /\ active' \in {None, active}
<1> DEFINE current == ActiveAt(e)
           twice == IF insertions[e.start] = 0 THEN {} ELSE {insertions[e.start], e.fix}
           inside == IF current.fix # 0 /\ e.start > current.start
                     THEN {current.fix, e.fix} ELSE {}
<1>1. /\ Mark(twice \cup inside) /\ active' = current
      /\ insertions' = IF insertions[e.start] = 0 THEN [insertions EXCEPT ![e.start] = e.fix]
                       ELSE insertions
  BY DEF Insert
<1>2. Marked(e, twice \cup inside)
  BY InsertMarks
<1> HIDE DEF twice, inside
<1>3. Found(Visited)' /\ reason' \in [Fixes -> Reasons]
  BY <1>1, <1>2, MarkedFound
<1>4. /\ selections \in Seq(Shapes) /\ e \in All
      /\ insertions \in [Offsets -> Fixes \cup {0}]
  BY AtEdit DEF At, CoordinateInv, TypeOK
<1>5. e.start \in Offsets /\ e.fix \in Fixes /\ e.fix # 0 /\ e.start = e.end
  BY <1>4, EditTypes DEF Inserts
<1>6. insertions' \in [Offsets -> Fixes \cup {0}]
  BY <1>1, <1>4, <1>5
<1>7. Visited' = Visited \cup {e} /\ ~Replaces(e)
  BY <1>4, <1>5, VisitedMore, EditTypes DEF Replaces
<1>8. /\ \A d \in Visited : Inserts(d) => insertions[d.start] # 0
      /\ \A p \in Offsets : insertions[p] # 0 =>
           \E d \in Visited : Inserts(d) /\ d.start = p /\ d.fix = insertions[p]
  BY DEF At, CoordinateInv, SweepInv
<1>9. \A d \in Visited : d.start \in Offsets
  BY <1>4, EditTypes, AtEdit
<1>10. \A d \in Visited' : Inserts(d) => insertions'[d.start] # 0
  BY <1>1, <1>4, <1>5, <1>7, <1>8, <1>9
<1>11. ASSUME NEW p \in Offsets, insertions'[p] # 0
       PROVE  \E d \in Visited' : Inserts(d) /\ d.start = p /\ d.fix = insertions'[p]
  <2>1. CASE insertions'[p] = insertions[p]
    BY <1>7, <1>8, <1>11, <2>1
  <2>2. CASE insertions'[p] # insertions[p]
    <3>1. p = e.start /\ insertions'[p] = e.fix
      BY <1>1, <1>4, <1>5, <2>2
    <3> QED
      BY <1>7, <3>1
  <2> QED
    BY <2>1, <2>2
<1>12. active'.fix # 0 =>
         \E d \in Visited' :
           Replaces(d) /\ d.fix = active'.fix /\ d.start = active'.start /\ d.end = active'.end
  BY <1>1, <1>7, ActiveCovers
<1>13. ASSUME NEW d \in Visited', NEW f \in edits', Replaces(d), f.start < d.end
       PROVE  active'.fix # 0 /\ d.end <= active'.end
  <2>1. d \in Visited /\ d \in All /\ f \in All /\ e.start <= f.start
    BY <1>7, <1>13, AtEdit, VisitedOrder
  <2>2. e.start < d.end
    <3>1. e.start \in Nat /\ f.start \in Nat /\ d.end \in Nat
      BY <1>4, <2>1, EditTypes
    <3> QED
      BY <1>13, <2>1, <3>1
  <2> QED
    BY <1>1, <1>13, <2>1, <2>2, ActiveCovers
<1>14. SweepInv'
  BY <1>10, <1>11, <1>12, <1>13, VisitedOrder DEF SweepInv
<1> QED
  BY <1>1, <1>3, <1>6, <1>14, ActiveCovers

LEMMA OverwriteSweeps ==
  ASSUME NEW e, At(e), Replaces(e), Overwrite(e), UNCHANGED <<selections, phase>>,
         edits' = edits \ {e}
  PROVE  /\ SweepInv' /\ Found(Visited)' /\ reason' \in [Fixes -> Reasons]
         /\ insertions' = insertions
         /\ active' \in {None, active, [fix |-> e.fix, start |-> e.start, end |-> e.end]}
<1> DEFINE current == ActiveAt(e)
           fixes == IF current.fix # 0 /\ e.start < current.end THEN {current.fix, e.fix} ELSE {}
           this == [fix |-> e.fix, start |-> e.start, end |-> e.end]
<1>1. Mark(fixes) /\ insertions' = insertions /\ active' = Furthest(current, e)
  BY DEF Overwrite
<1>2. Marked(e, fixes)
  BY OverwriteMarks
<1> HIDE DEF fixes
<1>3. Found(Visited)' /\ reason' \in [Fixes -> Reasons]
  BY <1>1, <1>2, MarkedFound
<1>4. selections \in Seq(Shapes) /\ e \in All /\ Visited \subseteq All
  BY AtEdit
<1>5. /\ e.fix \in Nat \ {0} /\ e.start \in Nat /\ e.end \in Nat
      /\ ~Inserts(e) /\ Visited' = Visited \cup {e}
  BY <1>4, EditTypes, VisitedMore DEF Inserts, Replaces
<1>6. \A d \in Visited : d.end \in Nat
  BY <1>4, EditTypes
<1>7. current.end \in Nat
  <2>1. active.end \in Nat /\ None.end \in Nat
    BY LengthAssumption DEF At, CoordinateInv, TypeOK, Offsets, None
  <2> QED
    BY <2>1, ActiveCovers
<1>8. /\ current.fix # 0 =>
           \E w \in Visited : Replaces(w) /\ w.fix = current.fix /\ w.start = current.start
                              /\ w.end = current.end
      /\ \A d \in Visited :
           Replaces(d) /\ e.start < d.end => current.fix # 0 /\ d.end <= current.end
      /\ current \in {None, active}
  BY ActiveCovers
<1> HIDE DEF current
<1>9. /\ current.fix = 0 \/ e.end > current.end => active' = this
      /\ ~(current.fix = 0 \/ e.end > current.end) => active' = current
  BY <1>1 DEF Furthest
<1>10. /\ \A d \in Visited' : Inserts(d) => insertions'[d.start] # 0
       /\ \A p \in Offsets : insertions'[p] # 0 =>
            \E d \in Visited' : Inserts(d) /\ d.start = p /\ d.fix = insertions'[p]
  BY <1>1, <1>5 DEF At, CoordinateInv, SweepInv
<1>11. active'.fix # 0 =>
         \E d \in Visited' :
           Replaces(d) /\ d.fix = active'.fix /\ d.start = active'.start /\ d.end = active'.end
  <2>1. CASE active' = this
    BY <1>5, <2>1
  <2>2. CASE active' = current
    BY <1>5, <1>8, <2>2
  <2> QED
    BY <1>9, <2>1, <2>2
<1>12. ASSUME NEW d \in Visited', NEW f \in edits', Replaces(d), f.start < d.end
       PROVE  active'.fix # 0 /\ d.end <= active'.end
  <2>1. f \in All /\ e.start <= f.start /\ f.start \in Nat
    BY <1>4, EditTypes, VisitedOrder
  <2>2. CASE d = e
    BY <1>5, <1>7, <1>9, <2>2
  <2>3. CASE d \in Visited
    <3>1. e.start < d.end
      BY <1>5, <1>6, <1>12, <2>1, <2>3
    <3>2. current.fix # 0 /\ d.end <= current.end
      BY <1>8, <1>12, <2>3, <3>1
    <3>3. CASE e.end > current.end
      BY <1>5, <1>6, <1>7, <1>9, <2>3, <3>2, <3>3
    <3>4. CASE ~(e.end > current.end)
      BY <1>9, <3>2, <3>4
    <3> QED
      BY <3>3, <3>4
  <2> QED
    BY <1>5, <2>2, <2>3
<1>13. SweepInv'
  BY <1>10, <1>11, <1>12, VisitedOrder DEF SweepInv
<1> QED
  BY <1>1, <1>3, <1>8, <1>9, <1>13

-----------------------------------------------------------------------------
(* The invariant                                                            *)

LEMMA InitInv == Init => CoordinateInv
<1> SUFFICES ASSUME Init PROVE CoordinateInv
  OBVIOUS
<1>1. selections \in Seq(Shapes)
  BY LengthAssumption DEF Init
<1>2. /\ phase = "prepare" /\ reason = [i \in Fixes |-> "none"] /\ edits = {}
      /\ insertions = [p \in Offsets |-> 0] /\ active = None /\ applied = {}
  BY DEF Init
<1>3. active \in [fix : Fixes \cup {0}, start : Offsets, end : Offsets]
  BY <1>2, LengthAssumption DEF None, Offsets
<1>4. TypeOK
  BY <1>1, <1>2, <1>3 DEF TypeOK, Reasons
<1> QED
  BY <1>2, <1>4 DEF CoordinateInv, SweepInv, FoundInv

(* Nothing has been visited, and only imports conflict. *)
LEMMA PrepareStep == ASSUME CoordinateInv, Prepare PROVE CoordinateInv'
<1> DEFINE refusals == [i \in Fixes |-> Refusal(selections[i])]
<1>1. {i \in Fixes : refusals[i] = "none"} = Candidates
  BY DEF Candidates
<1>2. /\ phase = "prepare" /\ phase' = "sweep" /\ edits' = All
      /\ reason' = [i \in Fixes |->
           IF i \in ImportConflicts(Candidates) THEN "conflict" ELSE refusals[i]]
      /\ UNCHANGED <<selections, insertions, active, bytes, applied>>
  BY <1>1 DEF Prepare, All
<1>3. selections \in Seq(Shapes)
  BY DEF CoordinateInv, TypeOK
<1>4. \A i \in Fixes : Refusal(selections[i]) \in Reasons \ {"conflict", "validation"}
  BY <1>3, SelectionsOf, RefusalType
<1>5. ImportConflicts(Candidates) \subseteq Candidates /\ Candidates \subseteq Fixes
  BY DEF ImportConflicts, Candidates
<1>6. reason' \in [Fixes -> Reasons]
  BY <1>2, <1>4 DEF Reasons
<1>7. \A e \in edits' : e.fix \in Fixes
  BY <1>2, <1>3, EditTypes
<1>8. TypeOK'
  BY <1>2, <1>6, <1>7, SelectionSame DEF CoordinateInv, TypeOK
<1>9. Visited' = {}
  BY <1>2, SelectionSame DEF Visited
<1>10. insertions' = [p \in Offsets |-> 0] /\ active'.fix = 0
  BY <1>2 DEF CoordinateInv, FoundInv, None
<1>11. SweepInv'
  BY <1>2, <1>9, <1>10, SelectionSame DEF SweepInv
<1>12. Found(Visited)'
  <2>1. \A i \in Fixes \ Candidates : reason'[i] = Refusal(selections[i])
    BY <1>2, <1>5
  <2>2. \A i \in Candidates : reason'[i] = "conflict" <=> i \in ImportConflicts(Candidates)
    BY <1>2, <1>4, <1>5
  <2>3. \A i : ~Clashes(i, {})
    BY DEF Clashes
  <2> QED
    BY <1>2, <1>9, <2>1, <2>2, <2>3, SelectionSame DEF Found, Clashes
<1> QED
  BY <1>2, <1>8, <1>11, <1>12 DEF CoordinateInv, FoundInv

LEMMA SweepStep == ASSUME CoordinateInv, Sweep PROVE CoordinateInv'
<1>1. PICK e : e = FirstEdit(edits)
  OBVIOUS
<1>2. /\ phase = "sweep" /\ edits # {} /\ edits' = edits \ {e}
      /\ IF e.start = e.end THEN Insert(e) ELSE Overwrite(e)
      /\ UNCHANGED <<selections, phase, bytes, applied>>
  BY <1>1 DEF Sweep
<1>3. At(e)
  BY <1>1, <1>2, AtFirst
<1>4. /\ selections \in Seq(Shapes) /\ e \in All /\ edits \subseteq All
      /\ e.fix \in Fixes /\ e.start \in Offsets /\ e.end \in Offsets
      /\ Inserts(e) \/ Replaces(e)
  BY <1>3, AtEdit, EditTypes, ClashWhen
<1>5. e.start \in Nat /\ e.end \in Nat
  BY <1>4, EditTypes
<1>6. /\ SweepInv' /\ Found(Visited)' /\ reason' \in [Fixes -> Reasons]
      /\ insertions' \in [Offsets -> Fixes \cup {0}]
      /\ active' \in {None, active, [fix |-> e.fix, start |-> e.start, end |-> e.end]}
  <2>1. CASE Inserts(e)
    <3>1. Insert(e)
      BY <1>2, <2>1 DEF Inserts
    <3> QED
      BY <1>2, <1>3, <2>1, <3>1, InsertSweeps
  <2>2. CASE Replaces(e)
    <3>1. Overwrite(e)
      BY <1>2, <1>5, <2>2 DEF Replaces
    <3>2. insertions \in [Offsets -> Fixes \cup {0}]
      BY DEF CoordinateInv, TypeOK
    <3> QED
      BY <1>2, <1>3, <2>2, <3>1, <3>2, OverwriteSweeps
  <2> QED
    BY <1>4, <2>1, <2>2
<1>7. active' \in [fix : Fixes \cup {0}, start : Offsets, end : Offsets]
  <2>1. None \in [fix : Fixes \cup {0}, start : Offsets, end : Offsets]
    BY LengthAssumption DEF None, Offsets
  <2>2. active \in [fix : Fixes \cup {0}, start : Offsets, end : Offsets]
    BY DEF CoordinateInv, TypeOK
  <2>3. [fix |-> e.fix, start |-> e.start, end |-> e.end]
          \in [fix : Fixes \cup {0}, start : Offsets, end : Offsets]
    BY <1>4
  <2> QED
    BY <1>6, <2>1, <2>2, <2>3
<1>8. \A f \in edits' : f.fix \in Fixes
  BY <1>2, <1>4, EditTypes
<1>9. TypeOK'
  BY <1>2, <1>6, <1>7, <1>8, SelectionSame DEF CoordinateInv, TypeOK
<1> QED
  BY <1>2, <1>6, <1>9 DEF CoordinateInv, FoundInv

LEMMA AcceptStep == ASSUME CoordinateInv, Accept PROVE CoordinateInv'
<1>1. /\ phase = "sweep" /\ edits = {} /\ phase' \in {"splice", "done"}
      /\ edits' = EditsOf(Prepared)
      /\ UNCHANGED <<selections, reason, insertions, active, bytes, applied>>
  BY DEF Accept
<1>2. Visited = All /\ Found(All)
  BY <1>1 DEF Visited, CoordinateInv, FoundInv
<1>3. ASSUME NEW e \in edits' PROVE e.fix \in Fixes
  <2>1. PICK i \in Prepared : \E k \in DOMAIN selections[i].edits : e = Made(i, k)
    BY <1>1, EditMade
  <2> QED
    BY <2>1 DEF Made, Prepared
<1>4. TypeOK'
  BY <1>1, <1>3, SelectionSame DEF CoordinateInv, TypeOK
<1>5. Found(All)'
  BY <1>1, <1>2, SelectionSame DEF Found, Clashes
<1> QED
  BY <1>1, <1>4, <1>5 DEF CoordinateInv, SweepInv, FoundInv

LEMMA SpliceStep == ASSUME CoordinateInv, Splice PROVE CoordinateInv'
<1>1. /\ phase = "splice" /\ edits' \subseteq edits
      /\ UNCHANGED <<selections, phase, reason, insertions, active, applied>>
  BY DEF Splice
<1>2. Found(All)'
  BY <1>1, SelectionSame DEF CoordinateInv, FoundInv, Found, Clashes
<1>3. TypeOK'
  BY <1>1, SelectionSame DEF CoordinateInv, TypeOK
<1> QED
  BY <1>1, <1>2, <1>3 DEF CoordinateInv, SweepInv, FoundInv

(* What is rejected as a whole had no reason before. *)
LEMMA ConcludeStep == ASSUME CoordinateInv, Conclude PROVE CoordinateInv'
<1>1. /\ phase = "splice" /\ phase' = "done"
      /\ UNCHANGED <<selections, edits, insertions, active>>
      /\ Validated \/ Rejected
  BY DEF Conclude
<1>2. reason \in [Fixes -> Reasons] /\ applied \subseteq Fixes
  BY DEF CoordinateInv, TypeOK
<1>3. /\ reason' \in [Fixes -> Reasons] /\ applied' \subseteq Fixes
      /\ \A i \in Fixes :
           reason'[i] = reason[i] \/ (reason[i] = "none" /\ reason'[i] = "validation")
  <2>1. CASE Validated
    BY <1>2, <2>1 DEF Validated, Prepared
  <2>2. CASE Rejected
    BY <1>2, <2>2 DEF Rejected, Prepared, Reasons
  <2> QED
    BY <1>1, <2>1, <2>2
<1>4. TypeOK'
  BY <1>1, <1>3, SelectionSame DEF CoordinateInv, TypeOK
<1>5. Found(All)
  BY <1>1 DEF CoordinateInv, FoundInv
<1>6. \A i \in Fixes \ Candidates : reason'[i] = Refusal(selections[i])
  BY <1>3, <1>5 DEF Found, Candidates
<1>7. \A i \in Candidates : reason'[i] = "conflict" <=> reason[i] = "conflict"
  BY <1>3 DEF Candidates
<1>8. Found(All)'
  BY <1>1, <1>5, <1>6, <1>7, SelectionSame DEF Found, Clashes
<1> QED
  BY <1>1, <1>4, <1>8 DEF CoordinateInv, SweepInv, FoundInv

LEMMA StutterStep == ASSUME CoordinateInv, UNCHANGED vars PROVE CoordinateInv'
<1>1. UNCHANGED <<selections, phase, reason, edits, insertions, active, applied>>
  BY DEF vars
<1>2. Visited' = Visited
  BY <1>1, SelectionSame DEF Visited
<1>3. TypeOK'
  BY <1>1, SelectionSame DEF CoordinateInv, TypeOK
<1>4. SweepInv'
  BY <1>1, <1>2, SelectionSame DEF CoordinateInv, SweepInv
<1>5. FoundInv'
  BY <1>1, <1>2, SelectionSame DEF CoordinateInv, FoundInv, Found, Clashes
<1> QED
  BY <1>3, <1>4, <1>5 DEF CoordinateInv

LEMMA NextInv == CoordinateInv /\ [Next]_vars => CoordinateInv'
<1> SUFFICES ASSUME CoordinateInv, [Next]_vars PROVE CoordinateInv'
  OBVIOUS
<1>1. CASE Prepare
  BY <1>1, PrepareStep
<1>2. CASE Sweep
  BY <1>2, SweepStep
<1>3. CASE Accept
  BY <1>3, AcceptStep
<1>4. CASE Splice
  BY <1>4, SpliceStep
<1>5. CASE Conclude
  BY <1>5, ConcludeStep
<1>6. CASE UNCHANGED vars
  BY <1>6, StutterStep
<1> QED
  BY <1>1, <1>2, <1>3, <1>4, <1>5, <1>6 DEF Next

(* The state is well typed. *)
THEOREM TypeCorrect == Spec => []TypeOK
<1>1. CoordinateInv => TypeOK
  BY DEF CoordinateInv
<1> QED
  BY <1>1, InitInv, NextInv, PTL DEF Spec

LEMMA InvFinds == CoordinateInv => SweepFindsClashes
<1> SUFFICES ASSUME CoordinateInv, phase \notin {"prepare", "sweep"}, NEW i \in Candidates
             PROVE  (reason[i] = "conflict")
                      <=> \/ i \in ImportConflicts(Candidates)
                          \/ \E a, b \in All : a # b /\ a.fix = i /\ Clash(a, b)
  BY DEF SweepFindsClashes, Candidates, All
<1>1. phase \in {"splice", "done"}
  BY DEF CoordinateInv, TypeOK
<1>2. Found(All)
  BY <1>1 DEF CoordinateInv, FoundInv
<1> QED
  BY <1>2 DEF Found, Clashes

(* conflictingCandidates compares an edit with one replacement and one insertion only, *)
(* and yet marks every fix that has an edit which clashes with another, or an import    *)
(* that disagrees with another, and no other fix.                                        *)
THEOREM SweepExact == Spec => []SweepFindsClashes
BY InitInv, NextInv, InvFinds, PTL DEF Spec

-----------------------------------------------------------------------------
(* Characters and edits that do not clash                                   *)

LEMMA InputIs ==
  /\ Input \in Seq(Range(Input)) /\ Len(Input) = Length
  /\ \A n \in 1..Length :
       /\ Input[n] \in Range(Input) /\ Input[n].fix = 0 /\ Input[n].number = n
       /\ Input[n].start = n - 1 /\ Input[n].end = n
  /\ \A c \in Range(Input) : \E n \in 1..Length : c = Input[n]
<1> DEFINE Char(n) == [fix |-> 0, number |-> n, start |-> n - 1, end |-> n, deletes |-> FALSE]
<1>1. Input = [n \in 1..Length |-> Char(n)]
  BY DEF Input
<1>2. DOMAIN Input = 1..Length /\ \A n \in 1..Length : Input[n] = Char(n)
  BY <1>1
<1>3. Range(Input) = {Input[n] : n \in 1..Length}
  BY <1>2 DEF Range
<1>4. Input \in [1..Length -> Range(Input)]
  <2>1. Input = [n \in 1..Length |-> Input[n]]
    BY <1>1, <1>2
  <2> QED
    BY <1>3, <2>1
<1>5. Input \in Seq(Range(Input))
  BY <1>4, LengthAssumption
<1>6. Len(Input) = Length
  BY <1>2, <1>5, LengthAssumption
<1> QED
  BY <1>2, <1>3, <1>5, <1>6

(* What a file is made of has a place. *)
LEMMA ThingTypes ==
  ASSUME selections \in Seq(Shapes), NEW x \in Things
  PROVE  /\ x.start \in Nat /\ x.end \in Nat /\ x.fix \in Nat /\ x.number \in Nat
         /\ x \in All => x.fix # 0
         /\ x \in Range(Input) => x.fix = 0
<1>1. CASE x \in All
  <2>1. x.fix \in Nat \ {0}
    BY <1>1, EditTypes
  <2>2. x \notin Range(Input)
    BY <2>1, InputIs
  <2> QED
    BY <1>1, <2>1, <2>2, EditTypes
<1>2. CASE x \in Range(Input) /\ x \notin All
  BY <1>2, InputIs, LengthAssumption
<1> QED
  BY <1>1, <1>2 DEF Things

LEMMA NotBeforeItself ==
  ASSUME selections \in Seq(Shapes), NEW x \in Things
  PROVE  ~Before(x, x)
BY ThingTypes DEF Before

(* Of two edits that do not clash the earlier one ends where the other starts, or before. *)
LEMMA Apart ==
  ASSUME selections \in Seq(Shapes), NEW a \in All, NEW b \in All, a # b,
         ~Clash(a, b), Before(a, b)
  PROVE  a.end <= b.start
<1>1. /\ a.start \in Nat /\ a.end \in Nat /\ a.start <= a.end
      /\ b.start \in Nat /\ b.end \in Nat /\ b.start <= b.end
  BY EditTypes
<1>2. a.start < b.start \/ (a.start = b.start /\ a.end <= b.end)
  BY <1>1 DEF Before
<1>3. Inserts(b) \/ Replaces(b)
  BY ClashWhen
<1>4. CASE Inserts(a)
  BY <1>1, <1>2, <1>4 DEF Inserts
<1>5. CASE Replaces(a) /\ Inserts(b)
  <2>1. ~(a.start < b.start /\ b.start < a.end)
    BY <1>5, ClashWhen
  <2> QED
    BY <1>1, <1>2, <1>5, <2>1 DEF Inserts, Replaces
<1>6. CASE Replaces(a) /\ Replaces(b)
  <2>1. ~(a.start < b.end /\ b.start < a.end)
    BY <1>6, ClashWhen
  <2> QED
    BY <1>1, <1>2, <1>6, <2>1 DEF Replaces
<1> QED
  BY <1>3, <1>4, <1>5, <1>6, ClashWhen

(* Edits that do not clash differ in start or end. *)
LEMMA PlacesDiffer ==
  ASSUME selections \in Seq(Shapes), NEW a \in All, NEW b \in All, a # b, ~Clash(a, b)
  PROVE  a.start # b.start \/ a.end # b.end
<1>1. /\ a.start \in Nat /\ a.end \in Nat /\ b.start \in Nat /\ b.end \in Nat
      /\ a.start <= a.end /\ b.start <= b.end
  BY EditTypes
<1>2. SUFFICES ASSUME a.start = b.start, a.end = b.end PROVE FALSE
  OBVIOUS
<1>3. CASE Inserts(a)
  BY <1>2, <1>3, ClashWhen DEF Inserts
<1>4. CASE Replaces(a)
  BY <1>1, <1>2, <1>4, ClashWhen DEF Replaces
<1> QED
  BY <1>3, <1>4, ClashWhen

LEMMA GreatestNumber ==
  ASSUME NEW S, S \subseteq Nat, S # {}, NEW bound \in Nat, \A n \in S : n <= bound
  PROVE  \E n \in S : \A m \in S : m <= n
<1>1. {bound - n : n \in S} \subseteq Nat /\ {bound - n : n \in S} # {}
  OBVIOUS
<1>2. PICK k \in {bound - n : n \in S} : \A m \in {bound - n : n \in S} : k <= m
  BY <1>1, LeastNumber
<1>3. PICK n \in S : k = bound - n
  BY <1>2
<1>4. ASSUME NEW m \in S PROVE m <= n
  <2>1. k <= bound - m
    BY <1>2
  <2> QED
    BY <1>3, <2>1
<1> QED
  BY <1>4

(* There is a last edit, of edits that do not clash. *)
LEMMA LastIn ==
  ASSUME selections \in Seq(Shapes), NEW set, set \subseteq All, set # {},
         \A a, b \in set : a # b => ~Clash(a, b)
  PROVE  /\ LastEdit(set) \in set
         /\ \A other \in set \ {LastEdit(set)} : Before(other, LastEdit(set))
<1>1. \A e \in set : /\ e.start \in Nat /\ e.end \in Nat
                     /\ e.start <= Length /\ e.end <= Length
  BY EditTypes, LengthAssumption DEF Offsets
<1>2. PICK a \in {e.start : e \in set} : \A m \in {e.start : e \in set} : m <= a
  <2>1. {e.start : e \in set} \subseteq Nat /\ {e.start : e \in set} # {}
    BY <1>1
  <2>2. \A m \in {e.start : e \in set} : m <= Length
    BY <1>1
  <2> QED
    BY <2>1, <2>2, GreatestNumber, LengthAssumption
<1> DEFINE A == {e \in set : e.start = a}
<1>3. A # {} /\ \A e \in set : e.start <= a
  BY <1>2
<1>4. PICK b \in {e.end : e \in A} : \A m \in {e.end : e \in A} : m <= b
  <2>1. {e.end : e \in A} \subseteq Nat /\ {e.end : e \in A} # {}
    BY <1>1, <1>3
  <2>2. \A m \in {e.end : e \in A} : m <= Length
    BY <1>1
  <2> QED
    BY <2>1, <2>2, GreatestNumber, LengthAssumption
<1>5. PICK last \in A : last.end = b
  BY <1>4
<1>6. last \in set /\ last.start = a
  OBVIOUS
<1>7. ASSUME NEW other \in set \ {last} PROVE Before(other, last)
  <2>1. other.start # a \/ other.end # b
    BY <1>5, <1>6, PlacesDiffer
  <2>2. other.start <= a /\ (other.start = a => other.end <= b)
    BY <1>3, <1>4
  <2>3. other.start \in Nat /\ other.end \in Nat /\ a \in Nat /\ b \in Nat
    BY <1>1, <1>5, <1>6
  <2> QED
    BY <1>5, <1>6, <2>1, <2>2, <2>3 DEF Before
<1>8. \E e \in set : \A other \in set \ {e} : Before(other, e)
  BY <1>6, <1>7
<1> QED
  BY <1>8 DEF LastEdit

-----------------------------------------------------------------------------
(* One edit                                                                 *)

Spliced(s, e) == SubSeq(s, 1, e.start) \o NewText(e) \o SubSeq(s, e.end + 1, Len(s))
NewLength(e) == IF e.deletes THEN 0 ELSE 1

LEMMA Joined ==
  ASSUME NEW S, NEW s \in Seq(S), NEW t \in Seq(S)
  PROVE  /\ s \o t \in Seq(S) /\ Len(s \o t) = Len(s) + Len(t)
         /\ Len(s) \in Nat /\ Len(t) \in Nat
         /\ \A k \in 1..Len(s) : (s \o t)[k] = s[k]
         /\ \A k \in 1..Len(t) : (s \o t)[Len(s) + k] = t[k]
OBVIOUS

(* What is at a place after an edit. *)
LEMMA SplicedAt ==
  ASSUME NEW S, NEW s \in Seq(S), NEW e \in S, e.start \in Nat, e.end \in Nat,
         e.start <= e.end, e.end <= Len(s)
  PROVE  LET new == Spliced(s, e)
             put == NewLength(e)
         IN  /\ new \in Seq(S) /\ Len(new) = e.start + put + (Len(s) - e.end)
             /\ \A k \in 1..e.start : new[k] = s[k]
             /\ ~e.deletes => new[e.start + 1] = e
             /\ \A k \in (e.end + 1)..Len(s) : new[k - e.end + e.start + put] = s[k]
<1> DEFINE head == SubSeq(s, 1, e.start)
           text == NewText(e)
           tail == SubSeq(s, e.end + 1, Len(s))
<1>1. head \in Seq(S) /\ Len(head) = e.start /\ \A k \in 1..e.start : head[k] = s[k]
  OBVIOUS
<1>2. text \in Seq(S) /\ Len(text) = NewLength(e) /\ (~e.deletes => text[1] = e)
  BY DEF NewText, NewLength
<1>3. /\ tail \in Seq(S) /\ Len(tail) = Len(s) - e.end
      /\ \A k \in 1..(Len(s) - e.end) : tail[k] = s[k + e.end]
  OBVIOUS
<1>4. NewLength(e) \in {0, 1} /\ (~e.deletes => NewLength(e) = 1)
  BY DEF NewLength
<1>5. Spliced(s, e) = (head \o text) \o tail
  BY DEF Spliced
<1>6. Len(s) \in Nat /\ Len(s) - e.end \in Nat
  OBVIOUS
<1> HIDE DEF head, text, tail
<1> DEFINE front == head \o text
<1>7. /\ front \in Seq(S) /\ Len(front) = e.start + NewLength(e)
      /\ \A k \in 1..e.start : front[k] = s[k]
      /\ ~e.deletes => front[e.start + 1] = e
  <2>1. /\ front \in Seq(S) /\ Len(front) = e.start + NewLength(e)
        /\ \A k \in 1..e.start : front[k] = head[k]
        /\ \A k \in 1..NewLength(e) : front[e.start + k] = text[k]
    <3>1. head \in Seq(S) /\ text \in Seq(S)
      BY <1>1, <1>2
    <3>2. /\ front \in Seq(S) /\ Len(front) = Len(head) + Len(text)
          /\ \A k \in 1..Len(head) : front[k] = head[k]
          /\ \A k \in 1..Len(text) : front[Len(head) + k] = text[k]
      BY <3>1, Joined
    <3> QED
      BY <1>1, <1>2, <3>2
  <2> QED
    BY <1>1, <1>2, <1>4, <2>1
<1>8. Spliced(s, e) = front \o tail
  BY <1>5
<1> HIDE DEF front
<1> DEFINE m == e.start + NewLength(e)
<1>9. m \in Nat /\ e.start <= m /\ (~e.deletes => e.start + 1 \in 1..m)
  BY <1>4
<1>10. /\ front \o tail \in Seq(S) /\ Len(front \o tail) = m + (Len(s) - e.end)
       /\ \A k \in 1..m : (front \o tail)[k] = front[k]
       /\ \A k \in 1..(Len(s) - e.end) : (front \o tail)[m + k] = tail[k]
  <2>1. front \in Seq(S) /\ tail \in Seq(S)
    BY <1>3, <1>7
  <2> DEFINE all == front \o tail
  <2>2. /\ all \in Seq(S) /\ Len(all) = Len(front) + Len(tail)
        /\ \A k \in 1..Len(front) : all[k] = front[k]
        /\ \A k \in 1..Len(tail) : all[Len(front) + k] = tail[k]
    BY <2>1, Joined
  <2>3. Len(front) = m /\ Len(tail) = Len(s) - e.end
    BY <1>3, <1>7
  <2> HIDE DEF all, m
  <2> QED
    BY <2>2, <2>3 DEF all
<1>11. \A k \in 1..e.start : Spliced(s, e)[k] = s[k]
  BY <1>7, <1>8, <1>9, <1>10
<1>12. ~e.deletes => Spliced(s, e)[e.start + 1] = e
  BY <1>7, <1>8, <1>9, <1>10
<1>13. ASSUME NEW k \in (e.end + 1)..Len(s)
       PROVE  Spliced(s, e)[k - e.end + e.start + NewLength(e)] = s[k]
  <2>1. k - e.end \in 1..(Len(s) - e.end) /\ k \in Int
    BY <1>6
  <2>2. tail[k - e.end] = s[(k - e.end) + e.end] /\ (k - e.end) + e.end = k
    BY <1>3, <2>1
  <2>3. (front \o tail)[m + (k - e.end)] = tail[k - e.end]
    BY <1>10, <2>1
  <2>4. m + (k - e.end) = k - e.end + e.start + NewLength(e)
    BY <1>4, <2>1
  <2> HIDE DEF m
  <2> QED
    BY <1>8, <2>2, <2>3, <2>4
<1> QED
  BY <1>8, <1>10, <1>11, <1>12, <1>13

LEMMA ShiftedFrom ==
  \A j, start, end, put, length \in Nat :
    j > start + put /\ j <= start + put + (length - end)
      => \E k \in (end + 1)..length : j = k - end + start + put
<1> SUFFICES ASSUME NEW j \in Nat, NEW start \in Nat, NEW end \in Nat, NEW put \in Nat,
                    NEW length \in Nat,
                    j > start + put, j <= start + put + (length - end)
             PROVE  \E k \in (end + 1)..length : j = k - end + start + put
  OBVIOUS
<1> DEFINE k == j - start - put + end
<1>1. k \in Int /\ k >= end + 1 /\ k <= length
  OBVIOUS
<1>2. j = k - end + start + put
  OBVIOUS
<1> HIDE DEF k
<1> QED
  BY <1>1, <1>2

(* Every place after an edit is one of the three. *)
LEMMA SplicedFrom ==
  ASSUME NEW S, NEW s \in Seq(S), NEW e \in S, e.start \in Nat, e.end \in Nat,
         e.start <= e.end, e.end <= Len(s), NEW j \in 1..Len(Spliced(s, e))
  PROVE  \/ j \in 1..e.start /\ Spliced(s, e)[j] = s[j]
         \/ j = e.start + 1 /\ ~e.deletes /\ Spliced(s, e)[j] = e
         \/ \E k \in (e.end + 1)..Len(s) :
              j = k - e.end + e.start + NewLength(e) /\ Spliced(s, e)[j] = s[k]
<1>1. Len(Spliced(s, e)) = e.start + NewLength(e) + (Len(s) - e.end)
  BY SplicedAt
<1>2. NewLength(e) \in {0, 1} /\ (e.deletes => NewLength(e) = 0) /\ (~e.deletes => NewLength(e) = 1)
  BY DEF NewLength
<1>3. CASE j <= e.start
  BY <1>3, SplicedAt
<1>4. CASE j > e.start /\ j <= e.start + NewLength(e)
  <2>1. ~e.deletes /\ j = e.start + 1
    BY <1>2, <1>4
  <2> QED
    BY <2>1, SplicedAt
<1>5. CASE j > e.start + NewLength(e)
  <2>1. PICK k \in (e.end + 1)..Len(s) : j = k - e.end + e.start + NewLength(e)
    <3>1. j \in Nat /\ NewLength(e) \in Nat /\ Len(s) \in Nat
      BY <1>1, <1>2
    <3>2. j > e.start + NewLength(e) /\ j <= e.start + NewLength(e) + (Len(s) - e.end)
      BY <1>1, <1>2, <1>5
    <3>3. \A start, end, put, length \in Nat :
            j > start + put /\ j <= start + put + (length - end)
              => \E k \in (end + 1)..length : j = k - end + start + put
      BY <3>1, ShiftedFrom
    <3>4. \A put, length \in Nat :
            j > e.start + put /\ j <= e.start + put + (length - e.end)
              => \E k \in (e.end + 1)..length : j = k - e.end + e.start + put
      BY <3>3
    <3> QED
      BY <3>1, <3>2, <3>4
  <2>2. \A i \in (e.end + 1)..Len(s) : Spliced(s, e)[i - e.end + e.start + NewLength(e)] = s[i]
    BY SplicedAt
  <2>3. Spliced(s, e)[j] = s[k]
    BY <2>1, <2>2
  <2> QED
    BY <2>1, <2>3
<1>6. j <= e.start \/ j > e.start
  OBVIOUS
<1> QED
  BY <1>2, <1>3, <1>4, <1>5

(* The edits that were made, the one that is made next, which is before all of them, and *)
(* the text they have left.                                                               *)
NextEdit(made, e, text) ==
  /\ made \subseteq All /\ e \in All /\ e \notin made
  /\ \A d \in made : Before(e, d) /\ e.end <= d.start
  /\ text \in Seq(Things) /\ Range(text) = Pieces(made) /\ InOrder(text)
  /\ e.end <= Len(text) /\ \A n \in 1..e.end : text[n] = Input[n]

LEMMA PieceOf ==
  ASSUME NEW set, NEW x
  PROVE  x \in Pieces(set) <=>
           \/ x \in Range(Input) /\ \A d \in set : ~(d.start <= x.start /\ x.start < d.end)
           \/ x \in set /\ ~x.deletes
BY DEF Pieces

LEMMA TextAt ==
  ASSUME NEW s, NEW S, s \in Seq(S)
  PROVE  /\ Len(s) \in Nat /\ DOMAIN s = 1..Len(s)
         /\ \A k \in 1..Len(s) : s[k] \in S /\ s[k] \in Range(s)
         /\ \A x \in Range(s) : \E k \in 1..Len(s) : x = s[k]
BY DEF Range

LEMMA NextEditTypes ==
  ASSUME selections \in Seq(Shapes), NEW made, NEW e, NEW text, NextEdit(made, e, text)
  PROVE  /\ e.start \in Nat /\ e.end \in Nat /\ e.start <= e.end /\ e.end <= Length
         /\ e.end <= Len(text) /\ Len(text) \in Nat /\ e \in Things /\ text \in Seq(Things)
         /\ Things = All \cup Range(Input)
<1>1. e \in All /\ e.start \in Offsets /\ e.end \in Offsets /\ e.start <= e.end
  BY EditTypes DEF NextEdit
<1> QED
  BY <1>1, LengthAssumption DEF Offsets, NextEdit, Things

(* What is before the edit is a character of the input, before the edit. *)
LEMMA HeadIs ==
  ASSUME selections \in Seq(Shapes), NEW made, NEW e, NEW text, NextEdit(made, e, text),
         NEW k \in 1..e.end
  PROVE  /\ text[k] = Input[k] /\ text[k] \in Range(Input) /\ text[k] \notin All
         /\ text[k].start = k - 1 /\ text[k].end = k /\ k \in 1..Len(text)
         /\ k <= e.start => Before(text[k], e)
<1>1. /\ e.start \in Nat /\ e.end \in Nat /\ e.start <= e.end /\ e.end <= Length
      /\ e.end <= Len(text) /\ Len(text) \in Nat
  BY NextEditTypes
<1>2. text[k] = Input[k]
  BY DEF NextEdit
<1>3. k \in 1..Length /\ k \in 1..Len(text)
  BY <1>1, LengthAssumption
<1>4. /\ Input[k] \in Range(Input) /\ Input[k].fix = 0
      /\ Input[k].start = k - 1 /\ Input[k].end = k
  BY <1>3, InputIs
<1>5. Input[k] \notin All
  BY <1>4, EditTypes
<1>6. k <= e.start => k - 1 < e.start
  BY <1>1, <1>3
<1> QED
  BY <1>2, <1>3, <1>4, <1>5, <1>6 DEF Before

(* What is behind the edit is an edit that was made, or a character that begins no *)
(* sooner than the edit ends.                                                       *)
LEMMA TailIs ==
  ASSUME selections \in Seq(Shapes), NEW made, NEW e, NEW text, NextEdit(made, e, text),
         NEW k \in (e.end + 1)..Len(text)
  PROVE  /\ text[k] \in Pieces(made) /\ Before(e, text[k]) /\ e.end <= text[k].start
         /\ k \in 1..Len(text)
<1>1. /\ e.start \in Nat /\ e.end \in Nat /\ e.start <= e.end /\ e.end <= Length
      /\ e.end <= Len(text) /\ Len(text) \in Nat /\ text \in Seq(Things)
  BY NextEditTypes
<1>2. k \in 1..Len(text)
  BY <1>1
<1>3. text[k] \in Pieces(made) /\ text[k] \in Things
  BY <1>1, <1>2, TextAt DEF NextEdit
<1>4. CASE text[k] \in made
  BY <1>2, <1>3, <1>4 DEF NextEdit
<1>5. CASE text[k] \in Range(Input)
  <2>1. PICK n \in 1..Length : text[k] = Input[n]
    BY <1>5, InputIs
  <2>2. n \in Nat /\ text[k].start = n - 1 /\ text[k].end = n
    BY <2>1, LengthAssumption, InputIs
  <2>3. ~(n <= e.end)
    <3>1. SUFFICES ASSUME n <= e.end PROVE FALSE
      OBVIOUS
    <3>2. n \in 1..e.end
      BY <1>1, <3>1, LengthAssumption
    <3>3. text[n] = text[k] /\ n \in 1..Len(text)
      BY <2>1, <3>2, HeadIs
    <3>4. n < k
      BY <1>1, <1>2, <2>2, <3>1
    <3>5. Before(text[n], text[k])
      BY <1>1, <1>2, <3>3, <3>4, TextAt DEF NextEdit, InOrder
    <3> QED
      BY <1>3, <3>3, <3>5, NotBeforeItself
  <2>4. e.end <= text[k].start /\ text[k].start < text[k].end /\ text[k].start \in Nat
    BY <1>1, <2>1, <2>2, <2>3, LengthAssumption
  <2>5. e.start < text[k].start \/ (e.start = text[k].start /\ e.end < text[k].end)
    BY <1>1, <2>2, <2>4
  <2> QED
    BY <1>2, <1>3, <2>4, <2>5 DEF Before
<1> QED
  BY <1>3, <1>4, <1>5, PieceOf

LEMMA Shifted ==
  ASSUME NEW k \in Nat, NEW start \in Nat, NEW end \in Nat, NEW put \in Nat, NEW length \in Nat,
         k >= end + 1, k <= length
  PROVE  k - end + start + put \in 1..(start + put + (length - end))
OBVIOUS

(* The edit leaves what the edits that were made and itself make of the file. *)
LEMMA EditedPieces ==
  ASSUME selections \in Seq(Shapes), NEW made, NEW e, NEW text, NextEdit(made, e, text)
  PROVE  Range(Spliced(text, e)) = Pieces(made \cup {e})
<1> DEFINE new == Spliced(text, e)
           both == made \cup {e}
<1>1. /\ e.start \in Nat /\ e.end \in Nat /\ e.start <= e.end /\ e.end <= Length
      /\ e.end <= Len(text) /\ Len(text) \in Nat /\ e \in Things /\ text \in Seq(Things)
      /\ made \subseteq All /\ e \in All /\ e \notin made
      /\ Range(text) = Pieces(made)
  BY NextEditTypes DEF NextEdit
<1>2. /\ new \in Seq(Things) /\ Len(new) = e.start + NewLength(e) + (Len(text) - e.end)
      /\ \A k \in 1..e.start : new[k] = text[k]
      /\ ~e.deletes => new[e.start + 1] = e
      /\ \A k \in (e.end + 1)..Len(text) : new[k - e.end + e.start + NewLength(e)] = text[k]
  BY <1>1, SplicedAt
<1>3. NewLength(e) \in {0, 1} /\ (~e.deletes => NewLength(e) = 1)
  BY DEF NewLength
<1>4. ASSUME NEW x \in Range(new) PROVE x \in Pieces(both)
  <2>1. PICK j \in 1..Len(new) : x = new[j]
    BY <1>2, TextAt
  <2>2. CASE j \in 1..e.start /\ x = text[j]
    <3>1. j \in 1..e.end /\ j \in 1..Len(text) /\ j <= e.start
      BY <1>1, <2>2
    <3>2. x \in Range(Input) /\ x \notin made /\ x.start = j - 1
      BY <1>1, <2>2, <3>1, HeadIs
    <3>3. x \in Pieces(made)
      BY <1>1, <2>2, <3>1, TextAt
    <3>4. ~(e.start <= x.start)
      BY <1>1, <3>1, <3>2
    <3> QED
      BY <3>2, <3>3, <3>4, PieceOf
  <2>3. CASE ~e.deletes /\ x = e
    BY <2>3, PieceOf
  <2>4. CASE \E k \in (e.end + 1)..Len(text) : x = text[k]
    <3>1. PICK k \in (e.end + 1)..Len(text) : x = text[k]
      BY <2>4
    <3>2. x \in Pieces(made) /\ e.end <= x.start /\ k \in 1..Len(text)
      BY <3>1, TailIs
    <3>3. x.start \in Nat
      BY <1>1, <3>1, <3>2, TextAt, ThingTypes
    <3>4. ~(x.start < e.end)
      BY <1>1, <3>2, <3>3
    <3> QED
      BY <3>2, <3>4, PieceOf
  <2>5. \/ j \in 1..e.start /\ x = text[j]
        \/ ~e.deletes /\ x = e
        \/ \E k \in (e.end + 1)..Len(text) : x = text[k]
    BY <1>1, <2>1, SplicedFrom
  <2> QED
    BY <2>2, <2>3, <2>4, <2>5
<1>5. ASSUME NEW x \in Pieces(both) PROVE x \in Range(new)
  <2>1. CASE x = e /\ ~e.deletes
    <3>1. e.start + 1 \in 1..Len(new)
      BY <1>1, <1>2, <1>3, <2>1
    <3> QED
      BY <1>2, <2>1, <3>1, TextAt
  <2>2. ASSUME x \in Pieces(made), x \in Range(Input) => ~(e.start <= x.start /\ x.start < e.end)
        PROVE  x \in Range(new)
    <3>1. PICK k \in 1..Len(text) : x = text[k]
      BY <1>1, <2>2, TextAt
    <3>2. CASE k <= e.start
      <4>1. k \in 1..e.start /\ k \in 1..Len(new)
        BY <1>1, <1>2, <1>3, <3>1, <3>2
      <4> QED
        BY <1>2, <3>1, <4>1, TextAt
    <3>3. CASE k > e.end
      <4> DEFINE j == k - e.end + e.start + NewLength(e)
      <4>1. k \in (e.end + 1)..Len(text) /\ j \in 1..Len(new)
        <5>1. k \in Nat /\ k >= e.end + 1 /\ k <= Len(text) /\ NewLength(e) \in Nat
          BY <1>1, <1>3, <3>1, <3>3
        <5>2. e.start \in Nat /\ e.end \in Nat /\ Len(text) \in Nat
          BY <1>1
        <5>3. j \in 1..(e.start + NewLength(e) + (Len(text) - e.end))
          BY <5>1, <5>2, Shifted
        <5>4. k \in (e.end + 1)..Len(text)
          BY <5>1, <5>2
        <5> QED
          BY <1>2, <5>3, <5>4
      <4>2. new[j] = x
        BY <1>2, <3>1, <4>1
      <4> HIDE DEF j
      <4> QED
        BY <1>2, <4>1, <4>2, TextAt
    <3>4. CASE k > e.start /\ k <= e.end
      <4>1. k \in 1..e.end
        BY <1>1, <3>1, <3>4
      <4>2. x \in Range(Input) /\ x.start = k - 1
        BY <3>1, <4>1, HeadIs
      <4>3. e.start <= x.start /\ x.start < e.end
        BY <1>1, <3>1, <3>4, <4>2
      <4> QED
        BY <2>2, <4>2, <4>3
    <3> QED
      BY <1>1, <3>1, <3>2, <3>3, <3>4
  <2>3. CASE x \in made /\ ~x.deletes
    <3>1. x \notin Range(Input)
      <4>1. x \in All /\ x \in Things
        BY <1>1, <2>3 DEF Things
      <4> QED
        BY <4>1, ThingTypes
    <3>2. x \in Pieces(made)
      BY <2>3, PieceOf
    <3> QED
      BY <2>2, <3>1, <3>2
  <2>4. CASE x \in Range(Input) /\ \A d \in both : ~(d.start <= x.start /\ x.start < d.end)
    <3>1. x \in Pieces(made)
      BY <2>4, PieceOf
    <3> QED
      BY <2>2, <2>4, <3>1
  <2>5. \/ x \in Range(Input) /\ \A d \in both : ~(d.start <= x.start /\ x.start < d.end)
        \/ x \in both /\ ~x.deletes
    BY <1>5, PieceOf
  <2> QED
    BY <2>1, <2>3, <2>4, <2>5
<1> HIDE DEF new, both
<1>6. Range(new) = Pieces(both)
  BY <1>4, <1>5
<1> QED
  BY <1>6 DEF new, both

LEMMA OrderOf ==
  ASSUME NEW S, NEW s \in Seq(S)
  PROVE  InOrder(s) <=> \A i, j \in 1..Len(s) : i < j => Before(s[i], s[j])
BY DEF InOrder

LEMMA ShiftedAfter ==
  ASSUME NEW k \in Nat, NEW start \in Nat, NEW end \in Nat, NEW put \in Nat, k > end
  PROVE  k - end + start + put \in Nat /\ k - end + start + put > start + put
OBVIOUS

LEMMA ShiftedOrder ==
  ASSUME NEW k \in Nat, NEW n \in Nat, NEW start \in Nat, NEW end \in Nat, NEW put \in Nat,
         n - end + start + put < k - end + start + put
  PROVE  n < k
OBVIOUS

(* The edit leaves the file in order, and what is before it as it was. *)
LEMMA EditedInOrder ==
  ASSUME selections \in Seq(Shapes), NEW made, NEW e, NEW text, NextEdit(made, e, text)
  PROVE  InOrder(Spliced(text, e))
<1> DEFINE new == Spliced(text, e)
           put == NewLength(e)
<1>1. /\ e.start \in Nat /\ e.end \in Nat /\ e.start <= e.end /\ e.end <= Len(text)
      /\ Len(text) \in Nat /\ e \in Things /\ text \in Seq(Things)
  BY NextEditTypes
<1>2. new \in Seq(Things)
  BY <1>1, SplicedAt
<1>3. put \in {0, 1} /\ (~e.deletes => put = 1)
  BY DEF NewLength
<1>4. \A i, j \in 1..Len(text) : i < j => Before(text[i], text[j])
  BY <1>1, OrderOf DEF NextEdit
<1> DEFINE Front(j) == j \in 1..e.start /\ new[j] = text[j]
           Put(j) == j = e.start + 1 /\ ~e.deletes /\ new[j] = e
           Behind(j, k) == /\ k \in (e.end + 1)..Len(text)
                          /\ j = k - e.end + e.start + put /\ new[j] = text[k]
<1>5. ASSUME NEW j \in 1..Len(new)
      PROVE  Front(j) \/ Put(j) \/ \E k \in (e.end + 1)..Len(text) : Behind(j, k)
  BY <1>1, SplicedFrom
<1>6. ASSUME NEW j, Front(j)
      PROVE  /\ j \in Nat /\ j <= e.start /\ j \in 1..Len(text) /\ j \in 1..e.end
             /\ Before(new[j], e) /\ new[j] = text[j]
  <2>1. j \in Nat /\ j <= e.start /\ j \in 1..Len(text) /\ j \in 1..e.end
    BY <1>1, <1>6
  <2> QED
    BY <1>6, <2>1, HeadIs
<1>7. ASSUME NEW j, NEW k, Behind(j, k)
      PROVE  /\ j \in Nat /\ k \in Nat /\ j > e.start + put /\ k > e.end
             /\ k \in 1..Len(text) /\ j = k - e.end + e.start + put
             /\ Before(e, new[j]) /\ new[j] = text[k]
  <2>1. k \in Nat /\ k > e.end /\ k \in 1..Len(text) /\ k <= Len(text)
    BY <1>1, <1>7
  <2>2. j \in Nat /\ j > e.start + put
    <3>1. e.start \in Nat /\ e.end \in Nat /\ put \in Nat /\ j = k - e.end + e.start + put
      BY <1>1, <1>3, <1>7
    <3> HIDE DEF put
    <3> QED
      BY <2>1, <3>1, ShiftedAfter
  <2> QED
    BY <1>7, <2>1, <2>2, TailIs
<1>8. ASSUME NEW j, Put(j) PROVE j = e.start + 1 /\ put = 1 /\ new[j] = e /\ j \in Nat
  BY <1>1, <1>3, <1>8
<1> HIDE DEF new, put, Front, Put, Behind
<1>9. ASSUME NEW i \in 1..Len(new), NEW j \in 1..Len(new), i < j
      PROVE  Before(new[i], new[j])
  <2>1. CASE Front(i)
    <3>1. CASE Front(j)
      BY <1>4, <1>6, <1>9, <2>1, <3>1
    <3>2. CASE Put(j)
      BY <1>6, <1>8, <2>1, <3>2
    <3>3. ASSUME NEW k, Behind(j, k) PROVE Before(new[i], new[j])
      <4>1. i < k
        BY <1>1, <1>6, <1>7, <2>1, <3>3
      <4> QED
        BY <1>4, <1>6, <1>7, <2>1, <3>3, <4>1
    <3> QED
      BY <1>5, <3>1, <3>2, <3>3
  <2>2. CASE Put(i)
    <3>1. i = e.start + 1 /\ put = 1 /\ new[i] = e
      BY <1>8, <2>2
    <3>2. ~Front(j)
      BY <1>1, <1>6, <1>9, <3>1
    <3>3. ~Put(j)
      BY <1>8, <1>9, <1>1, <3>1
    <3> QED
      BY <1>5, <1>7, <3>1, <3>2, <3>3
  <2>3. ASSUME NEW n, Behind(i, n) PROVE Before(new[i], new[j])
    <3>1. /\ i \in Nat /\ n \in Nat /\ i > e.start + put /\ n \in 1..Len(text)
          /\ i = n - e.end + e.start + put /\ new[i] = text[n]
      BY <1>7, <2>3
    <3>2. ~Front(j)
      BY <1>1, <1>3, <1>6, <1>9, <3>1
    <3>3. ~Put(j)
      BY <1>1, <1>8, <1>9, <3>1
    <3>4. PICK k : Behind(j, k)
      BY <1>5, <3>2, <3>3
    <3>5. /\ j \in Nat /\ k \in Nat /\ k \in 1..Len(text)
          /\ j = k - e.end + e.start + put /\ new[j] = text[k]
      BY <1>7, <3>4
    <3>6. n < k
      <4>1. e.start \in Nat /\ e.end \in Nat /\ put \in Nat
        BY <1>1, <1>3
      <4>2. n - e.end + e.start + put < k - e.end + e.start + put
        BY <1>9, <3>1, <3>5
      <4> QED
        BY <3>1, <3>5, <4>1, <4>2, ShiftedOrder
    <3> QED
      BY <1>4, <3>1, <3>5, <3>6
  <2> QED
    BY <1>5, <2>1, <2>2, <2>3
<1>10. InOrder(new)
  BY <1>2, <1>9, OrderOf
<1> QED
  BY <1>10 DEF new

LEMMA EditedHead ==
  ASSUME selections \in Seq(Shapes), NEW made, NEW e, NEW text, NextEdit(made, e, text)
  PROVE  /\ Spliced(text, e) \in Seq(Things) /\ e.start <= Len(Spliced(text, e))
         /\ \A n \in 1..e.start : Spliced(text, e)[n] = Input[n]
<1>1. /\ e.start \in Nat /\ e.end \in Nat /\ e.start <= e.end /\ e.end <= Len(text)
      /\ Len(text) \in Nat /\ e \in Things /\ text \in Seq(Things)
  BY NextEditTypes
<1>2. /\ Spliced(text, e) \in Seq(Things)
      /\ Len(Spliced(text, e)) = e.start + NewLength(e) + (Len(text) - e.end)
      /\ \A n \in 1..e.start : Spliced(text, e)[n] = text[n]
  BY <1>1, SplicedAt
<1>3. NewLength(e) \in {0, 1}
  BY DEF NewLength
<1>4. e.start <= Len(Spliced(text, e))
  BY <1>1, <1>2, <1>3
<1>5. ASSUME NEW n \in 1..e.start PROVE Spliced(text, e)[n] = Input[n]
  <2>1. n \in 1..e.end
    BY <1>1
  <2> QED
    BY <1>2, <2>1, HeadIs
<1> QED
  BY <1>2, <1>4, <1>5

-----------------------------------------------------------------------------
(* The edits of the accepted fixes                                          *)

LEMMA Accepted ==
  ASSUME selections \in Seq(Shapes), Found(All)
  PROVE  /\ Prepared \subseteq Candidates /\ EditsOf(Prepared) \subseteq All
         /\ \A a, b \in EditsOf(Prepared) : a # b => ~Clash(a, b)
<1>1. Prepared \subseteq Candidates
  BY DEF Prepared, Found, Candidates
<1>2. EditsOf(Prepared) \subseteq All
  BY <1>1 DEF EditsOf, All
<1>3. \A a \in EditsOf(Prepared) : a.fix \in Prepared
  BY EditMade DEF Made
<1>4. ASSUME NEW a \in EditsOf(Prepared), NEW b \in EditsOf(Prepared), a # b, Clash(a, b)
      PROVE  FALSE
  <2>1. a.fix \in Candidates /\ reason[a.fix] = "none"
    BY <1>1, <1>3 DEF Prepared
  <2>2. Clashes(a.fix, All)
    BY <1>2, <1>4 DEF Clashes
  <2> QED
    BY <2>1, <2>2 DEF Found
<1> QED
  BY <1>1, <1>2, <1>4

LEMMA PreparedSame ==
  ASSUME selections' = selections, reason' = reason
  PROVE  Prepared' = Prepared /\ EditsOf(Prepared)' = EditsOf(Prepared)
<1>1. Prepared' = Prepared
  BY DEF Prepared, Fixes
<1> QED
  BY <1>1 DEF EditsOf

LEMMA NothingMade ==
  /\ Pieces({}) = Range(Input) /\ InOrder(Input) /\ Input \in Seq(Things)
  /\ EditsOf({}) = {}
<1>1. Pieces({}) = Range(Input)
  BY DEF Pieces
<1>2. Input \in Seq(Range(Input)) /\ Len(Input) = Length
  BY InputIs
<1>3. \A i, j \in 1..Length : i < j => Before(Input[i], Input[j])
  BY InputIs, LengthAssumption DEF Before
<1>4. InOrder(Input)
  BY <1>2, <1>3, OrderOf
<1>5. Input \in Seq(Things)
  BY <1>2 DEF Things
<1>6. EditsOf({}) = {}
  BY DEF EditsOf
<1> QED
  BY <1>1, <1>4, <1>5, <1>6

-----------------------------------------------------------------------------
(* The steps keep the text                                                  *)

LEMMA InitText == Init => TextInv
BY DEF Init, TextInv, AppliedWhole

LEMMA PrepareText == ASSUME TextInv, Prepare PROVE TextInv'
BY DEF TextInv, Prepare, AppliedWhole

LEMMA SweepText == ASSUME TextInv, Sweep PROVE TextInv'
BY DEF TextInv, Sweep, AppliedWhole

(* Before the first edit the file is its characters in order. *)
LEMMA AcceptText == ASSUME CoordinateInv, TextInv, Accept PROVE TextInv'
<1>1. /\ phase = "sweep" /\ edits = {} /\ edits' = EditsOf(Prepared)
      /\ selections' = selections /\ reason' = reason
      /\ bytes' = bytes /\ applied' = applied
      /\ phase' = IF Prepared = {} THEN "done" ELSE "splice"
  BY DEF Accept
<1>2. selections \in Seq(Shapes)
  BY DEF CoordinateInv, TypeOK
<1>3. Found(All)
  <2>1. Found(Visited) /\ Visited = All
    BY <1>1 DEF CoordinateInv, FoundInv, Visited
  <2> QED
    BY <2>1 DEF Found, Clashes
<1>4. bytes = Input /\ applied = {}
  BY <1>1 DEF TextInv
<1>5. Prepared' = Prepared /\ EditsOf(Prepared)' = EditsOf(Prepared)
  BY <1>1, PreparedSame
<1>6. Input' = Input /\ Things' = All' \cup Range(Input) /\ All' = All
  BY <1>1, SelectionSame DEF Input, Things
<1>7. CASE Prepared = {}
  <2>1. phase' = "done" /\ applied' = {} /\ Prepared' = {} /\ bytes' = Input
    BY <1>1, <1>4, <1>5, <1>7
  <2>2. EditsOf(applied)' = {}
    BY <2>1 DEF EditsOf
  <2>3. Range(bytes)' = Range(Input) /\ InOrder(bytes)'
    BY <2>1, NothingMade DEF InOrder, Before
  <2>4. Pieces(EditsOf(applied))' = Range(Input)
    BY <1>6, <2>2, NothingMade DEF Pieces
  <2> QED
    BY <2>1, <2>3, <2>4 DEF TextInv, AppliedWhole
<1>8. CASE Prepared # {}
  <2>1. phase' = "splice" /\ applied' = {} /\ bytes' = Input
    BY <1>1, <1>4, <1>8
  <2>2. Done' = {} /\ edits' \subseteq EditsOf(Prepared)'
    BY <1>1, <1>5 DEF Done
  <2>3. Things' = Things
    BY <1>6 DEF Things
  <2>4. bytes' \in Seq(Things)' /\ Range(bytes)' = Range(Input) /\ InOrder(bytes)'
    BY <2>1, <2>3, NothingMade DEF InOrder, Before
  <2>5. Pieces(Done)' = Range(Input)
    BY <1>6, <2>2, NothingMade DEF Pieces
  <2>6. ASSUME NEW e \in edits'
        PROVE  e.end <= Len(bytes') /\ \A n \in 1..e.end : bytes'[n] = Input[n]
    <3>1. e \in All
      BY <1>1, <1>2, <1>3, Accepted
    <3>2. e.end <= Length
      BY <1>2, <3>1, EditTypes, LengthAssumption DEF Offsets
    <3> QED
      BY <2>1, <3>2, InputIs
  <2> QED
    BY <1>6, <2>1, <2>2, <2>3, <2>4, <2>5, <2>6 DEF TextInv, AppliedWhole
<1> QED
  BY <1>7, <1>8

(* Of the edits that are left the last is made: it is before those that were made, and *)
(* ends where the others begin, or before.                                              *)
LEMMA SpliceText == ASSUME CoordinateInv, TextInv, Splice PROVE TextInv'
<1>1. /\ phase = "splice" /\ edits # {} /\ phase' = "splice"
      /\ selections' = selections /\ reason' = reason /\ applied' = applied
      /\ edits' = edits \ {LastEdit(edits)} /\ bytes' = Spliced(bytes, LastEdit(edits))
  BY DEF Splice, Spliced
<1>2. selections \in Seq(Shapes) /\ Found(All)
  BY <1>1 DEF CoordinateInv, TypeOK, FoundInv
<1>3. /\ EditsOf(Prepared) \subseteq All
      /\ \A a, b \in EditsOf(Prepared) : a # b => ~Clash(a, b)
  BY <1>2, Accepted
<1>4. /\ applied = {} /\ edits \subseteq EditsOf(Prepared) /\ bytes \in Seq(Things)
      /\ \A d \in Done, e \in edits : Before(e, d)
      /\ Range(bytes) = Pieces(Done) /\ InOrder(bytes)
      /\ \A e \in edits : e.end <= Len(bytes) /\ \A n \in 1..e.end : bytes[n] = Input[n]
  BY <1>1 DEF TextInv
<1>5. Done \subseteq EditsOf(Prepared) /\ Done \cap edits = {}
  BY DEF Done
<1>6. PICK e : e = LastEdit(edits)
  OBVIOUS
<1>7. e \in edits /\ \A other \in edits \ {e} : Before(other, e)
  <2>1. edits \subseteq All /\ \A a, b \in edits : a # b => ~Clash(a, b)
    BY <1>3, <1>4
  <2> QED
    BY <1>1, <1>2, <1>6, <2>1, LastIn
<1>8. PICK made : made = Done
  OBVIOUS
<1>9. PICK text : text = bytes
  OBVIOUS
<1>10. NextEdit(made, e, text)
  <2>1. made \subseteq All /\ e \in All /\ e \notin made
    BY <1>3, <1>4, <1>5, <1>7, <1>8
  <2>2. ASSUME NEW d \in made PROVE Before(e, d) /\ e.end <= d.start
    <3>1. Before(e, d)
      BY <1>4, <1>7, <1>8
    <3>2. e # d /\ ~Clash(e, d)
      BY <1>3, <1>4, <1>5, <1>7, <1>8, <2>1
    <3> QED
      BY <1>2, <2>1, <3>1, <3>2, Apart
  <2>3. /\ text \in Seq(Things) /\ Range(text) = Pieces(made) /\ InOrder(text)
        /\ e.end <= Len(text) /\ \A n \in 1..e.end : text[n] = Input[n]
    BY <1>4, <1>7, <1>8, <1>9
  <2> QED
    BY <2>1, <2>2, <2>3 DEF NextEdit
<1> DEFINE new == Spliced(text, e)
<1>11. bytes' = new /\ edits' = edits \ {e}
  BY <1>1, <1>6, <1>9
<1>12. /\ Range(new) = Pieces(made \cup {e}) /\ InOrder(new)
       /\ new \in Seq(Things) /\ e.start <= Len(new) /\ \A n \in 1..e.start : new[n] = Input[n]
  BY <1>2, <1>10, EditedPieces, EditedInOrder, EditedHead
<1> HIDE DEF new
<1>13. /\ EditsOf(Prepared)' = EditsOf(Prepared) /\ Input' = Input /\ Things' = Things
  BY <1>1, PreparedSame, SelectionSame DEF Input, Things
<1>14. Done' = made \cup {e}
  BY <1>4, <1>7, <1>8, <1>11, <1>13 DEF Done
<1>15. Pieces(Done)' = Pieces(made \cup {e})
  BY <1>13, <1>14 DEF Pieces
<1>16. ASSUME NEW f \in edits' PROVE Before(f, e) /\ f.end <= e.start /\ f.end \in Nat
  <2>1. f \in edits /\ f # e /\ f \in All /\ e \in All /\ ~Clash(f, e)
    BY <1>3, <1>4, <1>7, <1>11
  <2>2. Before(f, e)
    BY <1>7, <2>1
  <2> QED
    BY <1>2, <2>1, <2>2, Apart, EditTypes
<1>17. \A d \in Done', f \in edits' : Before(f, d)
  BY <1>4, <1>8, <1>11, <1>14, <1>16
<1>18. ASSUME NEW f \in edits'
       PROVE  f.end <= Len(bytes') /\ \A n \in 1..f.end : bytes'[n] = Input[n]
  <2>1. e.start \in Nat /\ Len(new) \in Nat
    BY <1>2, <1>10, <1>12, NextEditTypes, TextAt
  <2> QED
    BY <1>11, <1>12, <1>16, <2>1
<1>19. /\ applied' = {} /\ edits' \subseteq EditsOf(Prepared)' /\ bytes' \in Seq(Things)'
       /\ Range(bytes)' = Pieces(Done)' /\ InOrder(bytes)'
  <2>1. InOrder(bytes)'
    BY <1>11, <1>12 DEF InOrder, Before
  <2>2. Range(bytes)' = Range(new)
    BY <1>11 DEF Range
  <2> QED
    BY <1>1, <1>4, <1>11, <1>12, <1>13, <1>15, <2>1, <2>2
<1>20. \A d \in Done', f \in edits' : Before(f, d)'
  BY <1>17 DEF Before
<1> QED
  BY <1>1, <1>13, <1>18, <1>19, <1>17, <1>20 DEF TextInv, AppliedWhole

LEMMA ConcludeText == ASSUME CoordinateInv, TextInv, Conclude PROVE TextInv'
<1>1. /\ phase = "splice" /\ edits = {} /\ phase' = "done" /\ selections' = selections
      /\ Validated \/ Rejected
  BY DEF Conclude
<1>2. Found(All)
  BY <1>1 DEF CoordinateInv, FoundInv
<1>3. /\ applied = {} /\ Range(bytes) = Pieces(Done) /\ InOrder(bytes)
  BY <1>1 DEF TextInv
<1>4. Done = EditsOf(Prepared)
  BY <1>1 DEF Done
<1>5. Input' = Input /\ Fixes' = Fixes
  BY <1>1 DEF Input, Fixes
<1>6. CASE Validated
  <2>1. applied' = Prepared /\ reason' = reason /\ bytes' = bytes
    BY <1>6 DEF Validated
  <2>2. Prepared' = Prepared /\ EditsOf(Prepared)' = EditsOf(Prepared)
    BY <1>1, <2>1, PreparedSame
  <2>3. EditsOf(applied)' = EditsOf(Prepared)
    BY <1>1, <2>1 DEF EditsOf
  <2>4. Pieces(EditsOf(applied))' = Pieces(Done)
    BY <1>4, <1>5, <2>3 DEF Pieces
  <2>5. Range(bytes)' = Range(bytes) /\ InOrder(bytes)'
    BY <1>3, <2>1 DEF InOrder, Before
  <2> QED
    BY <1>1, <1>3, <2>1, <2>2, <2>4, <2>5 DEF TextInv, AppliedWhole
<1>7. CASE Rejected
  <2>1. /\ applied' = {} /\ bytes' = Input
        /\ reason' = [i \in Fixes |-> IF i \in Prepared THEN "validation" ELSE reason[i]]
    BY <1>3, <1>7 DEF Rejected
  <2>2. Prepared' = {}
    BY <1>5, <2>1 DEF Prepared
  <2>3. EditsOf(applied)' = {}
    BY <2>1 DEF EditsOf
  <2>4. Pieces(EditsOf(applied))' = Range(Input)
    BY <1>5, <2>3, NothingMade DEF Pieces
  <2>5. Range(bytes)' = Range(Input) /\ InOrder(bytes)'
    BY <2>1, NothingMade DEF InOrder, Before
  <2> QED
    BY <1>1, <2>1, <2>2, <2>4, <2>5 DEF TextInv, AppliedWhole
<1> QED
  BY <1>1, <1>6, <1>7

LEMMA StutterText == ASSUME TextInv, UNCHANGED vars PROVE TextInv'
<1>1. /\ Prepared' = Prepared /\ EditsOf(Prepared)' = EditsOf(Prepared)
      /\ All' = All /\ Input' = Input
  BY PreparedSame, SelectionSame DEF vars, Input
<1>2. Done' = Done /\ Things' = Things
  BY <1>1 DEF Done, Things, vars
<1> QED
  BY <1>1, <1>2 DEF TextInv, AppliedWhole, vars, Pieces, InOrder, Before, EditsOf

(* Each fix is applied whole or rejected with a reason, and the file is what the edits *)
(* of the applied ones make of it, in the order of their offsets (applyCandidates).    *)
THEOREM AppliedExactly == Spec => []AppliedWhole
<1>1. Init => CoordinateInv /\ TextInv
  BY InitInv, InitText
<1>2. CoordinateInv /\ TextInv /\ [Next]_vars => (CoordinateInv /\ TextInv)'
  <2>1. SUFFICES ASSUME CoordinateInv, TextInv, [Next]_vars PROVE CoordinateInv' /\ TextInv'
    OBVIOUS
  <2>2. CoordinateInv'
    BY <2>1, NextInv
  <2>3. TextInv'
    BY <2>1, PrepareText, SweepText, AcceptText, SpliceText, ConcludeText, StutterText DEF Next
  <2> QED
    BY <2>2, <2>3
<1>3. CoordinateInv /\ TextInv => AppliedWhole
  BY DEF TextInv
<1> QED
  BY <1>1, <1>2, <1>3, PTL DEF Spec
=============================================================================
