--------------------------- MODULE FixCoordinator ---------------------------
(***************************************************************************)
(* internal/fix/coordinator.go: Coordinate, which applies the selected fixes *)
(* of one file. A fix is a set of edits that is applied whole or not at all.  *)
(* Fixes that may not be applied are refused one by one; a sweep over the     *)
(* edits in the order of their offsets finds the fixes that conflict; the     *)
(* edits of the others are made from the end of the file to its beginning;    *)
(* and a result that does not validate rejects all of them.                   *)
(*                                                                         *)
(* The file is a sequence of characters, each with its place in the input,    *)
(* and each edit puts one of its own or none. Parsing, imports, formatting    *)
(* and the caller's validation are steps that succeed or fail.                *)
(***************************************************************************)
EXTENDS Integers, Sequences, Functions

CONSTANTS
  Length,          \* of the file
  Shapes,          \* fixes a diagnostic may offer
  MaxSelections,   \* BOUND on the fixes selected
  Authorized       \* the safety classes the invocation allows

ASSUME LengthAssumption == Length \in Nat /\ MaxSelections \in Nat

Offsets == 0..Length
Reasons ==
  {"none", "missing-fix", "stale-source", "suggestion-not-selected", "unsafe",
   "invalid-range", "conflict", "validation"}

\* An edit replaces the characters from start to end by one of its own, or deletes them.
Edit == [start : Int, end : Int, deletes : BOOLEAN]
Requirement == [name : STRING, path : STRING]

ASSUME ShapesAssumption ==
  \A s \in Shapes :
    /\ s.edits \in Seq(Edit)
    /\ s.imports \subseteq Requirement
    /\ s.identity \in {"current", "stale"}
    /\ s.offered \in Nat
    /\ s.safety \in {"safe", "suggestion", "unsafe"}

VARIABLES
  selections,   \* the selected fixes, in the order of compareSelection
  phase,
  reason,       \* why each fix was rejected, or "none"
  edits,        \* the edits the sweep or the splice has still to visit
  insertions,   \* the first fix that inserts at each offset, 0 if none
  active,       \* the replacement that reaches furthest
  bytes,        \* the file
  applied       \* the fixes that were applied

vars == <<selections, phase, reason, edits, insertions, active, bytes, applied>>

Fixes == DOMAIN selections
Input ==
  [n \in 1..Length |-> [fix |-> 0, number |-> n, start |-> n - 1, end |-> n, deletes |-> FALSE]]
None == [fix |-> 0, start |-> 0, end |-> 0]

Init ==
  /\ selections \in UNION {[1..n -> Shapes] : n \in 0..MaxSelections}
  /\ phase = "prepare"
  /\ reason = [i \in Fixes |-> "none"]
  /\ edits = {}
  /\ insertions = [p \in Offsets |-> 0]
  /\ active = None
  /\ bytes = Input
  /\ applied = {}

-----------------------------------------------------------------------------
(* Preparation. *)

\* Mutant: the end of a range is not looked at.
StartsInside(e) == e.start >= 0 /\ e.start <= Length

validEditRange(e) == e.start >= 0 /\ e.end >= e.start /\ e.end <= Length

(* The checks of prepareCandidate in their order. Three more only refuse a fix of bad    *)
(* data and are left out: a safety that is none of the three, import requirements that   *)
(* do not fit the file, and replacement text that is not UTF-8.                          *)
Refusal(s) ==
  CASE s.identity = "stale" -> "stale-source"
    [] s.offered # 1 -> "missing-fix"
    [] s.safety = "suggestion" /\ s.safety \notin Authorized -> "suggestion-not-selected"
    [] s.safety = "unsafe" /\ s.safety \notin Authorized -> "unsafe"
    [] s.edits = <<>> -> "invalid-range"
    [] \E k \in DOMAIN s.edits : ~validEditRange(s.edits[k]) -> "invalid-range"
    [] OTHER -> "none"

Prepared == {i \in Fixes : reason[i] = "none"}

EditsOf(fixes) ==
  UNION {{[fix |-> i, number |-> k, start |-> selections[i].edits[k].start,
           end |-> selections[i].edits[k].end, deletes |-> selections[i].edits[k].deletes] :
             k \in DOMAIN selections[i].edits} : i \in fixes}

(* The order of conflictingCandidates; what is equal in start and end always conflicts. *)
Before(a, b) ==
  \/ a.start < b.start
  \/ a.start = b.start /\ a.end < b.end
  \/ a.start = b.start /\ a.end = b.end /\ a.fix < b.fix
  \/ a.start = b.start /\ a.end = b.end /\ a.fix = b.fix /\ a.number < b.number
FirstEdit(set) == CHOOSE e \in set : \A other \in set \ {e} : Before(e, other)

(* markImportRequirementConflicts: one name for two paths, or one path under two names. *)
ImportConflicts(fixes) ==
  {i \in fixes : \E j \in fixes : \E r \in selections[i].imports, q \in selections[j].imports :
     (r.name = q.name) # (r.path = q.path)}

Prepare ==
  /\ phase = "prepare"
  /\ phase' = "sweep"
  /\ LET refusals == [i \in Fixes |-> Refusal(selections[i])]
         candidates == {i \in Fixes : refusals[i] = "none"}
     IN  /\ reason' = [i \in Fixes |->
               IF i \in ImportConflicts(candidates) THEN "conflict" ELSE refusals[i]]
         /\ edits' = EditsOf(candidates)
  /\ UNCHANGED <<selections, insertions, active, bytes, applied>>

-----------------------------------------------------------------------------
(* conflictingCandidates: one step for each edit, in their order. *)

Mark(fixes) == reason' = [i \in Fixes |-> IF i \in fixes THEN "conflict" ELSE reason[i]]

(* The active replacement, unless the edit e begins behind it. *)
ActiveAt(e) == IF active.fix # 0 /\ e.start >= active.end THEN None ELSE active

Insert(e) ==
  LET current == ActiveAt(e)
      first == insertions[e.start]
      twice == IF first = 0 THEN {} ELSE {first, e.fix}
      inside == IF current.fix # 0 /\ e.start > current.start THEN {current.fix, e.fix} ELSE {}
  IN  /\ Mark(twice \cup inside)
      /\ insertions' = IF first = 0 THEN [insertions EXCEPT ![e.start] = e.fix] ELSE insertions
      /\ active' = current

\* Mutant: the last replacement is the active one.
LastActive(current, e) == [fix |-> e.fix, start |-> e.start, end |-> e.end]

Furthest(current, e) ==
  IF current.fix = 0 \/ e.end > current.end
  THEN [fix |-> e.fix, start |-> e.start, end |-> e.end]
  ELSE current

Overwrite(e) ==
  LET current == ActiveAt(e) IN
  /\ Mark(IF current.fix # 0 /\ e.start < current.end THEN {current.fix, e.fix} ELSE {})
  /\ active' = Furthest(current, e)
  /\ UNCHANGED insertions

Sweep ==
  /\ phase = "sweep"
  /\ edits # {}
  /\ LET e == FirstEdit(edits) IN
     /\ IF e.start = e.end THEN Insert(e) ELSE Overwrite(e)
     /\ edits' = edits \ {e}
  /\ UNCHANGED <<selections, phase, bytes, applied>>

-----------------------------------------------------------------------------
(* applyCandidates, and what follows. *)

\* Mutant: of two edits at one offset the insertion is made first.
ShortestLast(set) ==
  CHOOSE e \in set : \A other \in set \ {e} :
    e.start > other.start \/ (e.start = other.start /\ e.end < other.end)

(* The order of applyCandidates; no two edits of accepted fixes are equal in start and end. *)
LastEdit(set) == CHOOSE e \in set : \A other \in set \ {e} : Before(other, e)

(* Without a fix that is accepted the file is returned as it was. *)
Accept ==
  /\ phase = "sweep"
  /\ edits = {}
  /\ phase' = IF Prepared = {} THEN "done" ELSE "splice"
  /\ edits' = EditsOf(Prepared)
  /\ UNCHANGED <<selections, reason, insertions, active, bytes, applied>>

NewText(e) == IF e.deletes THEN <<>> ELSE <<e>>

Splice ==
  /\ phase = "splice"
  /\ edits # {}
  /\ LET e == LastEdit(edits) IN
     /\ bytes' = SubSeq(bytes, 1, e.start) \o NewText(e) \o SubSeq(bytes, e.end + 1, Len(bytes))
     /\ edits' = edits \ {e}
  /\ UNCHANGED <<selections, phase, reason, insertions, active, applied>>

(* The edited file parses, its imports are coordinated, and it formats and validates. *)
Validated ==
  /\ applied' = Prepared
  /\ UNCHANGED <<reason, bytes>>

(* One of these steps fails: rejectedTransaction. *)
Rejected ==
  /\ reason' = [i \in Fixes |-> IF i \in Prepared THEN "validation" ELSE reason[i]]
  /\ bytes' = Input
  /\ UNCHANGED applied

Conclude ==
  /\ phase = "splice"
  /\ edits = {}
  /\ phase' = "done"
  /\ Validated \/ Rejected
  /\ UNCHANGED <<selections, edits, insertions, active>>

Next == Prepare \/ Sweep \/ Accept \/ Splice \/ Conclude

Spec == Init /\ [][Next]_vars

-----------------------------------------------------------------------------
(* Properties. *)

(* The variables have their types. *)
TypeOK ==
  /\ selections \in Seq(Shapes)
  /\ phase \in {"prepare", "sweep", "splice", "done"}
  /\ reason \in [Fixes -> Reasons]
  /\ \A e \in edits : e.fix \in Fixes
  /\ insertions \in [Offsets -> Fixes \cup {0}]
  /\ active \in [fix : Fixes \cup {0}, start : Offsets, end : Offsets]
  /\ applied \subseteq Fixes

(* Two edits clash: replacements that overlap, an insertion inside a replacement, *)
(* two insertions at one offset. An insertion at an end of a replacement does not. *)
Clash(a, b) ==
  LET insertion(e) == e.start = e.end
      inside(e, f) == f.start < e.start /\ e.start < f.end
  IN  CASE insertion(a) /\ insertion(b) -> a.start = b.start
        [] insertion(a) /\ ~insertion(b) -> inside(a, b)
        [] ~insertion(a) /\ insertion(b) -> inside(b, a)
        [] OTHER -> a.start < b.end /\ b.start < a.end

(* Every fix with an edit that clashes with another is found by the one sweep,   *)
(* which compares an edit only with the replacement that reaches furthest, and   *)
(* no other fix is rejected for a conflict.                                      *)
SweepFindsClashes ==
  phase \notin {"prepare", "sweep"} =>
    LET candidates ==
          {i \in Fixes : Refusal(selections[i]) = "none"}
        all == EditsOf(candidates)
    IN  \A i \in candidates :
          (reason[i] = "conflict")
            <=> \/ i \in ImportConflicts(candidates)
                \/ \E a, b \in all : a # b /\ a.fix = i /\ Clash(a, b)

(* What the edits make of the file: the characters none of them replaces, and their own. *)
Pieces(set) ==
  {c \in Range(Input) : \A e \in set : ~(e.start <= c.start /\ c.start < e.end)}
    \cup {e \in set : ~e.deletes}

InOrder(s) == \A i, j \in DOMAIN s : i < j => Before(s[i], s[j])

(* Each fix is applied whole or rejected with a reason, and the file is what the *)
(* edits of the applied ones make of it, in the order of their offsets: none is   *)
(* lost, moved or made in part.                                                   *)
AppliedWhole ==
  phase = "done" =>
    /\ applied = Prepared
    /\ Range(bytes) = Pieces(EditsOf(applied)) /\ InOrder(bytes)
=============================================================================
