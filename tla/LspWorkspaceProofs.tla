------------------------ MODULE LspWorkspaceProofs ------------------------
(***************************************************************************)
(* Proofs about LspWorkspace, for any groups, roots, files and imports: the *)
(* state is well typed and the retained results stay within both bounds, no *)
(* change the client has told of is lost, and a result is of the documents   *)
(* and the disk of its analysis, but for what nothing guards when it is      *)
(* reused. WorkspaceInv is inductive. An entry compares with the disk what   *)
(* its result took from the sources it has; what it may miss is a path that  *)
(* changed under an analysis, and such a path is one the client has yet to   *)
(* tell of, or one the next analysis takes with its changes. What the        *)
(* comparison and the changes spare is as it was. A result is reused only    *)
(* when every retained result it imports was spared, and those agree with it *)
(* on what each was made of.                                                 *)
(***************************************************************************)
EXTENDS LspWorkspace, FiniteSetTheorems, WellFoundedInduction, TLAPS

-----------------------------------------------------------------------------
(* Where the analysis is                                                    *)

(* What is true of the places the analysis can be at: nothing is left of an  *)
(* analysis that ended, and the group whose files are captured has a result. *)
PhaseInv ==
  /\ pc = "idle" => taken = NoChanges /\ todo = {}
  /\ pc \in {"idle", "invalidate"} =>
       attempts = NoResults /\ results = NoResults /\ nextEntries = NoResults
  /\ pc = "capture" => todo # {} /\ results[Least(todo)] \in Result
  /\ todo \subseteq Grouped
  /\ IsFiniteSet(unnotified) /\ IsFiniteSet(pending.files) /\ IsFiniteSet(taken.files)

ReachInv == TypeOK /\ PhaseInv

-----------------------------------------------------------------------------
(* What the retained results are behind of                                  *)

AllOf(given) == IF given.all THEN Paths ELSE given.files

(* The paths a retained result may be behind of without its entry telling so: those   *)
(* that changed under an analysis, until the client has told of them and an analysis   *)
(* has taken what it told.                                                             *)
Behind == touched \cup AllOf(IF pc = "idle" THEN pending ELSE taken)

(* A path that changed under an analysis is one the client will still tell of, or has. *)
ToldInv ==
  /\ pc = "idle" => touched \subseteq unnotified
  /\ touched \subseteq unnotified \cup AllOf(pending)

(* The sources of a group that its own root holds. *)
Near(g) == {f \in Sources(g) : RootOf[GroupOf[f]] = RootOf[g]}

(* The sources a result of the group has. *)
Own(g) == {f \in Files : GroupOf[f] \in Parsed(g)}

(* Every package a group is made of had a file. *)
Populated(g, view) == \A h \in Closure(g) : \E f \in Files : GroupOf[f] = h /\ view[f] # Absent

(* An entry compares with the disk what its result took from there of the sources it   *)
(* has: what had a content by that content, what had none by the names of directories.  *)
(* The paths in late may have changed between the load and the capture.                 *)
EntryMade(e, g, late) ==
  /\ \A path \in Controls :
       e.expected[path] \in Content /\ (path \notin late => e.view[path] = e.expected[path])
  /\ \A f \in Own(g) \ e.overlaid :
       /\ e.view[f] # Absent => e.expected[f] = e.view[f]
       /\ e.view[f] = Absent /\ f \notin late => f \notin e.names
  /\ Parsed(g) \subseteq e.directories
  /\ Populated(g, e.view)

(* Retained results of one root were made of the same documents of the packages that    *)
(* are retained, and of the same files that no document hid, but for those in late.      *)
Agree(es, g, f, late) ==
  /\ es[GroupOf[f]].documents[f] # Absent => es[g].view[f] = es[GroupOf[f]].documents[f]
  /\ f \notin es[g].overlaid \cup es[GroupOf[f]].overlaid \cup late =>
       es[g].view[f] = es[GroupOf[f]].view[f]

EntriesInv ==
  \A g \in Retained(entries) :
    /\ EntryMade(entries[g], g, Behind)
    /\ \A f \in Near(g) : GroupOf[f] \in Retained(entries) => Agree(entries, g, f, Behind)

-----------------------------------------------------------------------------
(* What a running analysis has                                              *)

Spared(g) == <<RootOf[g], g>> \notin invalid /\ RootOf[g] \notin invalidRoots

(* What a result took from the disk of the sources it has is what is there. *)
FromDisk(g, r) == \A path \in (Controls \cup (Own(g) \ r.overlaid)) \ touched :
  r.view[path] = disk[path]

(* The client has told of a change of the package. *)
Told(g) == \E f \in taken.files \cap Files : GroupOf[f] = g

(* What is not invalid is open, retained and as it was. *)
InvalidInv ==
  pc \in {"attempt", "analyze", "capture"} =>
    /\ taken.all => \A g \in Grouped : RootOf[g] \in invalidRoots
    /\ \A g \in Retained(entries) \ Grouped : <<RootOf[g], g>> \in invalid
    /\ \A g \in Grouped \ Retained(entries) : (pc = "attempt" /\ g \in todo) \/ ~Spared(g)
    /\ \A g \in Grouped \cap Retained(entries) :
         Spared(g) =>
           entries[g].documents = Documents(g) /\ FromDisk(g, entries[g]) /\ ~Told(g)

(* A new result is of the documents the analysis was given and of the disk. *)
Fresh(r, g) ==
  /\ r.overlaid = Overlay(g)
  /\ \A path \in Relevant(g) :
       path \in Overlay(g) \/ path \notin touched => r.view[path] = Reads(g, path)
  /\ Populated(g, r.view)

(* The result that is retained. *)
Same(r, g) == r.view = entries[g].view /\ r.overlaid = entries[g].overlaid

ResultsInv ==
  /\ pc = "attempt" => results = NoResults /\ todo \cap Retained(entries) = {}
  /\ \A g \in Groups :
       /\ attempts[g].kind = "result" =>
            g \in Grouped /\ entries[g] = None /\ Fresh(attempts[g], g)
       /\ results[g].kind = "result" =>
            /\ g \in Grouped
            /\ Reused(g) => Same(results[g], g)
            /\ ~Reused(g) => Fresh(results[g], g)

(* What will be retained is what groups that have been visited returned. *)
NextEntriesInv ==
  /\ pc = "attempt" => Retained(nextEntries) = {}
  /\ \A g \in Retained(nextEntries) :
       /\ g \notin todo /\ results[g].kind = "result"
       /\ nextEntries[g].view = results[g].view
       /\ nextEntries[g].overlaid = results[g].overlaid \cup Overlay(g)
       /\ nextEntries[g].documents = Documents(g)
       /\ EntryMade(nextEntries[g], g, touched)

WorkspaceInv ==
  ReachInv /\ ToldInv /\ EntriesInv /\ InvalidInv /\ ResultsInv /\ NextEntriesInv

-----------------------------------------------------------------------------
(* Least groups and the entries that survive                                *)

(* Every set of groups has a least one. *)
LEMMA LeastIn ==
  ASSUME NEW S, S \subseteq Groups, S # {}
  PROVE  Least(S) \in S /\ \A g \in S : Least(S) <= g
<1> DEFINE R == OpToRel(<, Nat)
<1>1. IsWellFoundedOn(R, Nat)
  BY NatLessThanWellFounded
<1>2. \A x, y \in Nat : y < x => <<y, x>> \in R
  BY DEF OpToRel
<1>3. S \subseteq Nat
  BY GroupsAssumption
<1> HIDE DEF R
<1>4. PICK g \in S : \A y \in S : <<y, g>> \notin R
  BY <1>1, <1>3, WFMin, Zenon
<1>5. \A y \in S : ~(y < g)
  BY <1>2, <1>3, <1>4, Zenon
<1>6. \A y \in S : g <= y
  BY <1>3, <1>5
<1> QED
  BY <1>6 DEF Least

(* What boundLSPWorkspaceEntries keeps of the groups in some set. *)
Kept(kept, groups) ==
  /\ kept \subseteq groups
  /\ \A g \in groups : g \in kept <=> nextEntries[g] # None /\ Fits(g, {h \in kept : h > g})

(* The groups are visited from the last to the first: a group more is before all others. *)
LEMMA KeptBefore ==
  ASSUME NEW groups, groups \subseteq Groups, NEW kept, Kept(kept, groups),
         NEW g \in Groups, \A h \in groups : h > g
  PROVE  \E more : Kept(more, groups \cup {g})
<1> DEFINE more == IF nextEntries[g] # None /\ Fits(g, kept) THEN kept \cup {g} ELSE kept
<1>1. groups \cup {g} \subseteq Nat /\ kept \subseteq groups /\ g \notin groups
  BY GroupsAssumption DEF Kept
<1>2. {h \in more : h > g} = kept
  BY <1>1
<1>3. \A k \in groups : {h \in more : h > k} = {h \in kept : h > k}
  BY <1>1
<1>4. more \subseteq groups \cup {g}
  BY <1>1
<1>5. \A k \in groups : k \in more <=> k \in kept
  BY <1>1
<1>6. g \in more <=> nextEntries[g] # None /\ Fits(g, kept)
  BY <1>1
<1> HIDE DEF more
<1>7. ASSUME NEW k \in groups \cup {g}
      PROVE  k \in more <=> nextEntries[k] # None /\ Fits(k, {h \in more : h > k})
  <2>1. CASE k = g
    BY <2>1, <1>2, <1>6
  <2>2. CASE k \in groups
    <3>1. k \in kept <=> nextEntries[k] # None /\ Fits(k, {h \in kept : h > k})
      BY <2>2 DEF Kept
    <3>2. {h \in more : h > k} = {h \in kept : h > k}
      BY <2>2, <1>3
    <3> QED
      BY <2>2, <1>5, <3>1, <3>2
  <2> QED
    BY <2>1, <2>2
<1> QED
  BY <1>4, <1>7 DEF Kept

(* There is what survives: no set of groups is a least one of which nothing is kept. *)
LEMMA SurvivorsKept == Kept(Survivors, Groups)
<1> DEFINE R == StrictSubsetOrdering(Groups)
           Bad == {groups \in FiniteSubsetsOf(Groups) : ~\E kept : Kept(kept, groups)}
<1>1. IsWellFoundedOn(R, FiniteSubsetsOf(Groups))
  BY FS_StrictSubsetOrderingWellFounded
<1>2. Groups \in FiniteSubsetsOf(Groups)
  BY GroupsAssumption DEF FiniteSubsetsOf
<1>3. Bad = {}
  <2> SUFFICES ASSUME Bad # {} PROVE FALSE
    OBVIOUS
  <2>1. Bad \subseteq FiniteSubsetsOf(Groups)
    OBVIOUS
  <2>2. PICK groups \in Bad : \A other \in Bad : <<other, groups>> \notin R
    <3> HIDE DEF R, Bad
    <3> QED
      BY <1>1, <2>1, WFMin, Zenon
  <2>3. groups \subseteq Groups /\ IsFiniteSet(groups) /\ ~\E kept : Kept(kept, groups)
    BY DEF FiniteSubsetsOf
  <2>4. groups # {}
    BY <2>3 DEF Kept
  <2> DEFINE g == Least(groups)
             rest == groups \ {g}
  <2>5. g \in groups /\ \A h \in groups : g <= h
    BY <2>3, <2>4, LeastIn
  <2> HIDE DEF g
  <2>6. rest \in FiniteSubsetsOf(Groups)
    BY <2>3, FS_RemoveElement DEF FiniteSubsetsOf
  <2>7. <<rest, groups>> \in R
    BY <2>3, <2>5 DEF StrictSubsetOrdering
  <2>8. rest \notin Bad
    BY <2>2, <2>7
  <2>9. PICK kept : Kept(kept, rest)
    BY <2>6, <2>8
  <2>10. \A h \in rest : h > g
    BY <2>3, <2>5, GroupsAssumption
  <2>11. \E more : Kept(more, rest \cup {g})
    BY <2>3, <2>5, <2>9, <2>10, KeptBefore
  <2>12. rest \cup {g} = groups
    BY <2>5
  <2> QED
    BY <2>3, <2>11, <2>12
<1>4. \E kept : Kept(kept, Groups)
  BY <1>2, <1>3
<1>5. \E kept \in SUBSET Groups : \A g \in Groups :
        g \in kept <=> nextEntries[g] # None /\ Fits(g, {h \in kept : h > g})
  BY <1>4 DEF Kept
<1> QED
  BY <1>5 DEF Kept, Survivors

(* A set of numbers is its least one and those above it. *)
LEMMA LeastAndAbove ==
  ASSUME NEW S, S \subseteq Nat, NEW g \in S, \A h \in S : g <= h
  PROVE  S = {h \in S : h > g} \cup {g} /\ g \notin {h \in S : h > g}
<1>1. \A h \in S : h = g \/ h > g
  OBVIOUS
<1>2. ~(g > g)
  OBVIOUS
<1> DEFINE above == {h \in S : h > g}
<1>3. \A h : h \in above <=> h \in S /\ h > g
  OBVIOUS
<1> HIDE DEF above
<1>4. g \notin above
  BY <1>2, <1>3, Zenon
<1>5. \A h : h \in S <=> h \in above \cup {g}
  BY <1>1, <1>3, Zenon
<1>6. S = above \cup {g}
  BY <1>5, Zenon
<1> QED
  BY <1>4, <1>6 DEF above

(* What survives is within both bounds, but that one entry may be of any size. *)
LEMMA SurvivorsBounded ==
  /\ Cardinality(Survivors) <= MaximumEntries
  /\ \/ Cardinality(Survivors) <= 1
     \/ AccountedBytes(Views(nextEntries, Survivors)) <= MaximumBytes
<1>1. Survivors \subseteq Groups /\ IsFiniteSet(Survivors)
  <2>1. Survivors \subseteq Groups
    BY SurvivorsKept DEF Kept
  <2> QED
    BY <2>1, GroupsAssumption, FS_Subset
<1>2. CASE Survivors = {}
  BY <1>2, FS_EmptySet, BoundsAssumption
<1>3. CASE Survivors # {}
  <2> DEFINE g == Least(Survivors)
             later == {h \in Survivors : h > g}
  <2>1. g \in Survivors /\ \A h \in Survivors : g <= h
    BY <1>1, <1>3, LeastIn
  <2>2. Survivors \subseteq Nat
    BY <1>1, GroupsAssumption
  <2>3. Fits(g, later)
    BY <1>1, <2>1, SurvivorsKept DEF Kept
  <2> HIDE DEF g
  <2>4. Survivors = later \cup {g} /\ g \notin later
    BY <2>1, <2>2, LeastAndAbove
  <2>5. IsFiniteSet(later)
    BY <1>1, FS_Subset
  <2>6. Cardinality(Survivors) = Cardinality(later) + 1 /\ Cardinality(later) \in Nat
    BY <2>4, <2>5, FS_AddElement, FS_CardinalityType
  <2> HIDE DEF later
  <2>7. Cardinality(later) < MaximumEntries
    BY <2>3 DEF Fits
  <2>8. CASE later = {}
    BY <2>6, <2>7, <2>8, FS_EmptySet, BoundsAssumption
  <2>9. CASE later # {}
    <3>1. AccountedBytes(Views(nextEntries, later \cup {g})) <= MaximumBytes
      BY <2>3, <2>9 DEF Fits
    <3> QED
      BY <3>1, <2>4, <2>6, <2>7, BoundsAssumption
  <2> QED
    BY <2>8, <2>9
<1> QED
  BY <1>2, <1>3

-----------------------------------------------------------------------------
(* What the operations make is well typed                                   *)

LEMMA PathsApart == Files \subseteq Paths /\ Controls \subseteq Paths
BY DEF Paths

LEMMA NothingTypes ==
  /\ NoChanges \in Changes /\ IsFiniteSet(NoChanges.files)
  /\ Cardinality(NoChanges.files) <= MaximumChangedFiles
  /\ NoDocs \in [Files -> Content]
  /\ NoResults \in [Groups -> Result \cup {None, Failed}]
  /\ NoResults \in [Groups -> Entry \cup {None}]
  /\ Retained(NoResults) = {}
<1>1. NoChanges.files = {} /\ NoChanges \in Changes
  BY DEF NoChanges, Changes
<1>2. IsFiniteSet(NoChanges.files) /\ Cardinality(NoChanges.files) <= MaximumChangedFiles
  BY <1>1, FS_EmptySet, BoundsAssumption
<1>3. NoDocs \in [Files -> Content]
  BY DEF NoDocs, Content
<1>4. NoResults \in [Groups -> Result \cup {None, Failed}]
  BY DEF NoResults
<1>5. NoResults \in [Groups -> Entry \cup {None}]
  BY DEF NoResults
<1>6. Retained(NoResults) = {}
  BY DEF NoResults, Retained
<1> QED
  BY <1>1, <1>2, <1>3, <1>4, <1>5, <1>6

(* A set of changes that grows too large becomes a change of everything. *)
LEMMA BoundedTypes ==
  ASSUME NEW files, files \subseteq Paths, IsFiniteSet(files)
  PROVE  /\ Bounded(files) \in Changes
         /\ IsFiniteSet(Bounded(files).files)
         /\ Cardinality(Bounded(files).files) <= MaximumChangedFiles
         /\ files \subseteq AllOf(Bounded(files))
         /\ ~Bounded(files).all => Bounded(files).files = files
<1>1. Cardinality(files) \in Nat
  BY FS_CardinalityType
<1>2. CASE Cardinality(files) > MaximumChangedFiles
  <2>1. Bounded(files) = [files |-> {}, all |-> TRUE]
    BY <1>2 DEF Bounded
  <2> QED
    BY <2>1, FS_EmptySet, BoundsAssumption DEF Changes, AllOf
<1>3. CASE ~(Cardinality(files) > MaximumChangedFiles)
  <2>1. Bounded(files) = [files |-> files, all |-> FALSE]
    BY <1>3 DEF Bounded
  <2>2. Cardinality(files) <= MaximumChangedFiles
    BY <1>1, <1>3, BoundsAssumption
  <2> QED
    BY <2>1, <2>2 DEF Changes, AllOf
<1> QED
  BY <1>2, <1>3

(* A change of everything. *)
LEMMA AllTypes ==
  ASSUME NEW c, c = [files |-> {}, all |-> TRUE]
  PROVE  /\ c \in Changes /\ IsFiniteSet(c.files)
         /\ Cardinality(c.files) <= MaximumChangedFiles
         /\ c.all /\ AllOf(c) = Paths
BY FS_EmptySet, BoundsAssumption DEF Changes, AllOf

LEMMA RestoredTypes ==
  ASSUME NEW now \in Changes, NEW before \in Changes,
         IsFiniteSet(now.files), IsFiniteSet(before.files)
  PROVE  /\ Restored(now, before) \in Changes
         /\ IsFiniteSet(Restored(now, before).files)
         /\ Cardinality(Restored(now, before).files) <= MaximumChangedFiles
         /\ AllOf(now) \cup AllOf(before) \subseteq AllOf(Restored(now, before))
         /\ now.all \/ before.all => Restored(now, before).all
<1>1. now.files \subseteq Paths /\ before.files \subseteq Paths
  BY DEF Changes
<1>2. CASE now.all \/ before.all
  <2>1. Restored(now, before) = [files |-> {}, all |-> TRUE]
    BY <1>2 DEF Restored
  <2>2. AllOf(now) \subseteq Paths /\ AllOf(before) \subseteq Paths
    BY <1>1 DEF AllOf
  <2> QED
    BY <2>1, <2>2, AllTypes
<1>3. CASE ~(now.all \/ before.all)
  <2>1. Restored(now, before) = Bounded(now.files \cup before.files)
    BY <1>3 DEF Restored
  <2>2. IsFiniteSet(now.files \cup before.files)
    BY FS_Union
  <2>3. AllOf(now) \cup AllOf(before) = now.files \cup before.files
    BY <1>3 DEF AllOf
  <2> DEFINE both == now.files \cup before.files
  <2>4. both \subseteq Paths
    BY <1>1
  <2>5. Restored(now, before) = Bounded(both) /\ AllOf(now) \cup AllOf(before) = both
    BY <2>1, <2>3
  <2>6. IsFiniteSet(both)
    BY <2>2
  <2> HIDE DEF both
  <2>7. /\ Bounded(both) \in Changes /\ IsFiniteSet(Bounded(both).files)
        /\ Cardinality(Bounded(both).files) <= MaximumChangedFiles
        /\ both \subseteq AllOf(Bounded(both))
    BY <2>4, <2>6, BoundedTypes, Zenon
  <2> QED
    BY <1>3, <2>5, <2>7, Zenon
<1> QED
  BY <1>2, <1>3

LEMMA LoadedType ==
  ASSUME disk \in [Paths -> Content], docs \in [Files -> Content], NEW g \in Groups
  PROVE  Loaded(g) \in Result
<1>1. Overlay(g) \subseteq Files
  BY DEF Overlay, Open
<1>2. \A path \in Paths : Reads(g, path) \in Content
  BY <1>1 DEF Reads, Content, Paths, Sources
<1>3. View(g) \in [Paths -> Content]
  BY <1>2 DEF View
<1> QED
  BY <1>1, <1>3 DEF Loaded, Result

LEMMA EntryOfType ==
  ASSUME disk \in [Paths -> Content], docs \in [Files -> Content], NEW g \in Groups,
         NEW r \in Result
  PROVE  EntryOf(r, g) \in Entry
<1>1. r.view \in [Paths -> Content] /\ r.overlaid \in SUBSET Files
  BY DEF Result
<1>2. Documents(g) \in [Files -> Content]
  BY DEF Documents, Content
<1>3. \A path \in Paths : Expected(r, g)[path] \in Content \cup {Unchecked}
  BY <1>1 DEF Expected
<1>4. Expected(r, g) \in [Paths -> Content \cup {Unchecked}]
  BY <1>3 DEF Expected
<1>5. Directories(r, g) \in SUBSET Groups
  BY FilesAssumption DEF Directories, Captured
<1>6. Names(Directories(r, g)) \in SUBSET Files
  BY DEF Names
<1>7. Overlay(g) \subseteq Files
  BY DEF Overlay, Open
<1> QED
  BY <1>1, <1>2, <1>4, <1>5, <1>6, <1>7 DEF EntryOf, Entry

(* A result is neither of the other outcomes. *)
LEMMA OutcomesApart ==
  /\ \A r \in Result : r.kind = "result"
  /\ \A e \in Entry : e.kind = "result" /\ e # None
  /\ None.kind # "result" /\ Failed.kind # "result" /\ None # Failed
BY DEF Result, Entry, None, Failed

(* What is retained is an entry. *)
LEMMA RetainedEntry ==
  ASSUME NEW es \in [Groups -> Entry \cup {None}], NEW g \in Retained(es)
  PROVE  es[g] \in Entry /\ g \in Groups
BY DEF Retained

(* What is kept of an entry is the result it was made of. *)
LEMMA KeptType ==
  ASSUME NEW e \in Entry
  PROVE  [kind |-> "result", view |-> e.view, overlaid |-> e.overlaid] \in Result
BY DEF Entry, Result

(* Open documents are of groups. *)
LEMMA GroupedGroups == Grouped \subseteq Groups
BY FilesAssumption DEF Grouped, Open

LEMMA GroupedSame == ASSUME UNCHANGED <<docs, apart>> PROVE Grouped' = Grouped /\ Open' = Open
BY DEF Grouped, Open

-----------------------------------------------------------------------------
(* The state is well typed                                                  *)

(* Retained entries that stay are within the bounds they were within. *)
Bounds(es) ==
  /\ es \in [Groups -> Entry \cup {None}]
  /\ Cardinality(Retained(es)) <= MaximumEntries
  /\ \/ Cardinality(Retained(es)) <= 1
     \/ AccountedBytes(Views(es, Retained(es))) <= MaximumBytes

LEMMA ReachParts ==
  ReachInv <=>
    /\ disk \in [Paths -> Content] /\ changes \in 0..MaxChanges /\ unnotified \in SUBSET Paths
    /\ Bounds(entries)
    /\ pending \in Changes /\ taken \in Changes
    /\ Cardinality(pending.files) <= MaximumChangedFiles
    /\ pc \in {"idle", "invalidate", "attempt", "analyze", "capture"}
    /\ docs \in [Files -> Content] /\ apart \in SUBSET Files
    /\ invalid \in SUBSET (Roots \X Groups) /\ invalidRoots \in SUBSET Roots
    /\ todo \in SUBSET Groups
    /\ attempts \in [Groups -> Result \cup {None, Failed}]
    /\ results \in [Groups -> Result \cup {None, Failed}]
    /\ nextEntries \in [Groups -> Entry \cup {None}]
    /\ touched \in SUBSET Paths /\ owed \in SUBSET Paths
    /\ PhaseInv
BY Zenon DEF ReachInv, TypeOK, Bounds

LEMMA BoundsSame == ASSUME Bounds(entries), entries' = entries PROVE Bounds(entries)'
BY DEF Bounds, Retained, Views

LEMMA PairType == \A g \in Groups : <<RootOf[g], g>> \in Roots \X Groups /\ RootOf[g] \in Roots
BY GroupsAssumption

LEMMA FilesChangedReach == ASSUME ReachInv, FilesChanged PROVE ReachInv'
<1> USE DEF ReachInv
<1>1. PICK told \in SUBSET unnotified \ {{}} :
        /\ \/ pending' = IF pending.all THEN pending ELSE Bounded(pending.files \cup told)
           \/ pending' = [files |-> {}, all |-> TRUE]
        /\ unnotified' = unnotified \ told /\ owed' = owed \cup told
        /\ touched' = IF pc = "idle" THEN touched \ told ELSE touched
  BY DEF FilesChanged
<1>2. UNCHANGED <<disk, changes, entries, pc, localVars>>
  BY DEF FilesChanged
<1>3. IsFiniteSet(told) /\ told \subseteq Paths /\ IsFiniteSet(unnotified')
  BY <1>1, FS_Subset, FS_Difference DEF TypeOK, PhaseInv
<1> DEFINE more == pending.files \cup told
<1>4. more \subseteq Paths /\ IsFiniteSet(more)
  BY <1>3, FS_Union DEF TypeOK, PhaseInv, Changes
<1>5. /\ pending' \in Changes /\ IsFiniteSet(pending'.files)
      /\ Cardinality(pending'.files) <= MaximumChangedFiles
  <2>1. CASE pending' = pending
    BY <2>1 DEF TypeOK, PhaseInv
  <2>2. CASE pending' = Bounded(more)
    <3> HIDE DEF more
    <3> QED
      BY <2>2, <1>4, BoundedTypes
  <2>3. CASE pending' = [files |-> {}, all |-> TRUE]
    BY <2>3, AllTypes
  <2> QED
    BY <1>1, <2>1, <2>2, <2>3
<1>6. unnotified' \in SUBSET Paths /\ owed' \in SUBSET Paths /\ touched' \in SUBSET Paths
  BY <1>1, <1>3 DEF TypeOK
<1>7. Bounds(entries)'
  BY <1>2, ReachParts, BoundsSame
<1>8. PhaseInv'
  BY <1>2, <1>3, <1>5, GroupedSame DEF PhaseInv, localVars
<1> QED
  BY <1>2, <1>5, <1>6, <1>7, <1>8 DEF TypeOK, Bounds, localVars

LEMMA ChangeDiskReach ==
  ASSUME ReachInv, NEW path \in Paths, NEW content \in Content, ChangeDisk(path, content)
  PROVE  ReachInv'
<1> USE DEF ReachInv
<1>1. UNCHANGED <<entries, pending, pc, localVars, owed>>
  BY DEF ChangeDisk
<1>2. disk' \in [Paths -> Content]
  BY DEF ChangeDisk, TypeOK
<1>3. changes' \in 0..MaxChanges
  BY BoundsAssumption DEF ChangeDisk, TypeOK
<1>4. unnotified' \in SUBSET Paths /\ IsFiniteSet(unnotified')
  BY FS_AddElement DEF ChangeDisk, TypeOK, PhaseInv
<1>5. touched' \in SUBSET Paths
  BY DEF ChangeDisk, TypeOK
<1>6. Bounds(entries)'
  BY <1>1, ReachParts, BoundsSame
<1>7. PhaseInv'
  BY <1>1, <1>4, GroupedSame DEF PhaseInv, localVars
<1> QED
  BY <1>1, <1>2, <1>3, <1>4, <1>5, <1>6, <1>7 DEF TypeOK, Bounds, localVars

LEMMA BeginReach == ASSUME ReachInv, NEW given \in Given, Begin(given) PROVE ReachInv'
<1> USE DEF ReachInv
<1>1. /\ pc = "idle" /\ pc' = "invalidate" /\ docs' = given
      /\ taken' = pending /\ pending' = NoChanges
      /\ UNCHANGED <<disk, changes, unnotified, entries, invalid, invalidRoots, todo, attempts>>
      /\ UNCHANGED <<results, nextEntries, touched, owed>>
  BY DEF Begin, diskVars
<1>2. docs' \in [Files -> Content] /\ apart' \in SUBSET Files
  BY <1>1, FilesAssumption DEF Given, Begin
<1>3. Bounds(entries)'
  BY <1>1, ReachParts, BoundsSame
<1>4. todo = {}
  BY <1>1 DEF PhaseInv
<1>5. PhaseInv'
  BY <1>1, <1>4, NothingTypes DEF PhaseInv
<1> QED
  BY <1>1, <1>2, <1>3, <1>5, NothingTypes DEF TypeOK, Bounds

LEMMA InvalidateReach == ASSUME ReachInv, Invalidate PROVE ReachInv'
<1> USE DEF ReachInv
<1>1. /\ pc = "invalidate" /\ pc' = "attempt" /\ todo' = Grouped \ Retained(entries)
      /\ UNCHANGED <<disk, changes, unnotified, entries, pending, docs, apart, taken, attempts>>
      /\ UNCHANGED <<results, nextEntries, touched, owed>>
  BY DEF Invalidate, diskVars
<1>2. invalid' \in SUBSET (Roots \X Groups)
  BY PairType DEF Invalidate, ClosedGroups, Retained
<1>3. invalidRoots' \in SUBSET Roots
  BY PairType, GroupedGroups DEF Invalidate
<1>4. todo' \in SUBSET Groups
  BY <1>1, GroupedGroups
<1>5. Bounds(entries)'
  BY <1>1, ReachParts, BoundsSame
<1>6. PhaseInv'
  BY <1>1, GroupedSame DEF PhaseInv
<1> QED
  BY <1>1, <1>2, <1>3, <1>4, <1>5, <1>6 DEF TypeOK, Bounds

(* What the steps of an analysis that runs leave alone. *)
LEMMA RunningReach ==
  ASSUME ReachInv, UNCHANGED <<disk, changes, unnotified, entries, pending, docs, apart, taken>>,
         UNCHANGED <<touched, owed>>,
         pc' \in {"attempt", "analyze", "capture"},
         invalid' \in SUBSET (Roots \X Groups), invalidRoots' \in SUBSET Roots,
         todo' \subseteq Grouped,
         attempts' \in [Groups -> Result \cup {None, Failed}],
         results' \in [Groups -> Result \cup {None, Failed}],
         nextEntries' \in [Groups -> Entry \cup {None}],
         pc' = "capture" => todo' # {} /\ results'[Least(todo')] \in Result
  PROVE  ReachInv'
<1>1. Bounds(entries)'
  BY ReachParts, BoundsSame
<1>2. PhaseInv'
  BY GroupedSame DEF ReachInv, PhaseInv
<1>3. todo' \in SUBSET Groups
  BY GroupedGroups
<1> QED
  BY <1>1, <1>2, <1>3 DEF ReachInv, TypeOK, Bounds

(* A step on the least of the groups that are left. *)
LEMMA NextGroup ==
  ASSUME ReachInv, todo # {}
  PROVE  Least(todo) \in todo /\ Least(todo) \in Groups /\ Least(todo) \in Grouped
BY LeastIn, GroupedGroups DEF ReachInv, TypeOK, PhaseInv

LEMMA AttemptReach == ASSUME ReachInv, Attempt PROVE ReachInv'
<1> DEFINE g == Least(todo)
<1>1. /\ pc = "attempt" /\ todo # {} /\ todo' = todo \ {g} /\ pc' = pc
      /\ UNCHANGED <<disk, changes, unnotified, entries, pending, docs, apart, taken>>
      /\ UNCHANGED <<results, nextEntries, touched, owed>>
  BY DEF Attempt, diskVars
<1>2. \/ attempts' = [attempts EXCEPT ![g] = Loaded(g)]
      \/ attempts' = [attempts EXCEPT ![g] = Failed]
  BY DEF Attempt
<1>3. invalid' = invalid \/ invalid' = invalid \cup {<<RootOf[g], g>>}
  BY DEF Attempt
<1>4. invalidRoots' = invalidRoots \/ invalidRoots' = invalidRoots \cup {RootOf[g]}
  BY DEF Attempt
<1>5. g \in todo /\ g \in Groups
  BY <1>1, NextGroup
<1> HIDE DEF g
<1>6. attempts' \in [Groups -> Result \cup {None, Failed}]
  <2>1. attempts \in [Groups -> Result \cup {None, Failed}]
    BY DEF ReachInv, TypeOK
  <2>2. Loaded(g) \in Result
    BY <1>5, LoadedType DEF ReachInv, TypeOK
  <2> QED
    BY <1>2, <2>1, <2>2
<1>7. invalid' \in SUBSET (Roots \X Groups) /\ invalidRoots' \in SUBSET Roots
  BY <1>3, <1>4, <1>5, PairType DEF ReachInv, TypeOK
<1>8. todo' \subseteq Grouped
  BY <1>1 DEF ReachInv, PhaseInv
<1>9. /\ results' \in [Groups -> Result \cup {None, Failed}]
      /\ nextEntries' \in [Groups -> Entry \cup {None}]
  BY <1>1 DEF ReachInv, TypeOK
<1> QED
  BY <1>1, <1>6, <1>7, <1>8, <1>9, RunningReach

LEMMA AttemptedReach == ASSUME ReachInv, Attempted PROVE ReachInv'
<1>1. /\ pc' = "analyze" /\ todo' = Grouped
      /\ UNCHANGED <<disk, changes, unnotified, entries, pending, docs, apart, taken>>
      /\ UNCHANGED <<invalid, invalidRoots, attempts, results, nextEntries, touched, owed>>
  BY DEF Attempted, diskVars
<1>2. /\ attempts' \in [Groups -> Result \cup {None, Failed}]
      /\ results' \in [Groups -> Result \cup {None, Failed}]
      /\ nextEntries' \in [Groups -> Entry \cup {None}]
      /\ invalid' \in SUBSET (Roots \X Groups) /\ invalidRoots' \in SUBSET Roots
  BY <1>1 DEF ReachInv, TypeOK
<1> QED
  BY <1>1, <1>2, RunningReach

(* What a group can take in an analysis, apart from nothing. *)
TakesAttempt(g) == attempts[g].kind = "result" /\ results' = [results EXCEPT ![g] = attempts[g]]
TakesKept(g) ==
  /\ attempts[g] = None /\ Reused(g)
  /\ results' = [results EXCEPT ![g] =
       [kind |-> "result", view |-> entries[g].view, overlaid |-> entries[g].overlaid]]
TakesNew(g) ==
  /\ attempts[g] = None /\ ~Reused(g) /\ Loadable(g)
  /\ results' = [results EXCEPT ![g] = Loaded(g)]
TakesFailure(g) == results' = [results EXCEPT ![g] = Failed]

LEMMA AnalyzeTakes ==
  ASSUME Analyze
  PROVE  /\ pc = "analyze" /\ todo # {}
         /\ UNCHANGED <<diskVars, entries, pending, docs, apart, taken, invalid, invalidRoots>>
         /\ UNCHANGED <<attempts, nextEntries, touched, owed>>
         /\ \/ /\ pc' = "capture" /\ todo' = todo
               /\ \/ TakesAttempt(Least(todo))
                  \/ TakesKept(Least(todo))
                  \/ TakesNew(Least(todo))
            \/ /\ pc' = pc /\ todo' = todo \ {Least(todo)}
               /\ TakesFailure(Least(todo))
<1> DEFINE g == Least(todo)
           kept == [kind |-> "result", view |-> entries[g].view, overlaid |-> entries[g].overlaid]
<1>1. /\ pc = "analyze" /\ todo # {}
      /\ UNCHANGED <<diskVars, entries, pending, docs, apart, taken, invalid, invalidRoots>>
      /\ UNCHANGED <<attempts, nextEntries, touched, owed>>
      /\ \/ /\ attempts[g].kind = "result" \/ (attempts[g] = None /\ (Reused(g) \/ Loadable(g)))
            /\ results' = [results EXCEPT ![g] =
                 IF attempts[g] # None THEN attempts[g]
                 ELSE IF Reused(g) THEN kept ELSE Loaded(g)]
            /\ pc' = "capture" /\ todo' = todo
         \/ /\ results' = [results EXCEPT ![g] = Failed]
            /\ todo' = todo \ {g} /\ pc' = pc
  BY DEF Analyze
<1> HIDE DEF g, kept
<1>2. CASE attempts[g].kind = "result"
  <2>1. attempts[g] # None
    BY <1>2, OutcomesApart
  <2> QED
    BY <1>1, <1>2, <2>1 DEF TakesAttempt, TakesFailure, g
<1>3. CASE attempts[g] = None /\ Reused(g)
  BY <1>1, <1>3, OutcomesApart DEF TakesKept, TakesFailure, g, kept
<1>4. CASE attempts[g] = None /\ ~Reused(g) /\ Loadable(g)
  BY <1>1, <1>4, OutcomesApart DEF TakesNew, TakesFailure, g
<1>5. CASE results' = [results EXCEPT ![g] = Failed] /\ todo' = todo \ {g} /\ pc' = pc
  BY <1>1, <1>5 DEF TakesFailure, g
<1> QED
  BY <1>1, <1>2, <1>3, <1>4, <1>5

(* A group that takes a result has one. *)
LEMMA TakenResult ==
  ASSUME ReachInv, NEW g \in Groups, TakesAttempt(g) \/ TakesKept(g) \/ TakesNew(g)
  PROVE  /\ results' \in [Groups -> Result \cup {None, Failed}]
         /\ results'[g] \in Result
         /\ \A h \in Groups \ {g} : results'[h] = results[h]
<1>1. results \in [Groups -> Result \cup {None, Failed}]
  BY DEF ReachInv, TypeOK
<1>2. \E r \in Result : results' = [results EXCEPT ![g] = r]
  <2>1. CASE TakesAttempt(g)
    <3>1. attempts[g] \in Result \cup {None, Failed}
      BY DEF ReachInv, TypeOK
    <3>2. attempts[g] \in Result
      BY <2>1, <3>1, OutcomesApart DEF TakesAttempt
    <3> QED
      BY <2>1, <3>2 DEF TakesAttempt
  <2>2. CASE TakesKept(g)
    <3>1. entries[g] \in Entry
      BY <2>2 DEF ReachInv, TypeOK, TakesKept, Reused
    <3> QED
      BY <2>2, <3>1, KeptType DEF TakesKept
  <2>3. CASE TakesNew(g)
    <3>1. Loaded(g) \in Result
      BY LoadedType DEF ReachInv, TypeOK
    <3> QED
      BY <2>3, <3>1 DEF TakesNew
  <2> QED
    BY <2>1, <2>2, <2>3
<1> QED
  BY <1>1, <1>2

LEMMA AnalyzeReach == ASSUME ReachInv, Analyze PROVE ReachInv'
<1> DEFINE g == Least(todo)
<1>1. g \in todo /\ g \in Groups /\ todo # {}
  BY AnalyzeTakes, NextGroup
<1>2. /\ UNCHANGED <<disk, changes, unnotified, entries, pending, docs, apart, taken>>
      /\ UNCHANGED <<touched, owed, invalid, invalidRoots, attempts, nextEntries>>
  BY AnalyzeTakes DEF diskVars
<1>3. /\ attempts' \in [Groups -> Result \cup {None, Failed}]
      /\ nextEntries' \in [Groups -> Entry \cup {None}]
      /\ invalid' \in SUBSET (Roots \X Groups) /\ invalidRoots' \in SUBSET Roots
  BY <1>2 DEF ReachInv, TypeOK
<1>4. todo \subseteq Grouped
  BY DEF ReachInv, PhaseInv
<1>5. CASE /\ pc' = "capture" /\ todo' = todo
           /\ TakesAttempt(g) \/ TakesKept(g) \/ TakesNew(g)
  <2>1. results' \in [Groups -> Result \cup {None, Failed}] /\ results'[g] \in Result
    BY <1>1, <1>5, TakenResult
  <2>2. results'[Least(todo')] \in Result
    BY <1>5, <2>1
  <2> QED
    BY <1>1, <1>2, <1>3, <1>4, <1>5, <2>1, <2>2, RunningReach
<1>6. CASE pc' = pc /\ todo' = todo \ {g} /\ TakesFailure(g)
  <2>1. results' \in [Groups -> Result \cup {None, Failed}]
    BY <1>6 DEF ReachInv, TypeOK, TakesFailure
  <2>2. pc' = "analyze" /\ todo' \subseteq Grouped
    BY <1>4, <1>6, AnalyzeTakes
  <2> QED
    BY <1>2, <1>3, <2>1, <2>2, RunningReach
<1> QED
  BY <1>5, <1>6, AnalyzeTakes

LEMMA CaptureReach == ASSUME ReachInv, Capture PROVE ReachInv'
<1> DEFINE g == Least(todo)
<1>1. /\ pc = "capture" /\ pc' = "analyze" /\ todo' = todo \ {g}
      /\ UNCHANGED <<disk, changes, unnotified, entries, pending, docs, apart, taken>>
      /\ UNCHANGED <<touched, owed, invalid, invalidRoots, attempts, results>>
      /\ \/ nextEntries' = [nextEntries EXCEPT ![g] = EntryOf(results[g], g)]
         \/ nextEntries' = nextEntries
  BY DEF Capture, diskVars
<1>2. todo # {} /\ results[g] \in Result
  BY <1>1 DEF ReachInv, PhaseInv
<1>3. g \in Groups
  BY <1>2, NextGroup
<1> HIDE DEF g
<1>4. EntryOf(results[g], g) \in Entry
  BY <1>2, <1>3, EntryOfType DEF ReachInv, TypeOK
<1>5. nextEntries' \in [Groups -> Entry \cup {None}]
  BY <1>1, <1>4 DEF ReachInv, TypeOK
<1>6. /\ attempts' \in [Groups -> Result \cup {None, Failed}]
      /\ results' \in [Groups -> Result \cup {None, Failed}]
      /\ invalid' \in SUBSET (Roots \X Groups) /\ invalidRoots' \in SUBSET Roots
      /\ todo' \subseteq Grouped
  BY <1>1 DEF ReachInv, TypeOK, PhaseInv
<1> QED
  BY <1>1, <1>5, <1>6, RunningReach

(* An analysis that ends leaves nothing behind. *)
LEMMA IdleReach ==
  ASSUME ReachInv, Idle, UNCHANGED <<disk, changes, unnotified>>,
         Bounds(entries)', owed' \in SUBSET Paths,
         pending' \in Changes, IsFiniteSet(pending'.files),
         Cardinality(pending'.files) <= MaximumChangedFiles
  PROVE  ReachInv'
<1>1. /\ pc' = "idle" /\ docs' = NoDocs /\ apart' = {} /\ taken' = NoChanges
      /\ invalid' = {} /\ invalidRoots' = {} /\ todo' = {} /\ touched' = touched \cap unnotified
      /\ attempts' = NoResults /\ results' = NoResults /\ nextEntries' = NoResults
  BY DEF Idle
<1>2. PhaseInv'
  BY <1>1, NothingTypes DEF ReachInv, PhaseInv
<1> QED
  BY <1>1, <1>2, NothingTypes DEF ReachInv, TypeOK, Bounds

(* What is retained is what survives. *)
LEMMA FinishRetains ==
  ASSUME ReachInv, Finish
  PROVE  /\ Survivors \subseteq Groups
         /\ \A g \in Survivors : entries'[g] = nextEntries[g] /\ nextEntries[g] \in Entry
         /\ \A g \in Groups \ Survivors : entries'[g] = None
         /\ entries' \in [Groups -> Entry \cup {None}]
         /\ Retained(entries') = Survivors
<1>1. entries' = [g \in Groups |-> IF g \in Survivors THEN nextEntries[g] ELSE None]
  BY DEF Finish
<1>2. Survivors \subseteq Groups /\ \A g \in Survivors : nextEntries[g] # None
  BY SurvivorsKept DEF Kept
<1>3. nextEntries \in [Groups -> Entry \cup {None}]
  BY DEF ReachInv, TypeOK
<1>4. \A g \in Survivors : entries'[g] = nextEntries[g] /\ nextEntries[g] \in Entry
  BY <1>1, <1>2, <1>3
<1>5. \A g \in Groups \ Survivors : entries'[g] = None
  BY <1>1
<1>6. entries' \in [Groups -> Entry \cup {None}]
  BY <1>1, <1>2, <1>3
<1>7. Retained(entries') = Survivors
  BY <1>2, <1>4, <1>5, OutcomesApart DEF Retained
<1> QED
  BY <1>2, <1>4, <1>5, <1>6, <1>7

LEMMA FinishReach == ASSUME ReachInv, Finish PROVE ReachInv'
<1>1. /\ Idle /\ UNCHANGED <<disk, changes, unnotified>> /\ pending' = pending
      /\ owed' \subseteq owed
  BY DEF Finish, diskVars
<1>2. Views(entries', Survivors) = Views(nextEntries, Survivors)
  BY FinishRetains DEF Views
<1>3. Bounds(entries')
  BY <1>2, FinishRetains, SurvivorsBounded DEF Bounds
<1>4. Bounds(entries)'
  BY <1>3 DEF Bounds, Retained, Views
<1>5. owed' \in SUBSET Paths
  BY <1>1 DEF ReachInv, TypeOK
<1>6. /\ pending' \in Changes /\ IsFiniteSet(pending'.files)
      /\ Cardinality(pending'.files) <= MaximumChangedFiles
  BY <1>1 DEF ReachInv, TypeOK, PhaseInv
<1> QED
  BY <1>1, <1>4, <1>5, <1>6, IdleReach

LEMMA CancelReach == ASSUME ReachInv, Cancel PROVE ReachInv'
<1>1. /\ Idle /\ UNCHANGED <<disk, changes, unnotified, entries, owed>>
      /\ pending' = Restored(pending, taken)
  BY DEF Cancel, diskVars
<1>2. pending \in Changes /\ taken \in Changes
  BY DEF ReachInv, TypeOK
<1>3. IsFiniteSet(pending.files) /\ IsFiniteSet(taken.files)
  BY DEF ReachInv, PhaseInv
<1>4. /\ pending' \in Changes /\ IsFiniteSet(pending'.files)
      /\ Cardinality(pending'.files) <= MaximumChangedFiles
  BY <1>1, <1>2, <1>3, RestoredTypes
<1>5. Bounds(entries)'
  BY <1>1, ReachParts, BoundsSame
<1>6. owed' \in SUBSET Paths
  BY <1>1 DEF ReachInv, TypeOK
<1> QED
  BY <1>1, <1>4, <1>5, <1>6, IdleReach

LEMMA InitReach == Init => ReachInv
<1> SUFFICES ASSUME Init PROVE ReachInv
  OBVIOUS
<1>1. entries = NoResults /\ Bounds(entries)
  <2>1. Cardinality(Retained(NoResults)) = 0
    BY NothingTypes, FS_EmptySet
  <2> QED
    BY <2>1, NothingTypes, BoundsAssumption DEF Init, Bounds
<1>2. PhaseInv
  BY NothingTypes, FS_EmptySet DEF Init, PhaseInv
<1>3. 0 \in 0..MaxChanges
  BY BoundsAssumption
<1> QED
  BY <1>1, <1>2, <1>3, NothingTypes, DiskAssumption DEF Init, ReachInv, TypeOK, Bounds

LEMMA StutterReach == ASSUME ReachInv, UNCHANGED vars PROVE ReachInv'
<1>1. /\ UNCHANGED <<disk, changes, unnotified, entries, pending, pc, docs, apart, taken>>
      /\ UNCHANGED <<invalid, invalidRoots, todo, attempts, results, nextEntries, touched, owed>>
  BY DEF vars, diskVars, localVars
<1>2. Bounds(entries)'
  BY <1>1, ReachParts, BoundsSame
<1>3. PhaseInv'
  BY <1>1, GroupedSame DEF ReachInv, PhaseInv
<1> QED
  BY <1>1, <1>2, <1>3 DEF ReachInv, TypeOK, Bounds

LEMMA NextReach == ReachInv /\ [Next]_vars => ReachInv'
<1> SUFFICES ASSUME ReachInv, [Next]_vars PROVE ReachInv'
  OBVIOUS
<1>1. ASSUME NEW given \in Given, Begin(given) PROVE ReachInv'
  BY <1>1, BeginReach
<1>2. CASE Invalidate
  BY <1>2, InvalidateReach
<1>3. CASE Attempt
  BY <1>3, AttemptReach
<1>4. CASE Attempted
  BY <1>4, AttemptedReach
<1>5. CASE Analyze
  BY <1>5, AnalyzeReach
<1>6. CASE Capture
  BY <1>6, CaptureReach
<1>7. CASE Finish
  BY <1>7, FinishReach
<1>8. CASE Cancel
  BY <1>8, CancelReach
<1>9. CASE FilesChanged
  BY <1>9, FilesChangedReach
<1>10. ASSUME NEW path \in Paths, NEW content \in Content, ChangeDisk(path, content)
       PROVE  ReachInv'
  BY <1>10, ChangeDiskReach
<1>11. CASE UNCHANGED vars
  BY <1>11, StutterReach
<1> QED
  BY <1>1, <1>2, <1>3, <1>4, <1>5, <1>6, <1>7, <1>8, <1>9, <1>10, <1>11 DEF Next, Analysis

(* The state is well typed, and whatever is analyzed, what is retained is within both *)
(* bounds: boundLSPWorkspaceEntries keeps no more entries, and no more bytes unless one *)
(* entry has them alone.                                                                *)
THEOREM TypeCorrect == Spec => []TypeOK
<1>1. ReachInv => TypeOK
  BY DEF ReachInv
<1> QED
  BY <1>1, InitReach, NextReach, PTL DEF Spec

-----------------------------------------------------------------------------
(* No change is lost                                                        *)

LEMMA ChangesToldKept == ASSUME ReachInv, ChangesKept, FilesChanged PROVE ChangesKept'
<1>1. PICK told \in SUBSET unnotified \ {{}} :
        /\ \/ pending' = IF pending.all THEN pending ELSE Bounded(pending.files \cup told)
           \/ pending' = [files |-> {}, all |-> TRUE]
        /\ owed' = owed \cup told
  BY DEF FilesChanged
<1>2. taken' = taken
  BY DEF FilesChanged, localVars
<1> DEFINE more == pending.files \cup told
<1>3. more \subseteq Paths /\ IsFiniteSet(more)
  <2>1. IsFiniteSet(told) /\ told \subseteq Paths
    BY FS_Subset DEF ReachInv, TypeOK, PhaseInv
  <2> QED
    BY <2>1, FS_Union DEF ReachInv, TypeOK, PhaseInv, Changes
<1>4. CASE pending' = Bounded(more) /\ ~pending.all
  <2>1. ~pending'.all => pending'.files = more
    <3> HIDE DEF more
    <3> QED
      BY <1>3, <1>4, BoundedTypes
  <2> QED
    BY <1>1, <1>2, <1>4, <2>1 DEF ChangesKept
<1>5. CASE pending' = pending /\ pending.all
  BY <1>5 DEF ChangesKept
<1>6. CASE pending' = [files |-> {}, all |-> TRUE]
  BY <1>6 DEF ChangesKept
<1> QED
  BY <1>1, <1>4, <1>5, <1>6

LEMMA ChangesTakenKept ==
  ASSUME ReachInv, ChangesKept, NEW given \in Given, Begin(given)
  PROVE  ChangesKept'
<1>1. taken = NoChanges /\ taken' = pending /\ pending' = NoChanges /\ owed' = owed
  BY DEF Begin, ReachInv, PhaseInv
<1> QED
  BY <1>1 DEF ChangesKept, NoChanges

LEMMA ChangesFinishedKept == ASSUME ChangesKept, Finish PROVE ChangesKept'
<1>1. /\ pending' = pending
      /\ owed' = owed \ (IF taken.all THEN owed \ pending.files ELSE taken.files \ pending.files)
  BY DEF Finish
<1>2. CASE pending.all
  BY <1>1, <1>2 DEF ChangesKept
<1>3. CASE taken.all
  <2>1. owed' \subseteq pending.files
    BY <1>1, <1>3
  <2> QED
    BY <1>1, <2>1 DEF ChangesKept
<1>4. CASE ~pending.all /\ ~taken.all
  <2>1. owed' \subseteq pending.files
    BY <1>1, <1>4 DEF ChangesKept
  <2> QED
    BY <1>1, <2>1 DEF ChangesKept
<1> QED
  BY <1>2, <1>3, <1>4

LEMMA ChangesCanceledKept == ASSUME ReachInv, ChangesKept, Cancel PROVE ChangesKept'
<1>1. pending' = Restored(pending, taken) /\ owed' = owed
  BY DEF Cancel
<1>2. CASE pending.all \/ taken.all
  <2>1. pending'.all
    BY <1>1, <1>2 DEF Restored
  <2> QED
    BY <2>1 DEF ChangesKept
<1>3. CASE ~(pending.all \/ taken.all)
  <2> DEFINE both == pending.files \cup taken.files
  <2>1. pending' = Bounded(both)
    BY <1>1, <1>3 DEF Restored
  <2>2. both \subseteq Paths /\ IsFiniteSet(both)
    BY FS_Union DEF ReachInv, TypeOK, PhaseInv, Changes
  <2>3. owed \subseteq both
    BY <1>3 DEF ChangesKept
  <2> HIDE DEF both
  <2>4. ~pending'.all => pending'.files = both
    BY <2>1, <2>2, BoundedTypes
  <2> QED
    BY <1>1, <2>3, <2>4 DEF ChangesKept
<1> QED
  BY <1>2, <1>3

LEMMA ChangesSame ==
  ASSUME ChangesKept, UNCHANGED <<pending, taken, owed>>
  PROVE  ChangesKept'
BY DEF ChangesKept

(* No change the client has told of is lost: restoreWorkspaceFileChanges gives back *)
(* what a canceled analysis had taken, beside what came since, and when there are    *)
(* more than the backend remembers everything counts as changed.                     *)
THEOREM ToldChangesKept == Spec => []ChangesKept
<1>1. Init => ChangesKept
  BY DEF Init, ChangesKept
<1>2. ReachInv /\ ChangesKept /\ [Next]_vars => ChangesKept'
  <2> SUFFICES ASSUME ReachInv, ChangesKept, [Next]_vars PROVE ChangesKept'
    OBVIOUS
  <2>1. ASSUME NEW given \in Given, Begin(given) PROVE ChangesKept'
    BY <2>1, ChangesTakenKept
  <2>2. CASE Invalidate \/ Attempt \/ Attempted \/ Analyze \/ Capture
    BY <2>2, ChangesSame DEF Invalidate, Attempt, Attempted, Analyze, Capture
  <2>3. CASE Finish
    BY <2>3, ChangesFinishedKept
  <2>4. CASE Cancel
    BY <2>4, ChangesCanceledKept
  <2>5. CASE FilesChanged
    BY <2>5, ChangesToldKept
  <2>6. ASSUME NEW path \in Paths, NEW content \in Content, ChangeDisk(path, content)
        PROVE  ChangesKept'
    BY <2>6, ChangesSame DEF ChangeDisk, localVars
  <2>7. CASE UNCHANGED vars
    BY <2>7, ChangesSame DEF vars, localVars
  <2> QED
    BY <2>1, <2>2, <2>3, <2>4, <2>5, <2>6, <2>7 DEF Next, Analysis
<1> QED
  BY <1>1, <1>2, InitReach, NextReach, PTL DEF Spec

-----------------------------------------------------------------------------
(* What a result is made of                                                 *)

LEMMA OverlayFiles ==
  ASSUME NEW g \in Groups
  PROVE  /\ Overlay(g) \subseteq Files /\ Overlay(g) \cap Controls = {}
         /\ \A f \in Near(g) : f \in Files /\ f \in Sources(g) /\ f \notin Controls
         /\ \A f \in Near(g) : GroupOf[f] \in Closure(g) /\ RootOf[GroupOf[f]] = RootOf[g]
         /\ \A f \in Own(g) : f \in Files /\ f \in Sources(g) /\ f \notin Controls
         /\ \A f \in Overlay(g) : docs[f] # Absent
BY FilesAssumption DEF Overlay, Open, Near, Own, Parsed, Closure, Sources

(* A source in the root of the group is in the overlay when it is open. *)
LEMMA NearOpen ==
  ASSUME NEW g \in Groups, NEW f \in Near(g)
  PROVE  f \in Overlay(g) <=> docs[f] # Absent
<1>1. f \in Files /\ RootOf[GroupOf[f]] = RootOf[g] /\ GroupOf[f] \in Groups
  BY OverlayFiles, FilesAssumption
<1>2. GroupOf[f] \in Covers[RootOf[g]]
  BY <1>1, GroupsAssumption
<1> QED
  BY <1>1, <1>2 DEF Overlay, Open

(* What a group reads, path by path. *)
LEMMA ReadsWhat ==
  ASSUME NEW g \in Groups
  PROVE  /\ \A f \in Overlay(g) : Reads(g, f) = docs[f]
         /\ \A f \in Sources(g) \ Overlay(g) : Reads(g, f) = disk[f]
         /\ \A path \in Controls : Reads(g, path) = disk[path]
BY OverlayFiles DEF Reads

(* What an analysis has just loaded is what there is. *)
LEMMA LoadedMade ==
  ASSUME NEW g \in Groups, Loadable(g)
  PROVE  Fresh(Loaded(g), g)
<1>1. Loaded(g).overlaid = Overlay(g)
  BY DEF Loaded
<1>2. \A path \in Paths : Loaded(g).view[path] = Reads(g, path)
  BY DEF Loaded, View
<1>3. \A path \in Relevant(g) : Loaded(g).view[path] = Reads(g, path)
  BY <1>2, PathsApart DEF Relevant, Sources
<1>4. Populated(g, Loaded(g).view)
  <2>1. ASSUME NEW h \in Closure(g)
        PROVE  \E f \in Files : GroupOf[f] = h /\ Loaded(g).view[f] # Absent
    <3>1. PICK f \in Files : GroupOf[f] = h /\ Reads(g, f) # Absent
      BY DEF Loadable
    <3> QED
      BY <3>1, <1>2, PathsApart
  <2> QED
    BY <2>1 DEF Populated
<1> QED
  BY <1>1, <1>3, <1>4 DEF Fresh

(* What nothing invalidates is open exactly when it is retained, with the same text. *)
LEMMA SparedSame ==
  ASSUME ReachInv, InvalidInv, pc \in {"analyze", "capture"}, NEW h \in Groups, Spared(h),
         h \in Grouped \cup Retained(entries)
  PROVE  /\ h \in Grouped /\ h \in Retained(entries) /\ entries[h].documents = Documents(h)
         /\ FromDisk(h, entries[h]) /\ ~Told(h)
BY DEF InvalidInv, Spared

LEMMA ClosureGroups == \A g \in Groups :
  Closure(g) \subseteq Groups /\ g \in Closure(g) /\ g \in Parsed(g)
BY ImportsAssumption DEF Closure, Parsed

(* A group that is reused is retained, and what it imports from its root is spared. *)
LEMMA ReusedSpares ==
  ASSUME NEW g \in Groups, Reused(g)
  PROVE  /\ g \in Retained(entries) /\ Spared(g)
         /\ \A h \in Closure(g) : h \in Groups /\ (RootOf[h] = RootOf[g] => Spared(h))
BY ClosureGroups DEF Reused, Intersects, Spared, Retained

(* A group that is spared is not behind of any file of its own. *)
LEMMA SparedAbreast ==
  ASSUME ReachInv, InvalidInv, pc \in {"analyze", "capture"}, NEW f \in Files,
         GroupOf[f] \in Grouped \cup Retained(entries), Spared(GroupOf[f]), f \notin touched
  PROVE  f \notin Behind
<1>1. GroupOf[f] \in Groups
  BY FilesAssumption
<1>2. GroupOf[f] \in Grouped /\ ~Told(GroupOf[f])
  BY <1>1, SparedSame
<1>3. ~taken.all
  BY <1>2 DEF InvalidInv, Spared
<1>4. f \notin taken.files
  BY <1>2 DEF Told
<1>5. Behind = touched \cup taken.files
  BY <1>3 DEF Behind, AllOf
<1> QED
  BY <1>4, <1>5

(* A document of a group is in the overlay of those that import it from its root. *)
LEMMA DocumentsOpen ==
  ASSUME NEW g \in Groups, NEW f \in Near(g), Documents(GroupOf[f])[f] # Absent
  PROVE  f \in Overlay(g) /\ Documents(GroupOf[f])[f] = docs[f]
<1>1. Documents(GroupOf[f])[f] = docs[f]
  BY OverlayFiles DEF Documents
<1> QED
  BY <1>1, NearOpen

(* What a reused result imports is what it was made of, as far as that is retained. *)
LEMMA ReusedNear ==
  ASSUME ReachInv, EntriesInv, InvalidInv, pc \in {"analyze", "capture"},
         NEW g \in Groups, Reused(g), NEW f \in Near(g),
         GroupOf[f] \in Grouped \cup Retained(entries)
  PROVE  /\ GroupOf[f] \in Groups /\ Spared(GroupOf[f]) /\ GroupOf[f] \in Retained(entries)
         /\ entries[GroupOf[f]].documents = Documents(GroupOf[f])
         /\ Documents(GroupOf[f])[f] # Absent => entries[g].view[f] = docs[f]
         /\ f \notin entries[g].overlaid \cup entries[GroupOf[f]].overlaid \cup touched =>
              entries[g].view[f] = entries[GroupOf[f]].view[f]
<1>1. f \in Files /\ GroupOf[f] \in Closure(g) /\ RootOf[GroupOf[f]] = RootOf[g]
  BY OverlayFiles
<1>2. GroupOf[f] \in Groups /\ Spared(GroupOf[f]) /\ g \in Retained(entries)
  BY <1>1, ReusedSpares
<1>3. /\ GroupOf[f] \in Retained(entries)
      /\ entries[GroupOf[f]].documents = Documents(GroupOf[f])
  BY <1>2, SparedSame
<1>4. Agree(entries, g, f, Behind)
  BY <1>2, <1>3 DEF EntriesInv
<1>5. f \notin touched => f \notin Behind
  BY <1>1, <1>2, SparedAbreast
<1>6. Documents(GroupOf[f])[f] # Absent => Documents(GroupOf[f])[f] = docs[f]
  BY DocumentsOpen
<1> QED
  BY <1>2, <1>3, <1>4, <1>5, <1>6 DEF Agree

(* A reused result is stale only for what nothing guards. *)
LEMMA ReusedCurrent ==
  ASSUME ReachInv, EntriesInv, InvalidInv, pc \in {"analyze", "capture"},
         NEW g \in Groups, Reused(g), Same(results[g], g),
         NEW path \in Relevant(g) \ touched, path \in Controls \/ Guarded(g, path)
  PROVE  results[g].view[path] = Reads(g, path)
<1>1. g \in Retained(entries) /\ Spared(g)
  BY ReusedSpares
<1>2. FromDisk(g, entries[g])
  BY <1>1, SparedSame
<1>3. results[g].view = entries[g].view /\ results[g].overlaid = entries[g].overlaid
  BY DEF Same
<1>4. CASE path \in Controls
  BY <1>2, <1>3, <1>4, ReadsWhat DEF FromDisk
<1>5. CASE path \notin Controls
  <2>1. path \in Sources(g) /\ path \in Files /\ Guarded(g, path)
    BY <1>5 DEF Relevant, Sources
  <2>2. GroupOf[path] \in Groups
    BY <2>1, FilesAssumption
  <2>3. RootOf[GroupOf[path]] = RootOf[g] => path \in Near(g)
    BY <2>1 DEF Near
  <2>4. CASE path \in entries[g].overlaid \cup Overlay(g)
    <3>1. /\ path \in Near(g) /\ GroupOf[path] \in Retained(entries)
          /\ \/ Documents(GroupOf[path])[path] # Absent
             \/ entries[GroupOf[path]].documents[path] # Absent
      BY <1>3, <2>1, <2>2, <2>3, <2>4 DEF Guarded, Retained
    <3>2. Documents(GroupOf[path])[path] # Absent /\ entries[g].view[path] = docs[path]
      BY <3>1, ReusedNear
    <3>3. path \in Overlay(g)
      BY <3>1, <3>2, DocumentsOpen
    <3> QED
      BY <1>3, <3>2, <3>3, ReadsWhat
  <2>5. CASE path \notin entries[g].overlaid \cup Overlay(g)
    <3>1. Reads(g, path) = disk[path]
      BY <2>1, <2>5, ReadsWhat
    <3>2. CASE GroupOf[path] \in Parsed(g)
      <4>1. path \in Own(g)
        BY <2>1, <3>2 DEF Own
      <4> QED
        BY <1>2, <1>3, <2>5, <3>1, <4>1 DEF FromDisk
    <3>3. CASE GroupOf[path] \notin Parsed(g)
      <4>1. /\ path \in Near(g) /\ GroupOf[path] \in Retained(entries)
            /\ path \notin entries[GroupOf[path]].overlaid
        BY <1>3, <2>1, <2>2, <2>3, <2>5, <3>3 DEF Guarded, Retained
      <4>2. /\ Spared(GroupOf[path])
            /\ entries[g].view[path] = entries[GroupOf[path]].view[path]
        BY <2>5, <4>1, ReusedNear
      <4>3. FromDisk(GroupOf[path], entries[GroupOf[path]])
        BY <2>2, <4>1, <4>2, SparedSame
      <4>4. path \in Own(GroupOf[path])
        BY <2>1, <2>2, ClosureGroups DEF Own
      <4>5. entries[GroupOf[path]].view[path] = disk[path]
        BY <4>1, <4>3, <4>4 DEF FromDisk
      <4> QED
        BY <1>3, <3>1, <4>2, <4>5
    <3> QED
      BY <3>2, <3>3
  <2> QED
    BY <2>4, <2>5
<1> QED
  BY <1>4, <1>5

(* There are results only in the loop over the groups. *)
LEMMA ResultsRunning ==
  ASSUME ReachInv, ResultsInv, NEW g \in Groups, results[g].kind = "result"
  PROVE  pc \in {"analyze", "capture"}
<1>1. results # NoResults
  BY OutcomesApart DEF NoResults
<1> QED
  BY <1>1 DEF ReachInv, TypeOK, PhaseInv, ResultsInv

LEMMA InvGuards == WorkspaceInv => GuardedCurrent
<1> SUFFICES ASSUME WorkspaceInv, NEW g \in Groups, results[g].kind = "result",
                    NEW path \in Relevant(g) \ touched,
                    path \in Controls \/ ~Reused(g) \/ Guarded(g, path)
             PROVE  results[g].view[path] = Reads(g, path)
  BY DEF GuardedCurrent
<1>1. CASE Reused(g)
  <2>1. Same(results[g], g) /\ pc \in {"analyze", "capture"}
    BY <1>1, ResultsRunning DEF WorkspaceInv, ResultsInv
  <2> QED
    BY <1>1, <2>1, ReusedCurrent DEF WorkspaceInv
<1>2. CASE ~Reused(g)
  <2>1. Fresh(results[g], g)
    BY <1>2 DEF WorkspaceInv, ResultsInv
  <2> QED
    BY <2>1 DEF Fresh
<1> QED
  BY <1>1, <1>2

-----------------------------------------------------------------------------
(* What stays as it was made                                                *)

(* What changes on disk while an analysis runs is touched. *)
Untouched == touched \subseteq touched' /\ \A path \in Paths \ touched' : disk'[path] = disk[path]

LEMMA EntryLater ==
  ASSUME NEW e, NEW g \in Groups, NEW late, NEW more, EntryMade(e, g, late), late \subseteq more
  PROVE  EntryMade(e, g, more)
BY DEF EntryMade

LEMMA FromDiskStays ==
  ASSUME NEW g \in Groups, NEW r, FromDisk(g, r), Untouched
  PROVE  \A path \in (Controls \cup (Own(g) \ r.overlaid)) \ touched' : r.view[path] = disk'[path]
<1> SUFFICES ASSUME NEW path \in (Controls \cup (Own(g) \ r.overlaid)) \ touched'
             PROVE  r.view[path] = disk'[path]
  OBVIOUS
<1>1. path \in Paths
  BY OverlayFiles, PathsApart
<1>2. path \notin touched /\ disk'[path] = disk[path]
  BY <1>1 DEF Untouched
<1> QED
  BY <1>2 DEF FromDisk

LEMMA FreshStays ==
  ASSUME NEW g \in Groups, NEW r, Fresh(r, g), docs' = docs, Untouched
  PROVE  Fresh(r, g)'
<1>1. Overlay(g)' = Overlay(g)
  BY DEF Overlay, Open
<1>2. ASSUME NEW path \in Relevant(g), path \in Overlay(g) \/ path \notin touched'
      PROVE  r.view[path] = Reads(g, path)'
  <2>1. path \in Paths
    BY <1>2, PathsApart DEF Relevant, Sources
  <2>2. path \in Overlay(g) \/ path \notin touched
    BY <1>2 DEF Untouched
  <2>3. r.view[path] = Reads(g, path)
    BY <2>2 DEF Fresh
  <2>4. path \in Overlay(g) \/ disk'[path] = disk[path]
    BY <1>2, <2>1 DEF Untouched
  <2>5. Reads(g, path)' = Reads(g, path)
    BY <1>1, <2>4 DEF Reads
  <2> QED
    BY <2>3, <2>5
<1>3. \A path \in Relevant(g) :
        path \in Overlay(g) \/ path \notin touched' => r.view[path] = Reads(g, path)'
  BY <1>2
<1>4. r.overlaid = Overlay(g) /\ Populated(g, r.view)
  BY DEF Fresh
<1> QED
  BY <1>1, <1>3, <1>4 DEF Fresh

LEMMA ReusedSame ==
  ASSUME UNCHANGED <<docs, apart, entries, invalid, invalidRoots>>, NEW g \in Groups
  PROVE  Reused(g)' <=> Reused(g)
BY DEF Reused, Documents, Intersects

LEMMA ResultsStay ==
  ASSUME ResultsInv, UNCHANGED <<docs, apart, entries, invalid, invalidRoots, attempts, results>>,
         pc' = "attempt" => pc = "attempt" /\ todo' = todo, Untouched
  PROVE  ResultsInv'
<1>1. Grouped' = Grouped
  BY GroupedSame
<1>2. ASSUME NEW g \in Groups, attempts[g].kind = "result"
      PROVE  g \in Grouped /\ entries[g] = None /\ Fresh(attempts[g], g)'
  <2>1. PICK r : r = attempts[g] /\ r = attempts'[g]
    OBVIOUS
  <2>2. g \in Grouped /\ entries[g] = None /\ Fresh(r, g)
    BY <1>2, <2>1 DEF ResultsInv
  <2>3. Fresh(r, g)'
    BY <2>2, FreshStays
  <2> QED
    BY <2>1, <2>2, <2>3
<1>3. ASSUME NEW g \in Groups, results[g].kind = "result"
      PROVE  /\ g \in Grouped
             /\ Reused(g)' => Same(results[g], g)'
             /\ ~Reused(g)' => Fresh(results[g], g)'
  <2>1. PICK r : r = results[g] /\ r = results'[g]
    OBVIOUS
  <2>2. /\ g \in Grouped
        /\ Reused(g) => Same(r, g)
        /\ ~Reused(g) => Fresh(r, g)
    BY <1>3, <2>1 DEF ResultsInv
  <2>3. Reused(g)' <=> Reused(g)
    BY ReusedSame
  <2>4. ~Reused(g) => Fresh(r, g)'
    BY <2>2, FreshStays
  <2>5. Same(r, g) => Same(r, g)'
    BY DEF Same
  <2> QED
    BY <2>1, <2>2, <2>3, <2>4, <2>5
<1>4. pc' = "attempt" => results' = NoResults /\ todo' \cap Retained(entries)' = {}
  BY DEF ResultsInv, Retained
<1>5. ASSUME NEW g \in Groups
      PROVE  /\ attempts'[g].kind = "result" =>
                  g \in Grouped' /\ entries'[g] = None /\ Fresh(attempts[g], g)'
             /\ results'[g].kind = "result" =>
                  /\ g \in Grouped'
                  /\ Reused(g)' => Same(results[g], g)'
                  /\ ~Reused(g)' => Fresh(results[g], g)'
  BY <1>1, <1>2, <1>3
<1> QED
  BY <1>4, <1>5 DEF ResultsInv

LEMMA NextEntriesStay ==
  ASSUME NextEntriesInv, UNCHANGED <<docs, apart, results, nextEntries>>,
         touched \subseteq touched',
         pc' = "attempt" => pc = "attempt", todo' \subseteq todo
  PROVE  NextEntriesInv'
<1>1. Retained(nextEntries)' = Retained(nextEntries)
  BY DEF Retained
<1>2. ASSUME NEW g \in Retained(nextEntries)
      PROVE  /\ g \notin todo' /\ results'[g].kind = "result"
             /\ nextEntries'[g].view = results'[g].view
             /\ nextEntries'[g].overlaid = results'[g].overlaid \cup Overlay(g)'
             /\ nextEntries'[g].documents = Documents(g)'
             /\ EntryMade(nextEntries'[g], g, touched')
  <2>1. /\ g \notin todo /\ results[g].kind = "result"
        /\ nextEntries[g].view = results[g].view
        /\ nextEntries[g].overlaid = results[g].overlaid \cup Overlay(g)
        /\ nextEntries[g].documents = Documents(g)
        /\ EntryMade(nextEntries[g], g, touched)
    BY DEF NextEntriesInv
  <2>2. Documents(g)' = Documents(g) /\ Overlay(g)' = Overlay(g)
    BY DEF Documents, Overlay, Open
  <2>3. g \in Groups
    BY DEF Retained
  <2>4. EntryMade(nextEntries[g], g, touched')
    BY <2>1, <2>3, EntryLater
  <2> QED
    BY <2>1, <2>2, <2>4
<1> QED
  BY <1>1, <1>2 DEF NextEntriesInv

LEMMA EntriesStay ==
  ASSUME EntriesInv, entries' = entries, Behind \subseteq Behind'
  PROVE  EntriesInv'
<1>1. Retained(entries)' = Retained(entries)
  BY DEF Retained
<1>2. ASSUME NEW g \in Retained(entries)
      PROVE  /\ EntryMade(entries'[g], g, Behind')
             /\ \A f \in Near(g) : GroupOf[f] \in Retained(entries) =>
                  Agree(entries', g, f, Behind')
  <2>1. /\ EntryMade(entries[g], g, Behind)
        /\ \A f \in Near(g) : GroupOf[f] \in Retained(entries) => Agree(entries, g, f, Behind)
    BY DEF EntriesInv
  <2>2. g \in Groups
    BY DEF Retained
  <2>3. EntryMade(entries[g], g, Behind')
    BY <2>1, <2>2, EntryLater
  <2>4. \A f \in Near(g) : Agree(entries, g, f, Behind) => Agree(entries, g, f, Behind')
    BY DEF Agree
  <2> QED
    BY <2>1, <2>3, <2>4
<1> QED
  BY <1>1, <1>2 DEF EntriesInv

LEMMA InvalidStays ==
  ASSUME InvalidInv, UNCHANGED <<pc, docs, apart, taken, entries, invalid, invalidRoots, todo>>,
         Untouched
  PROVE  InvalidInv'
<1>1. Grouped' = Grouped /\ Retained(entries)' = Retained(entries)
  BY GroupedSame DEF Retained
<1>2. \A g \in Groups : Spared(g)' <=> Spared(g)
  BY DEF Spared
<1>3. \A g \in Groups : Documents(g)' = Documents(g)
  BY DEF Documents
<1>4. SUFFICES ASSUME pc \in {"attempt", "analyze", "capture"},
                      NEW g \in Grouped \cap Retained(entries), Spared(g)
               PROVE  FromDisk(g, entries[g])'
  BY <1>1, <1>2, <1>3, GroupedGroups DEF InvalidInv, Retained, Told
<1>5. PICK r : r = entries[g] /\ r = entries'[g]
  OBVIOUS
<1>6. FromDisk(g, r)
  BY <1>4, <1>5 DEF InvalidInv
<1>7. FromDisk(g, r)'
  BY <1>6, FromDiskStays, GroupedGroups DEF FromDisk
<1> QED
  BY <1>5, <1>7 DEF FromDisk

(* No analysis has begun. *)
LEMMA NothingMade ==
  ASSUME ReachInv, pc \in {"idle", "invalidate"}
  PROVE  InvalidInv /\ ResultsInv /\ NextEntriesInv
<1>1. attempts = NoResults /\ results = NoResults /\ nextEntries = NoResults
  BY DEF ReachInv, PhaseInv
<1>2. \A g \in Groups : attempts[g].kind # "result" /\ results[g].kind # "result"
  BY <1>1, OutcomesApart DEF NoResults
<1>3. Retained(nextEntries) = {}
  BY <1>1, NothingTypes
<1> QED
  BY <1>1, <1>2, <1>3 DEF InvalidInv, ResultsInv, NextEntriesInv

LEMMA NothingMadeNext ==
  ASSUME ReachInv', pc' \in {"idle", "invalidate"}
  PROVE  InvalidInv' /\ ResultsInv' /\ NextEntriesInv'
<1>1. attempts' = NoResults /\ results' = NoResults /\ nextEntries' = NoResults
  BY DEF ReachInv, PhaseInv
<1>2. \A g \in Groups : attempts'[g].kind # "result" /\ results'[g].kind # "result"
  BY <1>1, OutcomesApart DEF NoResults
<1>3. Retained(nextEntries)' = {}
  BY <1>1, NothingTypes DEF Retained
<1> QED
  BY <1>2, <1>3 DEF InvalidInv, ResultsInv, NextEntriesInv

-----------------------------------------------------------------------------
(* What the entries are behind of                                           *)

LEMMA AllOfNothing == AllOf(NoChanges) = {}
BY DEF AllOf, NoChanges

(* What the client tells of, the entries are behind of, and it need not tell again. *)
LEMMA FilesChangedBehind ==
  ASSUME ReachInv, ToldInv, FilesChanged
  PROVE  ToldInv' /\ Behind \subseteq Behind'
<1>1. PICK told \in SUBSET unnotified \ {{}} :
        /\ \/ pending' = IF pending.all THEN pending ELSE Bounded(pending.files \cup told)
           \/ pending' = [files |-> {}, all |-> TRUE]
        /\ unnotified' = unnotified \ told
        /\ touched' = IF pc = "idle" THEN touched \ told ELSE touched
  BY DEF FilesChanged
<1>2. UNCHANGED <<pc, taken>>
  BY DEF FilesChanged, localVars
<1>3. touched \subseteq Paths /\ told \subseteq Paths /\ pending.files \subseteq Paths
  BY DEF ReachInv, TypeOK, Changes
<1>4. AllOf(pending) \subseteq AllOf(pending') /\ told \subseteq AllOf(pending')
  <2> DEFINE more == pending.files \cup told
  <2>1. CASE pending' = Bounded(more) /\ ~pending.all
    <3>1. more \subseteq Paths /\ IsFiniteSet(more)
      <4>1. IsFiniteSet(told)
        BY FS_Subset DEF ReachInv, PhaseInv
      <4> QED
        BY <1>3, <4>1, FS_Union DEF ReachInv, PhaseInv
    <3>2. AllOf(pending) \subseteq more /\ told \subseteq more
      BY <2>1 DEF AllOf
    <3> HIDE DEF more
    <3>3. more \subseteq AllOf(pending')
      BY <2>1, <3>1, BoundedTypes
    <3> QED
      BY <3>2, <3>3
  <2>2. CASE pending' = pending /\ pending.all
    BY <1>3, <2>2 DEF AllOf
  <2>3. CASE pending' = [files |-> {}, all |-> TRUE]
    <3>1. AllOf(pending') = Paths
      BY <2>3, AllTypes
    <3> QED
      BY <1>3, <3>1 DEF AllOf
  <2> QED
    BY <1>1, <2>1, <2>2, <2>3
<1>5. touched \subseteq unnotified \cup AllOf(pending)
  BY DEF ToldInv
<1>6. ToldInv'
  <2>1. pc = "idle" => touched' \subseteq unnotified'
    BY <1>1 DEF ToldInv
  <2>2. touched' \subseteq unnotified' \cup AllOf(pending')
    BY <1>1, <1>4, <1>5
  <2>3. AllOf(pending)' = AllOf(pending')
    BY DEF AllOf
  <2> QED
    BY <1>2, <2>1, <2>2, <2>3 DEF ToldInv
<1>7. Behind \subseteq Behind'
  <2>1. CASE pc = "idle"
    <3>1. Behind = touched \cup AllOf(pending)
      BY <2>1 DEF Behind
    <3>2. Behind' = touched' \cup AllOf(pending')
      BY <1>2, <2>1 DEF Behind, AllOf
    <3> QED
      BY <1>1, <1>4, <3>1, <3>2
  <2>2. CASE pc # "idle"
    BY <1>1, <1>2, <2>2 DEF Behind, AllOf
  <2> QED
    BY <2>1, <2>2
<1> QED
  BY <1>6, <1>7

LEMMA ChangeDiskBehind ==
  ASSUME ToldInv, NEW path \in Paths, NEW content \in Content, ChangeDisk(path, content)
  PROVE  ToldInv' /\ Behind \subseteq Behind'
<1>1. /\ unnotified' = unnotified \cup {path} /\ UNCHANGED <<pending, pc, taken>>
      /\ touched' = IF pc = "idle" THEN touched ELSE touched \cup {path}
  BY DEF ChangeDisk, localVars
<1>2. ToldInv'
  BY <1>1 DEF ToldInv, AllOf
<1>3. Behind \subseteq Behind'
  BY <1>1 DEF Behind, AllOf
<1> QED
  BY <1>2, <1>3

LEMMA BeginBehind ==
  ASSUME ReachInv, ToldInv, NEW given \in Given, Begin(given)
  PROVE  ToldInv' /\ Behind \subseteq Behind'
<1>1. /\ pc = "idle" /\ pc' = "invalidate" /\ taken' = pending /\ pending' = NoChanges
      /\ UNCHANGED <<unnotified, touched>>
  BY DEF Begin, diskVars
<1>2. ToldInv'
  BY <1>1 DEF ToldInv
<1>3. Behind \subseteq Behind'
  BY <1>1 DEF Behind, AllOf
<1> QED
  BY <1>2, <1>3

LEMMA RunningBehind ==
  ASSUME ToldInv, pc # "idle", pc' # "idle", UNCHANGED <<unnotified, touched, pending, taken>>
  PROVE  ToldInv' /\ Behind \subseteq Behind'
<1>1. ToldInv'
  BY DEF ToldInv, AllOf
<1>2. Behind \subseteq Behind'
  BY DEF Behind, AllOf
<1> QED
  BY <1>1, <1>2

LEMMA CancelBehind == ASSUME ReachInv, ToldInv, Cancel PROVE ToldInv' /\ Behind \subseteq Behind'
<1>1. /\ pc # "idle" /\ pc' = "idle" /\ pending' = Restored(pending, taken)
      /\ touched' = touched \cap unnotified /\ unnotified' = unnotified
  BY DEF Cancel, Idle, diskVars
<1>2. AllOf(pending) \cup AllOf(taken) \subseteq AllOf(pending')
  <2>1. pending \in Changes /\ taken \in Changes
    BY DEF ReachInv, TypeOK
  <2>2. IsFiniteSet(pending.files) /\ IsFiniteSet(taken.files)
    BY DEF ReachInv, PhaseInv
  <2> QED
    BY <1>1, <2>1, <2>2, RestoredTypes
<1>3. touched \subseteq unnotified \cup AllOf(pending)
  BY DEF ToldInv
<1>4. ToldInv'
  BY <1>1 DEF ToldInv
<1>5. Behind = touched \cup AllOf(taken) /\ Behind' = touched' \cup AllOf(pending')
  BY <1>1 DEF Behind, AllOf
<1> QED
  BY <1>1, <1>2, <1>3, <1>4, <1>5

LEMMA FinishBehind == ASSUME ToldInv, Finish PROVE ToldInv' /\ touched \subseteq Behind'
<1>1. /\ pc' = "idle" /\ pending' = pending
      /\ touched' = touched \cap unnotified /\ unnotified' = unnotified
  BY DEF Finish, Idle, diskVars
<1>2. touched \subseteq unnotified \cup AllOf(pending)
  BY DEF ToldInv
<1>3. ToldInv'
  BY <1>1 DEF ToldInv
<1>4. Behind' = touched' \cup AllOf(pending')
  BY <1>1 DEF Behind, AllOf
<1>5. touched \subseteq touched' \cup AllOf(pending')
  BY <1>1, <1>2
<1> QED
  BY <1>3, <1>4, <1>5

-----------------------------------------------------------------------------
(* Each step of an analysis                                                 *)

(* What an entry compares with the disk and finds unchanged is what is there. *)
LEMMA CurrentFromDisk ==
  ASSUME ReachInv, EntriesInv, pc = "invalidate", ~taken.all,
         NEW g \in Retained(entries), FilesystemCurrent(entries[g]), ~WatchedGroup(g)
  PROVE  FromDisk(g, entries[g]) /\ ~Told(g)
<1> DEFINE e == entries[g]
<1>1. e \in Entry /\ g \in Groups
  BY RetainedEntry DEF ReachInv, TypeOK
<1>2. EntryMade(e, g, Behind)
  BY DEF EntriesInv
<1>3. Behind = touched \cup taken.files
  BY DEF Behind, AllOf
<1>4. \A path \in taken.files : e.expected[path] = Unchecked
  BY DEF WatchedGroup
<1>5. \A f \in taken.files \cap Files : GroupOf[f] \notin e.directories
  BY DEF WatchedGroup
<1>6. \A path \in Paths : e.expected[path] \in {Unchecked, disk[path]}
  BY DEF FilesystemCurrent
<1>7. Names(e.directories) = e.names
  BY DEF FilesystemCurrent
<1>8. \A path \in Paths : e.view[path] \in Content
  BY <1>1 DEF Entry
<1> HIDE DEF e
<1>9. Unchecked \notin Content
  BY FilesAssumption DEF Content
<1>10. ASSUME NEW path \in Controls \ touched PROVE e.view[path] = disk[path]
  <2>1. e.expected[path] \in Content /\ path \in Paths
    BY <1>2, PathsApart DEF EntryMade
  <2>2. e.expected[path] = disk[path]
    BY <1>6, <1>9, <2>1
  <2>3. path \notin Behind
    BY <1>3, <1>4, <1>9, <2>1
  <2> QED
    BY <1>2, <2>2, <2>3 DEF EntryMade
<1>11. ASSUME NEW f \in (Own(g) \ e.overlaid) \ touched PROVE e.view[f] = disk[f]
  <2>1. f \in Files /\ f \in Paths /\ GroupOf[f] \in Parsed(g)
    BY <1>1, PathsApart DEF Own
  <2>2. CASE e.view[f] # Absent
    <3>1. e.expected[f] = e.view[f]
      BY <1>2, <2>2 DEF EntryMade
    <3> QED
      BY <1>6, <1>8, <1>9, <2>1, <3>1
  <2>3. CASE e.view[f] = Absent
    <3>1. GroupOf[f] \in e.directories
      BY <1>2, <2>1 DEF EntryMade
    <3>2. f \notin Behind
      BY <1>3, <1>5, <2>1, <3>1
    <3>3. f \notin e.names
      BY <1>2, <2>3, <3>2 DEF EntryMade
    <3> QED
      BY <1>7, <2>1, <2>3, <3>1, <3>3 DEF Names
  <2> QED
    BY <2>2, <2>3
<1>12. \A path \in (Controls \cup (Own(g) \ e.overlaid)) \ touched : e.view[path] = disk[path]
  BY <1>10, <1>11
<1>13. g \in e.directories
  BY <1>1, <1>2, ClosureGroups DEF EntryMade
<1>14. ~Told(g)
  BY <1>5, <1>13 DEF Told
<1> QED
  BY <1>12, <1>14 DEF FromDisk, e

(* What the comparison and the changes spare is open, retained and as it was. *)
LEMMA InvalidateInvalid == ASSUME ReachInv, EntriesInv, Invalidate PROVE InvalidInv'
<1> DEFINE changed == {g \in Retained(entries) \cap Grouped : ChangedGroup(g)}
           watched == {g \in Retained(entries) : WatchedGroup(g)}
           gone == changed \cup ClosedGroups \cup watched
<1>1. /\ pc = "invalidate" /\ pc' = "attempt" /\ todo' = Grouped \ Retained(entries)
      /\ invalid' = {<<RootOf[g], g>> : g \in gone}
      /\ invalidRoots' = IF taken.all THEN {RootOf[g] : g \in Grouped} ELSE {}
      /\ UNCHANGED <<disk, entries, docs, apart, taken, touched>>
  BY DEF Invalidate, diskVars
<1>2. Grouped' = Grouped /\ Retained(entries)' = Retained(entries)
  BY <1>1, GroupedSame DEF Retained
<1>3. taken.all => \A g \in Grouped : RootOf[g] \in invalidRoots'
  BY <1>1
<1>4. \A g \in Retained(entries) \ Grouped : <<RootOf[g], g>> \in invalid'
  BY <1>1 DEF ClosedGroups
<1>5. ASSUME NEW g \in Grouped \cap Retained(entries),
             <<RootOf[g], g>> \notin invalid', RootOf[g] \notin invalidRoots'
      PROVE  entries[g].documents = Documents(g) /\ FromDisk(g, entries[g]) /\ ~Told(g)
  <2>1. ~taken.all
    BY <1>3, <1>5
  <2>2. g \notin gone
    BY <1>1, <1>5
  <2>3. ~ChangedGroup(g) /\ ~WatchedGroup(g)
    BY <2>2
  <2>4. entries[g].documents = Documents(g) /\ FilesystemCurrent(entries[g])
    BY <2>3 DEF ChangedGroup
  <2> QED
    BY <1>1, <2>1, <2>3, <2>4, CurrentFromDisk
<1>6. ASSUME NEW g \in Grouped \cap Retained(entries), Spared(g)'
      PROVE  /\ entries'[g].documents = Documents(g)' /\ FromDisk(g, entries[g])'
             /\ ~Told(g)'
  <2>1. entries[g].documents = Documents(g) /\ FromDisk(g, entries[g]) /\ ~Told(g)
    BY <1>5, <1>6 DEF Spared
  <2>2. Documents(g)' = Documents(g)
    BY <1>1 DEF Documents
  <2> QED
    BY <1>1, <2>1, <2>2 DEF FromDisk, Told
<1> QED
  BY <1>1, <1>2, <1>3, <1>4, <1>6 DEF InvalidInv

(* An attempt invalidates its package or its root, whether or not it has a result. *)
LEMMA AttemptInvalid == ASSUME ReachInv, InvalidInv, Attempt PROVE InvalidInv'
<1>0. PICK g : g = Least(todo)
  OBVIOUS
<1>1. /\ pc = "attempt" /\ pc' = "attempt" /\ todo' = todo \ {g}
      /\ UNCHANGED <<disk, entries, docs, apart, taken, touched>>
  BY <1>0 DEF Attempt, diskVars
<1>2. invalid \subseteq invalid' /\ invalidRoots \subseteq invalidRoots'
  BY DEF Attempt
<1>3. <<RootOf[g], g>> \in invalid' \/ RootOf[g] \in invalidRoots'
  BY <1>0 DEF Attempt
<1>4. Grouped' = Grouped /\ Retained(entries)' = Retained(entries)
  BY <1>1, GroupedSame DEF Retained
<1>5. \A h : Spared(h)' => Spared(h)
  BY <1>2 DEF Spared
<1>6. ~Spared(g)'
  BY <1>3 DEF Spared
<1>7. taken.all => \A h \in Grouped : RootOf[h] \in invalidRoots'
  BY <1>1, <1>2 DEF InvalidInv
<1>8. \A h \in Retained(entries) \ Grouped : <<RootOf[h], h>> \in invalid'
  BY <1>1, <1>2 DEF InvalidInv
<1>9. \A h \in Grouped \ Retained(entries) : h \in todo' \/ ~Spared(h)'
  BY <1>1, <1>5, <1>6 DEF InvalidInv
<1>10. ASSUME NEW h \in Grouped \cap Retained(entries), Spared(h)'
       PROVE  /\ entries'[h].documents = Documents(h)' /\ FromDisk(h, entries[h])'
              /\ ~Told(h)'
  <2>1. entries[h].documents = Documents(h) /\ FromDisk(h, entries[h]) /\ ~Told(h)
    BY <1>1, <1>5, <1>10 DEF InvalidInv
  <2>2. Documents(h)' = Documents(h)
    BY <1>1 DEF Documents
  <2> QED
    BY <1>1, <2>1, <2>2 DEF FromDisk, Told
<1> QED
  BY <1>1, <1>4, <1>7, <1>8, <1>9, <1>10 DEF InvalidInv

(* The other steps of an analysis invalidate nothing; none begins before every attempt. *)
LEMMA RunningInvalid ==
  ASSUME InvalidInv, UNCHANGED <<disk, entries, docs, apart, taken, touched>>,
         UNCHANGED <<invalid, invalidRoots>>,
         pc = "attempt" => todo = {},
         pc \in {"attempt", "analyze", "capture"}, pc' \in {"analyze", "capture"}
  PROVE  InvalidInv'
<1>1. Grouped' = Grouped /\ Retained(entries)' = Retained(entries)
  BY GroupedSame DEF Retained
<1>2. \A g : Spared(g)' <=> Spared(g)
  BY DEF Spared
<1>3. \A g \in Grouped \ Retained(entries) : ~Spared(g)'
  BY <1>2 DEF InvalidInv
<1>4. ASSUME NEW g \in Grouped \cap Retained(entries), Spared(g)'
      PROVE  /\ entries'[g].documents = Documents(g)' /\ FromDisk(g, entries[g])'
             /\ ~Told(g)'
  <2>1. entries[g].documents = Documents(g) /\ FromDisk(g, entries[g]) /\ ~Told(g)
    BY <1>2, <1>4 DEF InvalidInv
  <2>2. Documents(g)' = Documents(g)
    BY DEF Documents
  <2> QED
    BY <2>1, <2>2 DEF FromDisk, Told
<1> QED
  BY <1>1, <1>3, <1>4 DEF InvalidInv

(* The result of an attempt that succeeds is what there is. *)
LEMMA AttemptResults ==
  ASSUME ReachInv, ResultsInv, NextEntriesInv, Attempt
  PROVE  ResultsInv' /\ NextEntriesInv'
<1>1. PICK g : g = Least(todo)
  OBVIOUS
<1>2. /\ UNCHANGED <<disk, entries, docs, apart, touched, results, nextEntries>> /\ todo # {}
      /\ pc = "attempt" /\ pc' = pc /\ todo' \subseteq todo
      /\ \/ Loadable(g) /\ attempts' = [attempts EXCEPT ![g] = Loaded(g)]
         \/ attempts' = [attempts EXCEPT ![g] = Failed]
  BY <1>1 DEF Attempt, diskVars
<1>3. g \in Groups /\ g \in todo
  BY <1>1, <1>2, NextGroup
<1>4. g \in Grouped /\ entries[g] = None
  BY <1>2, <1>3 DEF ResultsInv, Retained, ReachInv, PhaseInv
<1>5. attempts \in [Groups -> Result \cup {None, Failed}]
  BY DEF ReachInv, TypeOK
<1>6. Untouched
  BY <1>2 DEF Untouched
<1>7. Grouped' = Grouped
  BY <1>2, GroupedSame
<1>8. ASSUME NEW h \in Groups, attempts'[h].kind = "result"
      PROVE  h \in Grouped /\ entries[h] = None /\ Fresh(attempts[h], h)'
  <2>1. PICK r : r = attempts'[h]
    OBVIOUS
  <2>2. h \in Grouped /\ entries[h] = None /\ Fresh(r, h)
    <3>1. CASE h = g
      <4>1. attempts'[g] # Failed
        BY <1>8, <3>1, OutcomesApart
      <4>2. Loadable(g) /\ attempts'[g] = Loaded(g)
        BY <1>2, <1>3, <1>5, <4>1
      <4> QED
        BY <1>3, <1>4, <2>1, <3>1, <4>2, LoadedMade
    <3>2. CASE h # g
      <4>1. attempts'[h] = attempts[h]
        BY <1>2, <1>5, <3>2
      <4> QED
        BY <1>8, <2>1, <4>1 DEF ResultsInv
    <3> QED
      BY <3>1, <3>2
  <2>3. Fresh(r, h)'
    BY <1>2, <1>6, <2>2, FreshStays
  <2> QED
    BY <2>1, <2>2, <2>3
<1>9. results' = NoResults /\ todo' \cap Retained(entries)' = {}
  BY <1>2 DEF ResultsInv, Retained
<1>10. \A h \in Groups : results'[h].kind # "result"
  BY <1>9, OutcomesApart DEF NoResults
<1>11. NextEntriesInv'
  BY <1>2, NextEntriesStay
<1> QED
  BY <1>2, <1>7, <1>8, <1>9, <1>10, <1>11 DEF ResultsInv

(* The group is captured after it is analyzed: nothing is kept for it yet. *)
LEMMA AnalyzeResults ==
  ASSUME ReachInv, ResultsInv, NextEntriesInv, Analyze
  PROVE  ResultsInv' /\ NextEntriesInv'
<1>1. PICK g : g = Least(todo)
  OBVIOUS
<1>2. /\ UNCHANGED <<disk, entries, docs, apart, touched, invalid, invalidRoots>>
      /\ UNCHANGED <<attempts, nextEntries>>
      /\ pc = "analyze" /\ todo # {} /\ pc' # "attempt" /\ todo' \subseteq todo
      /\ TakesAttempt(g) \/ TakesKept(g) \/ TakesNew(g) \/ TakesFailure(g)
  BY <1>1, AnalyzeTakes DEF diskVars
<1>3. g \in Groups /\ g \in Grouped
  BY <1>1, <1>2, NextGroup
<1>4. results \in [Groups -> Result \cup {None, Failed}]
  BY DEF ReachInv, TypeOK
<1>5. \A h \in Groups \ {g} : results'[h] = results[h]
  BY <1>2, <1>4 DEF TakesAttempt, TakesKept, TakesNew, TakesFailure
<1>6. Untouched
  BY <1>2 DEF Untouched
<1>7. Grouped' = Grouped
  BY <1>2, GroupedSame
<1>8. results'[g].kind = "result" =>
        /\ Reused(g) => Same(results'[g], g)
        /\ ~Reused(g) => Fresh(results'[g], g)
  <2>1. CASE TakesAttempt(g)
    <3>1. results'[g] = attempts[g]
      BY <1>3, <1>4, <2>1 DEF TakesAttempt
    <3>2. entries[g] = None /\ Fresh(attempts[g], g)
      BY <1>3, <2>1 DEF TakesAttempt, ResultsInv
    <3>3. ~Reused(g)
      BY <3>2 DEF Reused
    <3> QED
      BY <3>1, <3>2, <3>3
  <2>2. CASE TakesKept(g)
    <3>1. PICK r : r = [kind |-> "result", view |-> entries[g].view,
                        overlaid |-> entries[g].overlaid]
      OBVIOUS
    <3>2. results'[g] = r
      BY <1>3, <1>4, <2>2, <3>1 DEF TakesKept
    <3>3. r.view = entries[g].view /\ r.overlaid = entries[g].overlaid
      BY <3>1
    <3>4. Same(r, g) /\ Reused(g)
      BY <2>2, <3>3 DEF TakesKept, Same
    <3> QED
      BY <3>2, <3>4
  <2>3. CASE TakesNew(g)
    <3>1. results'[g] = Loaded(g) /\ ~Reused(g)
      BY <1>3, <1>4, <2>3 DEF TakesNew
    <3> QED
      BY <1>3, <2>3, <3>1, LoadedMade DEF TakesNew
  <2>4. CASE TakesFailure(g)
    <3>1. results'[g] = Failed
      BY <1>3, <1>4, <2>4 DEF TakesFailure
    <3> QED
      BY <3>1, OutcomesApart
  <2> QED
    BY <1>2, <2>1, <2>2, <2>3, <2>4
<1>9. ASSUME NEW h \in Groups, results'[h].kind = "result"
      PROVE  /\ h \in Grouped
             /\ Reused(h)' => Same(results[h], h)'
             /\ ~Reused(h)' => Fresh(results[h], h)'
  <2>1. PICK r : r = results'[h]
    OBVIOUS
  <2>2. /\ h \in Grouped
        /\ Reused(h) => Same(r, h)
        /\ ~Reused(h) => Fresh(r, h)
    <3>1. CASE h = g
      BY <1>3, <1>8, <1>9, <2>1, <3>1
    <3>2. CASE h # g
      BY <1>5, <1>9, <2>1, <3>2 DEF ResultsInv
    <3> QED
      BY <3>1, <3>2
  <2>3. Reused(h)' <=> Reused(h)
    BY <1>2, ReusedSame
  <2>4. ~Reused(h) => Fresh(r, h)'
    BY <1>2, <1>6, <2>2, FreshStays
  <2>5. Same(r, h) => Same(r, h)'
    BY <1>2 DEF Same
  <2> QED
    BY <2>1, <2>2, <2>3, <2>4, <2>5
<1>10. ASSUME NEW h \in Groups, attempts'[h].kind = "result"
       PROVE  h \in Grouped /\ entries[h] = None /\ Fresh(attempts[h], h)'
  <2>1. PICK r : r = attempts[h] /\ r = attempts'[h]
    BY <1>2
  <2>2. h \in Grouped /\ entries[h] = None /\ Fresh(r, h)
    BY <1>10, <2>1 DEF ResultsInv
  <2>3. Fresh(r, h)'
    BY <1>2, <1>6, <2>2, FreshStays
  <2> QED
    BY <2>1, <2>2, <2>3
<1>11. ResultsInv'
  BY <1>2, <1>7, <1>9, <1>10 DEF ResultsInv
<1>12. NextEntriesInv'
  <2>1. ASSUME NEW h \in Retained(nextEntries)
        PROVE  h \in Groups /\ h \notin todo /\ results'[h] = results[h]
    <3>1. h \in Groups /\ h \notin todo
      BY DEF NextEntriesInv, Retained
    <3>2. g \in todo
      BY <1>1, <1>2, NextGroup
    <3> QED
      BY <1>5, <3>1, <3>2
  <2>2. Retained(nextEntries)' = Retained(nextEntries)
    BY <1>2 DEF Retained
  <2>3. \A h \in Groups : Documents(h)' = Documents(h) /\ Overlay(h)' = Overlay(h)
    BY <1>2 DEF Documents, Overlay, Open
  <2> QED
    BY <1>2, <2>1, <2>2, <2>3 DEF NextEntriesInv
<1> QED
  BY <1>11, <1>12

(* A result, reused or new, has every package and, where no document hid it, the disk. *)
LEMMA ResultSolid ==
  ASSUME ReachInv, EntriesInv, InvalidInv, ResultsInv,
         NEW g \in Groups, results[g].kind = "result"
  PROVE  /\ Populated(g, results[g].view)
         /\ \A path \in (Controls \cup (Own(g) \ (results[g].overlaid \cup Overlay(g)))) \ touched :
              results[g].view[path] = disk[path]
<1>1. pc \in {"analyze", "capture"} /\ g \in Grouped
  BY ResultsRunning DEF ResultsInv
<1>2. CASE Reused(g)
  <2>1. Same(results[g], g)
    BY <1>2 DEF ResultsInv
  <2>2. g \in Retained(entries) /\ FromDisk(g, entries[g])
    BY <1>1, <1>2, ReusedSpares, SparedSame
  <2>3. Populated(g, entries[g].view)
    BY <2>2 DEF EntriesInv, EntryMade
  <2> QED
    BY <2>1, <2>2, <2>3 DEF Same, FromDisk
<1>3. CASE ~Reused(g)
  <2>1. Fresh(results[g], g)
    BY <1>3 DEF ResultsInv
  <2>2. \A path \in Controls \cup Own(g) : path \in Relevant(g)
    BY OverlayFiles DEF Relevant
  <2>3. \A path \in Controls \cup (Own(g) \ Overlay(g)) : Reads(g, path) = disk[path]
    BY ReadsWhat, OverlayFiles
  <2> QED
    BY <2>1, <2>2, <2>3 DEF Fresh
<1> QED
  BY <1>2, <1>3

(* What is captured compares with the disk what the result took from its sources there. *)
LEMMA CapturedMade ==
  ASSUME disk \in [Paths -> Content], NEW g \in Groups, NEW r \in Result,
         Populated(g, r.view),
         \A path \in (Controls \cup (Own(g) \ (r.overlaid \cup Overlay(g)))) \ touched :
           r.view[path] = disk[path]
  PROVE  EntryMade(EntryOf(r, g), g, touched)
<1> DEFINE e == EntryOf(r, g)
<1>1. /\ e.view = r.view /\ e.overlaid = r.overlaid \cup Overlay(g)
      /\ e.expected = Expected(r, g)
      /\ e.directories = Directories(r, g) /\ e.names = Names(Directories(r, g))
  BY DEF EntryOf
<1>2. ASSUME NEW path \in Controls
      PROVE  /\ e.expected[path] \in Content
             /\ path \notin touched => e.view[path] = e.expected[path]
  <2>1. path \in Paths
    BY PathsApart
  <2>2. e.expected[path] = disk[path]
    BY <1>1, <2>1 DEF Expected
  <2> QED
    BY <1>1, <2>1, <2>2
<1>3. ASSUME NEW f \in Own(g) \ e.overlaid
      PROVE  /\ e.view[f] # Absent => e.expected[f] = e.view[f]
             /\ e.view[f] = Absent /\ f \notin touched => f \notin e.names
  <2>1. f \in Files /\ f \in Paths /\ f \notin Controls /\ f \notin r.overlaid \cup Overlay(g)
    BY <1>1, <1>3, OverlayFiles, PathsApart
  <2>2. e.view[f] # Absent => f \in Captured(g, r.view)
    BY <1>1, <1>3, <2>1 DEF Captured, Own
  <2>3. e.view[f] # Absent => e.expected[f] = e.view[f]
    BY <1>1, <2>1, <2>2 DEF Expected
  <2>4. f \notin touched => e.view[f] = disk[f]
    BY <1>1, <1>3, <2>1
  <2>5. disk[f] = Absent => f \notin e.names
    BY <1>1 DEF Names
  <2> QED
    BY <2>3, <2>4, <2>5
<1>4. Populated(g, e.view)
  BY <1>1
<1>5. Parsed(g) \subseteq e.directories
  <2>1. \A h \in Parsed(g) : \E f \in Files : GroupOf[f] = h /\ r.view[f] # Absent
    BY DEF Populated, Parsed, Closure
  <2>2. \A h \in Parsed(g) : \E f \in Captured(g, r.view) : GroupOf[f] = h
    BY <2>1 DEF Captured
  <2> QED
    BY <1>1, <2>2 DEF Directories
<1> HIDE DEF e
<1>6. EntryMade(e, g, touched)
  BY <1>2, <1>3, <1>4, <1>5 DEF EntryMade
<1> QED
  BY <1>6 DEF e

LEMMA CaptureNextEntries ==
  ASSUME ReachInv, EntriesInv, InvalidInv, ResultsInv, NextEntriesInv, Capture
  PROVE  NextEntriesInv'
<1>1. PICK g : g = Least(todo)
  OBVIOUS
<1>2. /\ UNCHANGED <<disk, docs, apart, touched, results>> /\ pc = "capture" /\ pc' = "analyze"
      /\ todo' = todo \ {g}
      /\ \/ nextEntries' = [nextEntries EXCEPT ![g] = EntryOf(results[g], g)]
         \/ nextEntries' = nextEntries
  BY <1>1 DEF Capture, diskVars
<1>3. CASE nextEntries' = nextEntries
  BY <1>2, <1>3, NextEntriesStay
<1>4. CASE nextEntries' = [nextEntries EXCEPT ![g] = EntryOf(results[g], g)]
  <2>1. todo # {} /\ results[g] \in Result
    BY <1>1, <1>2 DEF ReachInv, PhaseInv
  <2>2. g \in Groups
    BY <1>1, <2>1, NextGroup
  <2>3. nextEntries \in [Groups -> Entry \cup {None}]
    BY DEF ReachInv, TypeOK
  <2>4. PICK r : r = results[g]
    OBVIOUS
  <2>5. r \in Result /\ r.kind = "result"
    BY <2>1, <2>4, OutcomesApart
  <2>6. EntryMade(EntryOf(r, g), g, touched)
    BY <2>2, <2>4, <2>5, ResultSolid, CapturedMade DEF ReachInv, TypeOK
  <2>7. /\ EntryOf(r, g).view = r.view
        /\ EntryOf(r, g).overlaid = r.overlaid \cup Overlay(g)
        /\ EntryOf(r, g).documents = Documents(g)
    BY DEF EntryOf
  <2>8. nextEntries'[g] = EntryOf(r, g)
    BY <1>4, <2>2, <2>3, <2>4
  <2>9. \A h \in Groups \ {g} : nextEntries'[h] = nextEntries[h]
    BY <1>4, <2>3
  <2>10. \A h \in Groups : Documents(h)' = Documents(h) /\ Overlay(h)' = Overlay(h)
    BY <1>2 DEF Documents, Overlay, Open
  <2>11. ASSUME NEW h \in Groups, nextEntries'[h] # None
         PROVE  /\ h \notin todo' /\ results'[h].kind = "result"
                /\ nextEntries'[h].view = results'[h].view
                /\ nextEntries'[h].overlaid = results'[h].overlaid \cup Overlay(h)
                /\ nextEntries'[h].documents = Documents(h)
                /\ EntryMade(nextEntries'[h], h, touched)
    <3>1. CASE h = g
      BY <1>2, <2>4, <2>5, <2>6, <2>7, <2>8, <3>1
    <3>2. CASE h # g
      <4>1. nextEntries'[h] = nextEntries[h] /\ h \in Retained(nextEntries)
        BY <2>9, <2>11, <3>2 DEF Retained
      <4> QED
        BY <1>2, <3>2, <4>1 DEF NextEntriesInv
    <3> QED
      BY <3>1, <3>2
  <2>12. ASSUME NEW h \in Retained(nextEntries)'
         PROVE  /\ h \notin todo' /\ results'[h].kind = "result"
                /\ nextEntries'[h].view = results'[h].view
                /\ nextEntries'[h].overlaid = results'[h].overlaid \cup Overlay(h)'
                /\ nextEntries'[h].documents = Documents(h)'
                /\ EntryMade(nextEntries'[h], h, touched')
    <3>1. h \in Groups /\ nextEntries'[h] # None
      BY DEF Retained
    <3> QED
      BY <1>2, <2>10, <2>11, <3>1
  <2> QED
    BY <1>2, <2>12 DEF NextEntriesInv
<1> QED
  BY <1>2, <1>3, <1>4

(* A group that is reused imports from its root, as far as there are results, retained  *)
(* groups that are reused as well.                                                      *)
LEMMA ReusedBoth ==
  ASSUME ReachInv, EntriesInv, InvalidInv, pc \in {"analyze", "capture"},
         NEW g \in Groups, Reused(g), NEW f \in Near(g), GroupOf[f] \in Grouped
  PROVE  Reused(GroupOf[f])
<1>1. /\ GroupOf[f] \in Groups /\ GroupOf[f] \in Retained(entries) /\ Spared(GroupOf[f])
      /\ entries[GroupOf[f]].documents = Documents(GroupOf[f])
  BY ReusedNear
<1>2. GroupOf[f] \in Closure(g) /\ RootOf[GroupOf[f]] = RootOf[g]
  BY OverlayFiles
<1>3. Closure(GroupOf[f]) \subseteq Closure(g)
  BY <1>2, ImportsAssumption DEF Closure
<1>4. ~Intersects(g, invalid) /\ RootOf[g] \notin invalidRoots
  BY DEF Reused
<1>5. ~Intersects(GroupOf[f], invalid)
  BY <1>2, <1>3, <1>4 DEF Intersects
<1> QED
  BY <1>1, <1>2, <1>4, <1>5 DEF Reused, Retained

(* Results of one analysis were made of the same documents and of the same files. *)
LEMMA ResultsAgree ==
  ASSUME ReachInv, EntriesInv, InvalidInv, ResultsInv,
         NEW g \in Groups, results[g].kind = "result", NEW f \in Near(g),
         results[GroupOf[f]].kind = "result"
  PROVE  /\ Documents(GroupOf[f])[f] # Absent => results[g].view[f] = docs[f]
         /\ f \notin results[g].overlaid \cup results[GroupOf[f]].overlaid \cup Overlay(g)
                     \cup Overlay(GroupOf[f]) \cup touched =>
              results[g].view[f] = results[GroupOf[f]].view[f]
<1> DEFINE h == GroupOf[f]
           shown == f \notin results[g].overlaid \cup results[h].overlaid \cup Overlay(g)
                               \cup Overlay(h) \cup touched
<1>1. f \in Files /\ h \in Groups /\ f \in Sources(g)
  BY OverlayFiles, FilesAssumption
<1>2. pc \in {"analyze", "capture"} /\ h \in Grouped
  BY <1>1, ResultsRunning DEF ResultsInv
<1>3. CASE Reused(g)
  <2>1. Reused(h)
    BY <1>2, <1>3, ReusedBoth
  <2>2. Same(results[g], g) /\ Same(results[h], h)
    BY <1>1, <1>3, <2>1 DEF ResultsInv
  <2>3. /\ Documents(h)[f] # Absent => entries[g].view[f] = docs[f]
        /\ f \notin entries[g].overlaid \cup entries[h].overlaid \cup touched =>
             entries[g].view[f] = entries[h].view[f]
    BY <1>2, <1>3, ReusedNear
  <2> QED
    BY <2>2, <2>3 DEF Same
<1>4. CASE ~Reused(g)
  <2>1. Fresh(results[g], g)
    BY <1>4 DEF ResultsInv
  <2>2. f \in Relevant(g)
    BY <1>1 DEF Relevant
  <2>3. f \in Overlay(g) => results[g].view[f] = docs[f]
    BY <2>1, <2>2, ReadsWhat DEF Fresh
  <2>4. Documents(h)[f] # Absent => f \in Overlay(g)
    BY DocumentsOpen
  <2>5. shown => results[g].view[f] = disk[f]
    BY <1>1, <2>1, <2>2, ReadsWhat DEF Fresh
  <2>6. shown => results[h].view[f] = disk[f]
    <3>1. f \in Own(h)
      BY <1>1, ClosureGroups DEF Own
    <3> QED
      BY <1>1, <3>1, ResultSolid
  <2> QED
    BY <2>3, <2>4, <2>5, <2>6
<1> QED
  BY <1>3, <1>4

(* So entries that an analysis retains together agree. *)
LEMMA SurvivorsAgree ==
  ASSUME ReachInv, EntriesInv, InvalidInv, ResultsInv, NextEntriesInv,
         NEW g \in Retained(nextEntries), NEW f \in Near(g),
         GroupOf[f] \in Retained(nextEntries)
  PROVE  Agree(nextEntries, g, f, touched)
<1> DEFINE h == GroupOf[f]
<1>1. g \in Groups /\ f \in Files /\ h \in Groups
  BY OverlayFiles, FilesAssumption DEF Retained
<1>2. /\ results[g].kind = "result" /\ nextEntries[g].view = results[g].view
      /\ nextEntries[g].overlaid = results[g].overlaid \cup Overlay(g)
  BY DEF NextEntriesInv
<1>3. /\ results[h].kind = "result" /\ nextEntries[h].view = results[h].view
      /\ nextEntries[h].overlaid = results[h].overlaid \cup Overlay(h)
      /\ nextEntries[h].documents = Documents(h)
  BY DEF NextEntriesInv
<1>4. /\ Documents(h)[f] # Absent => results[g].view[f] = docs[f]
      /\ f \notin results[g].overlaid \cup results[h].overlaid \cup Overlay(g)
                  \cup Overlay(h) \cup touched =>
           results[g].view[f] = results[h].view[f]
  BY <1>1, <1>2, <1>3, ResultsAgree
<1>5. Documents(h)[f] # Absent => Documents(h)[f] = docs[f]
  BY <1>1, DocumentsOpen
<1> QED
  BY <1>2, <1>3, <1>4, <1>5 DEF Agree

LEMMA FinishEntries ==
  ASSUME ReachInv, ToldInv, EntriesInv, InvalidInv, ResultsInv, NextEntriesInv, Finish
  PROVE  EntriesInv'
<1>1. /\ Survivors \subseteq Groups /\ Retained(entries') = Survivors
      /\ \A g \in Survivors : entries'[g] = nextEntries[g] /\ nextEntries[g] \in Entry
  BY FinishRetains
<1>2. Survivors \subseteq Retained(nextEntries)
  BY <1>1, OutcomesApart DEF Retained
<1>3. touched \subseteq Behind'
  BY FinishBehind
<1>4. ASSUME NEW g \in Survivors
      PROVE  /\ EntryMade(entries'[g], g, Behind')
             /\ \A f \in Near(g) : GroupOf[f] \in Survivors => Agree(entries', g, f, Behind')
  <2>1. EntryMade(nextEntries[g], g, touched)
    BY <1>2 DEF NextEntriesInv
  <2>2. EntryMade(entries'[g], g, Behind')
    <3>1. g \in Groups
      BY <1>1
    <3>2. EntryMade(nextEntries[g], g, Behind')
      BY <1>3, <2>1, <3>1, EntryLater
    <3> QED
      BY <1>1, <3>2
  <2>3. ASSUME NEW f \in Near(g), GroupOf[f] \in Survivors PROVE Agree(entries', g, f, Behind')
    <3>1. Agree(nextEntries, g, f, touched)
      BY <1>2, <2>3, SurvivorsAgree
    <3>2. Agree(nextEntries, g, f, Behind')
      BY <1>3, <3>1 DEF Agree
    <3> QED
      BY <1>1, <2>3, <3>2 DEF Agree
  <2> QED
    BY <2>2, <2>3
<1>5. Retained(entries)' = Survivors
  BY <1>1 DEF Retained
<1> QED
  BY <1>4, <1>5 DEF EntriesInv

-----------------------------------------------------------------------------
(* The invariant                                                            *)

LEMMA InitInv == Init => WorkspaceInv
<1> SUFFICES ASSUME Init PROVE WorkspaceInv
  OBVIOUS
<1>1. ReachInv /\ pc = "idle"
  BY InitReach DEF Init
<1>2. ToldInv
  BY DEF Init, ToldInv
<1>3. EntriesInv
  BY NothingTypes DEF Init, EntriesInv
<1> QED
  BY <1>1, <1>2, <1>3, NothingMade DEF WorkspaceInv

LEMMA FilesChangedInv == ASSUME WorkspaceInv, FilesChanged PROVE WorkspaceInv'
<1> USE DEF WorkspaceInv
<1>1. /\ UNCHANGED <<disk, entries, pc, docs, apart, taken, invalid, invalidRoots, todo>>
      /\ UNCHANGED <<attempts, results, nextEntries>>
      /\ touched' = touched \/ pc = "idle"
  BY DEF FilesChanged, localVars
<1>2. ReachInv'
  BY FilesChangedReach
<1>3. ToldInv' /\ EntriesInv'
  BY <1>1, FilesChangedBehind, EntriesStay
<1>4. InvalidInv' /\ ResultsInv' /\ NextEntriesInv'
  <2>1. CASE pc = "idle"
    BY <1>1, <1>2, <2>1, NothingMadeNext
  <2>2. CASE touched' = touched
    <3>1. Untouched
      BY <1>1, <2>2 DEF Untouched
    <3> QED
      BY <1>1, <2>2, <3>1, InvalidStays, ResultsStay, NextEntriesStay
  <2> QED
    BY <1>1, <2>1, <2>2
<1> QED
  BY <1>2, <1>3, <1>4

LEMMA ChangeDiskInv ==
  ASSUME WorkspaceInv, NEW path \in Paths, NEW content \in Content, ChangeDisk(path, content)
  PROVE  WorkspaceInv'
<1> USE DEF WorkspaceInv
<1>1. /\ UNCHANGED <<entries, pc, docs, apart, taken, invalid, invalidRoots, todo>>
      /\ UNCHANGED <<attempts, results, nextEntries>>
      /\ touched' = IF pc = "idle" THEN touched ELSE touched \cup {path}
      /\ disk' = [disk EXCEPT ![path] = content]
  BY DEF ChangeDisk, localVars
<1>2. ReachInv'
  BY ChangeDiskReach
<1>3. ToldInv' /\ EntriesInv'
  BY <1>1, ChangeDiskBehind, EntriesStay
<1>4. InvalidInv' /\ ResultsInv' /\ NextEntriesInv'
  <2>1. CASE pc = "idle"
    BY <1>1, <1>2, <2>1, NothingMadeNext
  <2>2. CASE pc # "idle"
    <3>1. Untouched
      <4>1. disk \in [Paths -> Content]
        BY DEF ReachInv, TypeOK
      <4> QED
        BY <1>1, <2>2, <4>1 DEF Untouched
    <3> QED
      BY <1>1, <2>2, <3>1, InvalidStays, ResultsStay, NextEntriesStay
  <2> QED
    BY <2>1, <2>2
<1> QED
  BY <1>2, <1>3, <1>4

LEMMA BeginInv == ASSUME WorkspaceInv, NEW given \in Given, Begin(given) PROVE WorkspaceInv'
<1> USE DEF WorkspaceInv
<1>1. pc' = "invalidate" /\ entries' = entries
  BY DEF Begin
<1>2. ReachInv'
  BY BeginReach
<1>3. ToldInv' /\ EntriesInv'
  BY <1>1, BeginBehind, EntriesStay
<1> QED
  BY <1>1, <1>2, <1>3, NothingMadeNext

LEMMA InvalidateInv == ASSUME WorkspaceInv, Invalidate PROVE WorkspaceInv'
<1> USE DEF WorkspaceInv
<1>1. /\ pc = "invalidate" /\ pc' = "attempt"
      /\ UNCHANGED <<disk, unnotified, entries, pending, docs, apart, taken, attempts>>
      /\ UNCHANGED <<results, nextEntries, touched>>
  BY DEF Invalidate, diskVars
<1>2. ReachInv'
  BY InvalidateReach
<1>3. ToldInv' /\ EntriesInv'
  BY <1>1, RunningBehind, EntriesStay
<1>4. InvalidInv'
  BY InvalidateInvalid
<1>5. ResultsInv'
  <2>1. attempts' = NoResults /\ results' = NoResults
    BY <1>1 DEF ReachInv, PhaseInv
  <2>2. \A g \in Groups : attempts'[g].kind # "result" /\ results'[g].kind # "result"
    BY <2>1, OutcomesApart DEF NoResults
  <2>3. todo' \cap Retained(entries)' = {}
    BY <1>1 DEF Invalidate, Retained
  <2> QED
    BY <2>1, <2>2, <2>3 DEF ResultsInv
<1>6. NextEntriesInv'
  <2>1. Retained(nextEntries)' = {}
    BY <1>1, NothingTypes DEF ReachInv, PhaseInv, Retained
  <2> QED
    BY <2>1 DEF NextEntriesInv
<1> QED
  BY <1>2, <1>3, <1>4, <1>5, <1>6

LEMMA AttemptInv == ASSUME WorkspaceInv, Attempt PROVE WorkspaceInv'
<1> USE DEF WorkspaceInv
<1>1. /\ pc = "attempt" /\ pc' = pc
      /\ UNCHANGED <<unnotified, entries, pending, taken, touched>>
  BY DEF Attempt, diskVars
<1>2. ToldInv' /\ EntriesInv'
  BY <1>1, RunningBehind, EntriesStay
<1> QED
  BY <1>2, AttemptReach, AttemptInvalid, AttemptResults

LEMMA AttemptedInv == ASSUME WorkspaceInv, Attempted PROVE WorkspaceInv'
<1> USE DEF WorkspaceInv
<1>1. /\ pc = "attempt" /\ todo = {} /\ pc' = "analyze"
      /\ UNCHANGED <<disk, unnotified, entries, pending, docs, apart, taken>>
      /\ UNCHANGED <<invalid, invalidRoots, attempts, results, nextEntries, touched>>
  BY DEF Attempted, diskVars
<1>2. ReachInv'
  BY AttemptedReach
<1>3. ToldInv' /\ EntriesInv'
  BY <1>1, RunningBehind, EntriesStay
<1>4. InvalidInv'
  BY <1>1, RunningInvalid
<1>5. ResultsInv'
  BY <1>1, ResultsStay DEF Untouched
<1>6. NextEntriesInv'
  <2>1. Retained(nextEntries)' = {}
    BY <1>1 DEF NextEntriesInv, Retained
  <2> QED
    BY <2>1 DEF NextEntriesInv
<1> QED
  BY <1>2, <1>3, <1>4, <1>5, <1>6

LEMMA AnalyzeInv == ASSUME WorkspaceInv, Analyze PROVE WorkspaceInv'
<1> USE DEF WorkspaceInv
<1>1. /\ pc = "analyze" /\ pc' \in {"analyze", "capture"}
      /\ UNCHANGED <<disk, unnotified, entries, pending, docs, apart, taken>>
      /\ UNCHANGED <<invalid, invalidRoots, touched>>
  BY AnalyzeTakes DEF diskVars
<1>2. ToldInv' /\ EntriesInv'
  BY <1>1, RunningBehind, EntriesStay
<1>3. InvalidInv'
  BY <1>1, RunningInvalid
<1> QED
  BY <1>2, <1>3, AnalyzeReach, AnalyzeResults

LEMMA CaptureInv == ASSUME WorkspaceInv, Capture PROVE WorkspaceInv'
<1> USE DEF WorkspaceInv
<1>1. /\ pc = "capture" /\ pc' = "analyze"
      /\ UNCHANGED <<disk, unnotified, entries, pending, docs, apart, taken>>
      /\ UNCHANGED <<invalid, invalidRoots, attempts, results, touched>>
  BY DEF Capture, diskVars
<1>2. ToldInv' /\ EntriesInv'
  BY <1>1, RunningBehind, EntriesStay
<1>3. InvalidInv'
  BY <1>1, RunningInvalid
<1>4. ResultsInv'
  BY <1>1, ResultsStay DEF Untouched
<1> QED
  BY <1>2, <1>3, <1>4, CaptureReach, CaptureNextEntries

LEMMA FinishInv == ASSUME WorkspaceInv, Finish PROVE WorkspaceInv'
<1> USE DEF WorkspaceInv
<1>1. pc' = "idle"
  BY DEF Finish, Idle
<1>2. ReachInv' /\ ToldInv' /\ EntriesInv'
  BY FinishReach, FinishBehind, FinishEntries
<1> QED
  BY <1>1, <1>2, NothingMadeNext

LEMMA CancelInv == ASSUME WorkspaceInv, Cancel PROVE WorkspaceInv'
<1> USE DEF WorkspaceInv
<1>1. pc' = "idle" /\ entries' = entries
  BY DEF Cancel, Idle
<1>2. ReachInv' /\ ToldInv' /\ EntriesInv'
  BY <1>1, CancelReach, CancelBehind, EntriesStay
<1> QED
  BY <1>1, <1>2, NothingMadeNext

LEMMA StutterInv == ASSUME WorkspaceInv, UNCHANGED vars PROVE WorkspaceInv'
<1> USE DEF WorkspaceInv
<1>1. /\ UNCHANGED <<disk, changes, unnotified, entries, pending, pc, docs, apart, taken>>
      /\ UNCHANGED <<invalid, invalidRoots, todo, attempts, results, nextEntries, touched, owed>>
  BY DEF vars, diskVars, localVars
<1>2. ToldInv' /\ Behind \subseteq Behind'
  BY <1>1 DEF ToldInv, Behind, AllOf
<1>3. EntriesInv'
  BY <1>1, <1>2, EntriesStay
<1>4. Untouched
  BY <1>1 DEF Untouched
<1>5. InvalidInv' /\ ResultsInv' /\ NextEntriesInv'
  BY <1>1, <1>4, InvalidStays, ResultsStay, NextEntriesStay
<1> QED
  BY <1>2, <1>3, <1>5, StutterReach

LEMMA NextInv == WorkspaceInv /\ [Next]_vars => WorkspaceInv'
<1> SUFFICES ASSUME WorkspaceInv, [Next]_vars PROVE WorkspaceInv'
  OBVIOUS
<1>1. ASSUME NEW given \in Given, Begin(given) PROVE WorkspaceInv'
  BY <1>1, BeginInv
<1>2. CASE Invalidate
  BY <1>2, InvalidateInv
<1>3. CASE Attempt
  BY <1>3, AttemptInv
<1>4. CASE Attempted
  BY <1>4, AttemptedInv
<1>5. CASE Analyze
  BY <1>5, AnalyzeInv
<1>6. CASE Capture
  BY <1>6, CaptureInv
<1>7. CASE Finish
  BY <1>7, FinishInv
<1>8. CASE Cancel
  BY <1>8, CancelInv
<1>9. CASE FilesChanged
  BY <1>9, FilesChangedInv
<1>10. ASSUME NEW path \in Paths, NEW content \in Content, ChangeDisk(path, content)
       PROVE  WorkspaceInv'
  BY <1>10, ChangeDiskInv
<1>11. CASE UNCHANGED vars
  BY <1>11, StutterInv
<1> QED
  BY <1>1, <1>2, <1>3, <1>4, <1>5, <1>6, <1>7, <1>8, <1>9, <1>10, <1>11 DEF Next, Analysis

(* A result an analysis returns, retained or new, is of the documents it was given and *)
(* of the disk, apart from paths that changed under an analysis and from documents and  *)
(* other roots that nothing guards: lspWorkspaceInvalidation, the attempts before the    *)
(* loop and the comparison of documents together leave no other retained result stale.   *)
THEOREM ReuseCurrent == Spec => []GuardedCurrent
BY InitInv, NextInv, InvGuards, PTL DEF Spec
=============================================================================
