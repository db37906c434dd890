---------------------------- MODULE LspWorkspace ----------------------------
(***************************************************************************)
(* internal/cli/lsp.go: lspBackend.AnalyzeWorkspace, the analysis of all     *)
(* open documents that LspServer asks for, and WorkspaceFilesChanged, which  *)
(* runs beside it. The results of packages are retained from one analysis to *)
(* the next and reused when nothing they were made of has changed: the text  *)
(* of open documents, files on disk, the names in directories, module files. *)
(*                                                                         *)
(* A group is the open documents of one package; a document that does not    *)
(* load, or whose rules need no types, is in none, and its text is in the    *)
(* overlay of the others all the same. The result of an analysis stands for  *)
(* what it was made of, its view. A directory holds one package.             *)
(* Digests stand for contents. Only the packages of a root are compared by   *)
(* path. The typed package session beneath a load is taken to be exact.      *)
(***************************************************************************)
EXTENDS Naturals, FiniteSets, FiniteSetsExt

CONSTANTS
  Groups,       \* packages, in the order of compareLSPPackageGroupKey
  Roots,        \* project roots
  RootOf,       \* the root of each group
  Covers,       \* the groups whose documents lie under each root
  Imports,      \* the groups each group imports, directly or not
  WithDependencies,  \* groups with a rule that needs the syntax of what they import
  Files,        \* Go files
  GroupOf,      \* the package of each file
  Opened,       \* BOUND: what each file may be in an editor
  Ungrouped,    \* the files whose documents may belong to no group
  Saved,        \* BOUND: what each path may change to on disk
  Controls,     \* go.mod, go.sum, go.work, the baseline of the root
  Texts,        \* contents
  Absent,       \* of a file that does not exist, or that is not open
  Unchecked,    \* of a file that is not compared with the disk
  Size,         \* of each text
  MaximumEntries,       \* maximumLSPWorkspacePackageEntries
  MaximumBytes,         \* maximumLSPWorkspaceAccountedBytes
  MaximumChangedFiles,  \* maximumLSPWorkspaceChangedFiles
  InitialDisk,
  MaxChanges    \* BOUND on changes to files on disk

ASSUME GroupsAssumption ==
  /\ Groups \subseteq Nat /\ IsFiniteSet(Groups) /\ Size \in [Texts -> Nat]
  /\ RootOf \in [Groups -> Roots] /\ Covers \in [Roots -> SUBSET Groups]
  /\ \A g \in Groups : g \in Covers[RootOf[g]]
ASSUME ImportsAssumption ==
  /\ Imports \in [Groups -> SUBSET Groups]
  /\ \A g \in Groups : g \notin Imports[g] /\ \A h \in Imports[g] : Imports[h] \subseteq Imports[g]
ASSUME FilesAssumption ==
  /\ GroupOf \in [Files -> Groups] /\ Files \cap Controls = {}
  /\ WithDependencies \subseteq Groups /\ Ungrouped \subseteq Files
  /\ {Absent, Unchecked} \cap Texts = {} /\ Absent # Unchecked
ASSUME BoundsAssumption ==
  {MaximumEntries, MaximumBytes, MaximumChangedFiles, MaxChanges} \subseteq Nat

Paths == Files \cup Controls
Content == Texts \cup {Absent}
ASSUME DiskAssumption ==
  /\ InitialDisk \in [Paths -> Content]
  /\ Opened \in [Files -> SUBSET Content] /\ Saved \in [Paths -> SUBSET Content]

None == [kind |-> "none"]
Failed == [kind |-> "failed"]
Result == [kind : {"result"}, view : [Paths -> Content], overlaid : SUBSET Files]

(* lspWorkspacePackageEntry: expected and names are what is validated before reuse. *)
(* overlaid is history: the documents that were open when the result was made, or at *)
(* an analysis that reused it.                                                       *)
Entry == [kind : {"result"}, view : [Paths -> Content], overlaid : SUBSET Files,
          documents : [Files -> Content],
          expected : [Paths -> Content \cup {Unchecked}],
          directories : SUBSET Groups, names : SUBSET Files]

Changes == [files : SUBSET Paths, all : BOOLEAN]
NoChanges == [files |-> {}, all |-> FALSE]

VARIABLES
  disk,         \* the content of each path
  changes,      \* how often it changed
  unnotified,   \* changed paths the client has not told of
  entries,      \* lspWorkspaceSession.entries
  pending,      \* workspaceChangedFiles, workspaceInvalidateAll
  pc,           \* where the analysis is
  docs,         \* the documents it was given
  apart,        \* those that belong to no group
  taken,        \* the changes it took
  invalid,      \* invalidatedPackages: roots and packages
  invalidRoots, \* invalidateRoots
  todo,         \* groups the loop has still to visit
  attempts,     \* the results of groups that were not retained
  results,      \* the result of each group
  nextEntries,  \* what will be retained
  touched,      \* history: paths that changed while the analysis ran, or while an earlier one
                \* ran and the client had not told of it when this one began
  owed          \* history: notified changes no finished analysis has taken

diskVars == <<disk, changes, unnotified>>
localVars == <<docs, apart, taken, invalid, invalidRoots, todo, attempts, results, nextEntries>>
vars == <<diskVars, entries, pending, pc, localVars, touched, owed>>

Closure(g) == {g} \cup Imports[g]

(* The packages whose sources a result has: what a package imports is read from export *)
(* data unless a rule of the package needs its syntax (packageLoadMode).               *)
Parsed(g) == IF g \in WithDependencies THEN Closure(g) ELSE {g}

(* PackageSourceSet: the files of a result. *)
Captured(g, view) == {f \in Files : GroupOf[f] \in Parsed(g) /\ view[f] # Absent}

Views(es, groups) == {<<g, es[g].view>> : g \in groups}

(* lspWorkspacePackageAccountedBytes: the size of every source a result has. *)
AccountedBytes(views) ==
  LET bytes(v) == MapThenSumSet(LAMBDA f : Size[v[2][f]], Captured(v[1], v[2]))
  IN MapThenSumSet(bytes, views)

Retained(es) == {g \in Groups : es[g] # None}

(* The state is made of what the code keeps; the retained results are within both bounds. *)
TypeOK ==
  /\ disk \in [Paths -> Content] /\ changes \in 0..MaxChanges /\ unnotified \in SUBSET Paths
  /\ entries \in [Groups -> Entry \cup {None}]
  /\ Cardinality(Retained(entries)) <= MaximumEntries
  /\ \/ Cardinality(Retained(entries)) <= 1
     \/ AccountedBytes(Views(entries, Retained(entries))) <= MaximumBytes
  /\ pending \in Changes /\ taken \in Changes
  /\ Cardinality(pending.files) <= MaximumChangedFiles
  /\ pc \in {"idle", "invalidate", "attempt", "analyze", "capture"}
  /\ docs \in [Files -> Content] /\ apart \in SUBSET Files
  /\ invalid \in SUBSET (Roots \X Groups) /\ invalidRoots \in SUBSET Roots
  /\ todo \in SUBSET Groups
  /\ attempts \in [Groups -> Result \cup {None, Failed}]
  /\ results \in [Groups -> Result \cup {None, Failed}]
  /\ nextEntries \in [Groups -> Entry \cup {None}]
  /\ touched \in SUBSET Paths /\ owed \in SUBSET Paths

NoDocs == [f \in Files |-> Absent]
NoResults == [g \in Groups |-> None]

Init ==
  /\ disk = InitialDisk /\ changes = 0 /\ unnotified = {}
  /\ entries = NoResults
  /\ pending = NoChanges /\ taken = NoChanges
  /\ pc = "idle" /\ docs = NoDocs /\ apart = {}
  /\ invalid = {} /\ invalidRoots = {} /\ todo = {}
  /\ attempts = NoResults /\ results = NoResults /\ nextEntries = NoResults
  /\ touched = {} /\ owed = {}

-----------------------------------------------------------------------------
(* What a package is made of                                                *)

Least(set) == CHOOSE x \in set : \A y \in set : x <= y
Open == {f \in Files : docs[f] # Absent}
Grouped == {GroupOf[f] : f \in Open \ apart}

(* editorWorkspaceOverlay: every open document under the root of the group. *)
Overlay(g) == {f \in Open : GroupOf[f] \in Covers[RootOf[g]]}

Sources(g) == {f \in Files : GroupOf[f] \in Closure(g)}

(* What an analysis of the group reads now. *)
Reads(g, path) ==
  IF path \in Overlay(g) THEN docs[path]
  ELSE IF path \in Sources(g) \cup Controls THEN disk[path] ELSE Absent
View(g) == [path \in Paths |-> Reads(g, path)]

(* A package that has no file is a diagnostic of the load, with which an analysis fails. *)
Loadable(g) == \A h \in Closure(g) : \E f \in Files : GroupOf[f] = h /\ Reads(g, f) # Absent

Documents(g) == [f \in Files |-> IF GroupOf[f] = g /\ f \notin apart THEN docs[f] ELSE Absent]
Names(directories) == {f \in Files : GroupOf[f] \in directories /\ disk[f] # Absent}

(* captureLSPWorkspaceFilesystem: the sources the result has, as it has them, except *)
(* those of open documents; module files and directories as they are by now.          *)
Expected(result, g) == [path \in Paths |->
  IF path \in Controls THEN disk[path]
  ELSE IF path \in Captured(g, result.view) \ Overlay(g) THEN result.view[path]
  ELSE Unchecked]
Directories(result, g) == {GroupOf[f] : f \in Captured(g, result.view)}

EntryOf(result, g) ==
  [kind |-> "result", view |-> result.view, overlaid |-> result.overlaid \cup Overlay(g),
   documents |-> Documents(g), expected |-> Expected(result, g),
   directories |-> Directories(result, g), names |-> Names(Directories(result, g))]

(* lspWorkspaceFilesystemCurrent *)
FilesystemCurrent(entry) ==
  /\ \A path \in Paths : entry.expected[path] \in {Unchecked, disk[path]}
  /\ Names(entry.directories) = entry.names

(* lspPackageEntryIntersects *)
Intersects(g, packages) == \E h \in Closure(g) : <<RootOf[g], h>> \in packages

-----------------------------------------------------------------------------
(* File changes                                                             *)

Bounded(files) ==
  IF Cardinality(files) > MaximumChangedFiles THEN [files |-> {}, all |-> TRUE]
  ELSE [files |-> files, all |-> FALSE]

(* WorkspaceFilesChanged: of some paths, or of anything. *)
FilesChanged ==
  /\ \E told \in SUBSET unnotified \ {{}} :
       /\ \/ pending' = IF pending.all THEN pending ELSE Bounded(pending.files \cup told)
          \/ pending' = [files |-> {}, all |-> TRUE]
       /\ unnotified' = unnotified \ told
       /\ owed' = owed \cup told
       /\ touched' = IF pc = "idle" THEN touched \ told ELSE touched
  /\ UNCHANGED <<disk, changes, entries, pc, localVars>>

\* Mutant: what was taken takes the place of what has come since.
RestoredOnly(now, before) == before

(* restoreWorkspaceFileChanges *)
Restored(now, before) ==
  IF now.all \/ before.all THEN [files |-> {}, all |-> TRUE]
  ELSE Bounded(now.files \cup before.files)

(* An editor that saves, another program, a tool of Go. *)
ChangeDisk(path, content) ==
  /\ changes < MaxChanges /\ changes' = changes + 1
  /\ content \in Saved[path] \ {disk[path]}
  /\ disk' = [disk EXCEPT ![path] = content]
  /\ unnotified' = unnotified \cup {path}
  /\ touched' = IF pc = "idle" THEN touched ELSE touched \cup {path}
  /\ UNCHANGED <<entries, pending, pc, localVars, owed>>

-----------------------------------------------------------------------------
(* AnalyzeWorkspace                                                         *)

(* takeWorkspaceFileChanges, and the groups of the documents: a text that does not load *)
(* or parse, a path without options and rules that need no types are of no group.       *)
Begin(given) ==
  /\ pc = "idle" /\ pc' = "invalidate"
  /\ docs' = given
  /\ apart' \in SUBSET {f \in Ungrouped : given[f] # Absent}
  /\ taken' = pending /\ pending' = NoChanges
  /\ UNCHANGED <<diskVars, entries, invalid, invalidRoots, todo, attempts, results, nextEntries>>
  /\ UNCHANGED <<touched, owed>>

\* Mutant: a group that is not open any more is forgotten.
GoneGroups == {}

(* The groups that were retained and have no open document now. *)
ClosedGroups == Retained(entries) \ Grouped

ChangedGroup(g) == entries[g].documents # Documents(g) \/ ~FilesystemCurrent(entries[g])

(* lspWorkspaceWatchedInvalidation *)
WatchedGroup(g) ==
  \E path \in taken.files :
    \/ entries[g].expected[path] # Unchecked
    \/ path \in Files /\ GroupOf[path] \in entries[g].directories

(* lspWorkspaceInvalidation *)
Invalidate ==
  /\ pc = "invalidate" /\ pc' = "attempt"
  /\ LET changed == {g \in Retained(entries) \cap Grouped : ChangedGroup(g)}
         watched == {g \in Retained(entries) : WatchedGroup(g)}
     IN invalid' = {<<RootOf[g], g>> : g \in changed \cup ClosedGroups \cup watched}
  /\ invalidRoots' = IF taken.all THEN {RootOf[g] : g \in Grouped} ELSE {}
  /\ todo' = Grouped \ Retained(entries)
  /\ UNCHANGED <<diskVars, entries, pending, docs, apart, taken, attempts, results, nextEntries>>
  /\ UNCHANGED <<touched, owed>>

Loaded(g) == [kind |-> "result", view |-> View(g), overlaid |-> Overlay(g)]

(* A group that is not retained is analyzed first: its package invalidates those that *)
(* import it. When its analysis fails its packages may still be known, or be found by *)
(* the discovery of the graph; when they are not, everything under the root goes.      *)
Attempt ==
  /\ pc = "attempt" /\ todo # {}
  /\ LET g == Least(todo)
     IN /\ \/ /\ Loadable(g)
              /\ attempts' = [attempts EXCEPT ![g] = Loaded(g)]
              /\ invalid' = invalid \cup {<<RootOf[g], g>>}
              /\ UNCHANGED invalidRoots
           \/ /\ attempts' = [attempts EXCEPT ![g] = Failed]
              /\ \/ invalid' = invalid \cup {<<RootOf[g], g>>} /\ UNCHANGED invalidRoots
                 \/ invalidRoots' = invalidRoots \cup {RootOf[g]} /\ UNCHANGED invalid
        /\ todo' = todo \ {g}
  /\ UNCHANGED <<diskVars, entries, pending, pc, docs, apart, taken, results, nextEntries>>
  /\ UNCHANGED <<touched, owed>>

Attempted ==
  /\ pc = "attempt" /\ todo = {}
  /\ pc' = "analyze" /\ todo' = Grouped
  /\ UNCHANGED <<diskVars, entries, pending, docs, apart, taken, invalid, invalidRoots, attempts>>
  /\ UNCHANGED <<results, nextEntries, touched, owed>>

Reused(g) ==
  /\ entries[g] # None
  /\ entries[g].documents = Documents(g)
  /\ RootOf[g] \notin invalidRoots
  /\ ~Intersects(g, invalid)

(* The group takes the result that is retained, the one of the attempt, or a new one. *)
Analyze ==
  /\ pc = "analyze" /\ todo # {}
  /\ LET g == Least(todo)
         kept == [kind |-> "result", view |-> entries[g].view, overlaid |-> entries[g].overlaid]
     IN \/ /\ attempts[g].kind = "result" \/ (attempts[g] = None /\ (Reused(g) \/ Loadable(g)))
           /\ results' = [results EXCEPT ![g] =
                IF attempts[g] # None THEN attempts[g]
                ELSE IF Reused(g) THEN kept ELSE Loaded(g)]
           /\ pc' = "capture" /\ UNCHANGED todo
        \/ /\ attempts[g] = Failed \/ (attempts[g] = None /\ ~Reused(g))
           /\ results' = [results EXCEPT ![g] = Failed]
           /\ todo' = todo \ {g} /\ UNCHANGED pc
  /\ UNCHANGED <<diskVars, entries, pending, docs, apart, taken, invalid, invalidRoots, attempts>>
  /\ UNCHANGED <<nextEntries, touched, owed>>

(* What will be validated is captured; when that fails, or the result does not cover *)
(* every document, it is returned but not retained.                                   *)
Capture ==
  /\ pc = "capture" /\ pc' = "analyze"
  /\ LET g == Least(todo)
     IN /\ todo' = todo \ {g}
        /\ \/ nextEntries' = [nextEntries EXCEPT ![g] = EntryOf(results[g], g)]
           \/ UNCHANGED nextEntries
  /\ UNCHANGED <<diskVars, entries, pending, docs, apart, taken, invalid, invalidRoots, attempts>>
  /\ UNCHANGED <<results, touched, owed>>

\* Mutant: only the number is bounded.
FitsNumber(g, kept) == Cardinality(kept) < MaximumEntries

(* The entries that were used last are kept, as far as both bounds allow; the first *)
(* is kept whatever its size. kept is what the later groups have taken.              *)
Fits(g, kept) ==
  /\ Cardinality(kept) < MaximumEntries
  /\ kept = {} \/ AccountedBytes(Views(nextEntries, kept \cup {g})) <= MaximumBytes

(* boundLSPWorkspaceEntries: every group was used in this analysis, the last one last. *)
Survivors ==
  CHOOSE kept \in SUBSET Groups : \A g \in Groups :
    g \in kept <=> nextEntries[g] # None /\ Fits(g, {h \in kept : h > g})

Idle ==
  /\ pc' = "idle" /\ docs' = NoDocs /\ apart' = {} /\ taken' = NoChanges
  /\ invalid' = {} /\ invalidRoots' = {} /\ todo' = {} /\ touched' = touched \cap unnotified
  /\ attempts' = NoResults /\ results' = NoResults /\ nextEntries' = NoResults

Finish ==
  /\ pc = "analyze" /\ todo = {}
  /\ entries' = [g \in Groups |-> IF g \in Survivors THEN nextEntries[g] ELSE None]
  /\ owed' = owed \ (IF taken.all THEN owed \ pending.files ELSE taken.files \ pending.files)
  /\ Idle
  /\ UNCHANGED <<diskVars, pending>>

(* The context ends: what was taken is restored, what was retained stays. *)
Cancel ==
  /\ pc \in {"attempt", "analyze"} /\ todo # {}
  /\ pending' = Restored(pending, taken)
  /\ Idle
  /\ UNCHANGED <<diskVars, entries, owed>>

-----------------------------------------------------------------------------
Given == {given \in [Files -> Content] : \A f \in Files : given[f] \in Opened[f]}

Analysis ==
  \/ \E given \in Given : Begin(given)
  \/ Invalidate \/ Attempt \/ Attempted \/ Analyze \/ Capture \/ Finish \/ Cancel

Next ==
  \/ Analysis
  \/ FilesChanged
  \/ \E path \in Paths, content \in Content : ChangeDisk(path, content)

Spec == Init /\ [][Next]_vars

-----------------------------------------------------------------------------
(* Properties                                                               *)

Relevant(g) == Sources(g) \cup Controls

(* Every result an analysis returns, retained or new, is of the documents it was given *)
(* and of the disk, whether or not the client tells of changes to files, apart from    *)
(* paths that changed while it ran, or while an earlier one ran and that the client    *)
(* has not told of since: directories and module files are captured after the load.    *)
ResultsCurrent ==
  \A g \in Groups : results[g].kind = "result" =>
    \A path \in Relevant(g) \ touched : results[g].view[path] = Reads(g, path)

(* The validation compares the sources a result has with the disk, and the documents  *)
(* of every group; a change of a package invalidates what imports it only when that    *)
(* package is retained. So a document is compared as long as it belongs to a retained   *)
(* group; any other file when the result has its source, or a retained result of its    *)
(* package has, and no document has hidden it from the disk since that was made.        *)
Guarded(g, f) ==
  LET h == GroupOf[f]
      retained == RootOf[h] = RootOf[g] /\ entries[h] # None
  IN IF f \in results[g].overlaid \cup Overlay(g)
     THEN retained /\ (Documents(h)[f] # Absent \/ entries[h].documents[f] # Absent)
     ELSE h \in Parsed(g) \/ (retained /\ f \notin entries[h].overlaid)

(* ResultsCurrent for every new result, and for every guarded path of a reused one:    *)
(* whatever fails, is canceled or is evicted, nothing the validation guards is stale.   *)
GuardedCurrent ==
  \A g \in Groups : results[g].kind = "result" =>
    \A path \in Relevant(g) \ touched :
      path \in Controls \/ ~Reused(g) \/ Guarded(g, path) =>
        results[g].view[path] = Reads(g, path)

(* A change the client has told of stays with the backend, by name or as a change of   *)
(* everything, until an analysis that took it is finished: cancellations and overflows  *)
(* lose none.                                                                           *)
ChangesKept == pending.all \/ taken.all \/ owed \subseteq pending.files \cup taken.files
=============================================================================
