--------------------------- MODULE AtomicReplace ---------------------------
(***************************************************************************)
(* What glippy promises of a file it writes, whatever else is going on:     *)
(* each operation puts one whole content at the path, in one step and at    *)
(* most once; a creation never takes the place of a file; an operation that *)
(* returns no error did what it was asked, and one that reports a stale     *)
(* source did nothing; and a power loss leaves one of the whole contents    *)
(* the path has had. FileReplace, the code of internal/filesystem, is shown *)
(* to implement it.                                                         *)
(***************************************************************************)
EXTENDS Naturals

CONSTANTS
  Procs,      \* operations on one path: Snapshot.Replace, Snapshot.Validate, CreateWithin
  Contents,   \* whole contents of a file
  Absent,     \* the path names no file
  Rewrite,    \* what replaces each content
  Created     \* what a creation writes

VARIABLES
  current,    \* what the path holds
  possible,   \* what it may hold after a power loss
  edits,      \* how often other programs changed the path
  task,       \* what each operation is for
  basis,      \* the content each operation read, Absent before it did
  installed,  \* has it put its output at the path?
  outcome     \* what it returned

vars == <<current, possible, edits, task, basis, installed, outcome>>

Tasks == {"replace", "validate", "create"}
Outcomes == {"running", "done", "stale", "failed", "crashed"}

TypeOK ==
  /\ current \in Contents \cup {Absent}
  /\ possible \in SUBSET (Contents \cup {Absent})
  /\ edits \in Nat
  /\ task \in [Procs -> Tasks]
  /\ basis \in [Procs -> Contents \cup {Absent}]
  /\ installed \in [Procs -> BOOLEAN]
  /\ outcome \in [Procs -> Outcomes]

Init ==
  /\ current \in Contents \cup {Absent}
  /\ possible = {current}
  /\ edits = 0
  /\ task \in [Procs -> Tasks]
  /\ basis = [p \in Procs |-> Absent]
  /\ installed = [p \in Procs |-> FALSE]
  /\ outcome = [p \in Procs |-> "running"]

(* Another program changes the file, its name or its directory. *)
Change ==
  /\ edits' = edits + 1
  /\ current' \in Contents \cup {Absent}
  /\ possible' = possible \cup {current'}
  /\ UNCHANGED <<task, basis, installed, outcome>>

(* The operation reads the content its output is made from. *)
Take(p) ==
  /\ outcome[p] = "running" /\ task[p] # "create" /\ basis[p] = Absent
  /\ basis' \in {[basis EXCEPT ![p] = c] : c \in Contents}
  /\ UNCHANGED <<current, possible, edits, task, installed, outcome>>

Output(p) == IF task[p] = "create" THEN Created ELSE Rewrite[basis[p]]

(* The output takes the place of what the path held, whole and at once. *)
Install(p) ==
  /\ outcome[p] = "running" /\ ~installed[p] /\ task[p] # "validate"
  /\ IF task[p] = "create"
     THEN current = Absent
     ELSE basis[p] # Absent /\ Output(p) # basis[p]
  /\ installed' = [installed EXCEPT ![p] = TRUE]
  /\ current' = Output(p)
  /\ possible' = possible \cup {Output(p)}
  /\ UNCHANGED <<edits, task, basis, outcome>>

Performed(p) ==
  CASE task[p] = "create"   -> installed[p]
    [] task[p] = "validate" -> basis[p] # Absent
    [] OTHER                -> installed[p] \/ (basis[p] # Absent /\ Output(p) = basis[p])

(* Before it returns the operation may have the file system write out what it has done. *)
Return(p) ==
  /\ outcome[p] = "running"
  /\ \/ Performed(p) /\ outcome' = [outcome EXCEPT ![p] = "done"]
     \/ ~installed[p] /\ outcome' = [outcome EXCEPT ![p] = "stale"]
     \/ outcome' = [outcome EXCEPT ![p] = "failed"]
  /\ possible' \in SUBSET possible /\ current \in possible'
  /\ UNCHANGED <<current, edits, task, basis, installed>>

Crash(p) ==
  /\ outcome[p] = "running"
  /\ outcome' = [outcome EXCEPT ![p] = "crashed"]
  /\ UNCHANGED <<current, possible, edits, task, basis, installed>>

PowerLoss ==
  /\ current' \in possible
  /\ possible' = {current'}
  /\ outcome' = [p \in Procs |-> IF outcome[p] = "running" THEN "crashed" ELSE outcome[p]]
  /\ UNCHANGED <<edits, task, basis, installed>>

Next ==
  \/ Change
  \/ \E p \in Procs : Take(p) \/ Install(p) \/ Return(p) \/ Crash(p)
  \/ PowerLoss

Spec == Init /\ [][Next]_vars
=============================================================================
