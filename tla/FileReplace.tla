---------------------------- MODULE FileReplace ----------------------------
(***************************************************************************)
(* internal/filesystem/replace.go: operations of one or several glippy      *)
(* processes on one path (Read then Snapshot.Replace or Snapshot.Validate,  *)
(* and CreateWithin), system call by system call, while other programs edit *)
(* the file, any call fails, a process is killed or the machine loses       *)
(* power.                                                                   *)
(*                                                                         *)
(* The path's directory entry names an inode; the inode has a mode and a    *)
(* content; "entries" and "durable" are what a power loss may leave of      *)
(* them. Opening a file and asking for its attributes is one step, and so   *)
(* is reading it. A digest stands for the content it is taken of. Hard      *)
(* links, reused inode numbers and temporary names that exist are left out. *)
(***************************************************************************)
EXTENDS Naturals

CONSTANTS
  Procs,      \* operations; operation p writes its temporary file as inode p
  Contents,   \* whole contents of a file
  Torn,       \* a content of which only a part, or nothing, is there
  Modes,      \* permission bits
  Private,    \* 0600, the mode a temporary file is created with
  Size,       \* the size of each content
  Rewrite,    \* what replaces each content: the formatted or fixed source
  Created,    \* the content CreateWithin is given
  CreateMode, \* and the mode
  MaxEdits,   \* BOUND on what other programs do
  Nil

ASSUME SizeAssumption == Size \in [Contents -> Nat]
ASSUME RewriteAssumption == Rewrite \in [Contents -> Contents] /\ Created \in Contents
ASSUME ModesAssumption == Private \in Modes /\ CreateMode \in Modes
ASSUME EditsAssumption == MaxEdits \in Nat
ASSUME DistinctAssumption ==
  /\ Torn \notin Contents \cup {Nil}
  /\ Procs \cap (Nat \cup {Nil}) = {}
  /\ Nil \notin Contents \cup Modes \cup Nat

(* 0 is the file the path first names, the others are new files of editors. *)
Inodes == (0..MaxEdits) \cup Procs
Entry == [kind : {"file", "link"}, inode : Inodes, seq : Nat]
           \cup [kind : {"absent"}, inode : {Nil}, seq : Nat]
Data == Contents \cup {Torn}

(* Snapshot: the listed and opened file's identity, then its attributes and bytes. *)
Snapshot == [inode : Inodes \cup {Nil}, mode : Modes \cup {Nil}, size : Nat,
             content : Contents \cup {Nil}]
NoSnapshot == [inode |-> Nil, mode |-> Nil, size |-> 0, content |-> Nil]

Tasks == {"replace", "validate", "create"}
Checks == {"lstat", "open", "compare"}
Steps == {"readLstat", "readOpen", "readAll", "root", "lookup", "create", "write", "chmod",
          "sync", "close", "install", "unlink", "syncDir", "cleanup"} \cup Checks
Aspects == {"root", "kind", "inode", "mode", "content"}

VARIABLES
  entry,      \* what the path names, and the count of changes to it
  content,    \* of each inode
  mode,       \* of each inode
  entries,    \* the entries a power loss may leave
  durable,    \* the contents it may leave of each inode
  rootMoved,  \* another directory stands where the authorized root stood
  edits,      \* what other programs did
  task,       \* what each operation is for
  pc,         \* the call each operation makes next
  snap,       \* Snapshot of each operation
  handle,     \* the inode it has open
  temp,       \* its temporary name: "none", "present", or "stuck" when removing it failed
  installed,  \* entry.seq of its rename or link, 0 before
  result,     \* what it returns
  unseen      \* history: what others changed since the operation last checked it

pathVars == <<entry, entries, rootMoved>>
inodeVars == <<content, mode, durable>>
procVars == <<pc, snap, handle, temp, installed, result>>
vars == <<pathVars, inodeVars, edits, task, procVars, unseen>>

PathTypes ==
  /\ entry \in Entry /\ entries \in SUBSET Entry /\ rootMoved \in BOOLEAN
  /\ entry.kind # "absent" => content[entry.inode] \in Contents
InodeTypes ==
  /\ content \in [Inodes -> Data]
  /\ mode \in [Inodes -> Modes]
  /\ durable \in [Inodes -> SUBSET Data]
ProcTypes ==
  /\ pc \in [Procs -> Steps \cup {"returned", "crashed"}]
  /\ snap \in [Procs -> Snapshot]
  /\ handle \in [Procs -> Inodes \cup {Nil}]
  /\ temp \in [Procs -> {"none", "present", "stuck"}]
  /\ installed \in [Procs -> Nat]
  /\ result \in [Procs -> {"none", "done", "stale", "failed"}]

(* The state is made of what the code keeps and the file system can hold, and no *)
(* reader of the path ever finds a file that is not whole.                        *)
TypeOK ==
  /\ PathTypes /\ InodeTypes /\ ProcTypes
  /\ edits \in 0..MaxEdits
  /\ task \in [Procs -> Tasks]
  /\ unseen \in [Procs -> SUBSET Aspects]

Init ==
  /\ \/ /\ entry = [kind |-> "file", inode |-> 0, seq |-> 0]
        /\ content \in {[i \in Inodes |-> IF i = 0 THEN c ELSE Torn] : c \in Contents}
        /\ mode \in {[i \in Inodes |-> IF i = 0 THEN m ELSE Private] : m \in Modes}
     \/ /\ entry = [kind |-> "absent", inode |-> Nil, seq |-> 0]
        /\ content = [i \in Inodes |-> Torn]
        /\ mode = [i \in Inodes |-> Private]
  /\ entries = {entry}
  /\ durable = [i \in Inodes |-> {content[i]}]
  /\ rootMoved = FALSE
  /\ edits = 0
  /\ task \in [Procs -> Tasks]
  /\ pc = [p \in Procs |-> IF task[p] = "create" THEN "lookup" ELSE "readLstat"]
  /\ snap = [p \in Procs |-> NoSnapshot]
  /\ handle = [p \in Procs |-> Nil]
  /\ temp = [p \in Procs |-> "none"]
  /\ installed = [p \in Procs |-> 0]
  /\ result = [p \in Procs |-> "none"]
  /\ unseen = [p \in Procs |-> {}]

-----------------------------------------------------------------------------
(* How an operation goes on and ends.                                       *)

Goto(p, from, to) == pc[p] = from /\ pc' = [pc EXCEPT ![p] = to]

\* Mutant: keepTemporary is cleared too early.
ReturnAtOnce(p, from, outcome) ==
  pc[p] = from /\ pc' = [pc EXCEPT ![p] = "returned"] /\ result' = [result EXCEPT ![p] = outcome]

(* An early return: the deferred Remove is still to come when there is a temporary file. *)
Return(p, from, outcome) ==
  /\ pc[p] = from
  /\ pc' = [pc EXCEPT ![p] = IF temp[p] = "present" THEN "cleanup" ELSE "returned"]
  /\ result' = [result EXCEPT ![p] = outcome]

Sees(p, aspects) == unseen' = [unseen EXCEPT ![p] = @ \ aspects]

(* Calls that read only. *)
ReadOnly == UNCHANGED <<pathVars, inodeVars, edits, task, temp, installed>>

-----------------------------------------------------------------------------
(* ReadWithin                                                               *)

ReadLstat(p) ==
  /\ pc[p] = "readLstat"
  /\ \/ /\ entry.kind = "file"
        /\ Goto(p, "readLstat", "readOpen")
        /\ snap' = [snap EXCEPT ![p].inode = entry.inode]
        /\ UNCHANGED result
     \/ /\ entry.kind # "file"
        /\ Return(p, "readLstat", "failed")
        /\ UNCHANGED snap
  /\ ReadOnly /\ UNCHANGED <<handle, unseen>>

ReadOpen(p) ==
  /\ pc[p] = "readOpen"
  /\ \/ /\ entry.inode = snap[p].inode
        /\ Goto(p, "readOpen", "readAll")
        /\ snap' = [snap EXCEPT ![p].mode = mode[entry.inode],
                                ![p].size = Size[content[entry.inode]]]
        /\ handle' = [handle EXCEPT ![p] = entry.inode]
        /\ UNCHANGED result
     \/ /\ entry.inode # snap[p].inode
        /\ Return(p, "readOpen", IF entry.kind = "absent" THEN "failed" ELSE "stale")
        /\ UNCHANGED <<snap, handle>>
  /\ ReadOnly /\ UNCHANGED unseen

ReadAll(p) ==
  /\ Goto(p, "readAll", "root")
  /\ snap' = [snap EXCEPT ![p].content = content[handle[p]]]
  /\ handle' = [handle EXCEPT ![p] = Nil]
  /\ ReadOnly /\ UNCHANGED <<result, unseen>>

-----------------------------------------------------------------------------
(* Replace and Validate: the root, then the source.                         *)

OpenRoot(p) ==
  /\ \/ ~rootMoved /\ Goto(p, "root", "lstat") /\ UNCHANGED result
     \/ rootMoved /\ Return(p, "root", "stale")
  /\ Sees(p, {"root"})
  /\ ReadOnly /\ UNCHANGED <<snap, handle>>

SameFile(p, inode) == inode = snap[p].inode
SameMode(p, inode) == mode[inode] = snap[p].mode

Listed(p) == entry.kind = "file" /\ SameFile(p, entry.inode) /\ SameMode(p, entry.inode)

CheckLstat(p) ==
  /\ pc[p] = "lstat"
  /\ \/ Listed(p) /\ Goto(p, "lstat", "open") /\ UNCHANGED result
     \/ ~Listed(p) /\ Return(p, "lstat", "stale")
  /\ Sees(p, {"kind", "inode", "mode"})
  /\ ReadOnly /\ UNCHANGED <<snap, handle>>

Opened(p) ==
  /\ entry.kind # "absent" /\ SameFile(p, entry.inode) /\ SameMode(p, entry.inode)
  /\ Size[content[entry.inode]] = snap[p].size

CheckOpen(p) ==
  /\ pc[p] = "open"
  /\ \/ /\ Opened(p)
        /\ Goto(p, "open", "compare")
        /\ handle' = [handle EXCEPT ![p] = entry.inode]
        /\ UNCHANGED result
     \/ ~Opened(p) /\ Return(p, "open", "stale") /\ UNCHANGED handle
  /\ Sees(p, {"inode", "mode"})
  /\ ReadOnly /\ UNCHANGED snap

Output(p) == IF task[p] = "create" THEN Created ELSE Rewrite[snap[p].content]

\* Mutant: the second check stops at the attributes.
SameBytesOnce(p) == temp[p] = "present" \/ content[handle[p]] = snap[p].content

SameBytes(p) == content[handle[p]] = snap[p].content

(* After the first check: is there anything to replace? *)
NothingToWrite(p) == task[p] = "validate" \/ Output(p) = snap[p].content

CheckBytes(p) ==
  /\ pc[p] = "compare"
  /\ \/ ~SameBytes(p) /\ Return(p, "compare", "stale")
     \/ /\ SameBytes(p) /\ temp[p] = "none" /\ NothingToWrite(p)
        /\ Return(p, "compare", "done")
     \/ /\ SameBytes(p) /\ temp[p] = "none" /\ ~NothingToWrite(p)
        /\ Goto(p, "compare", "create") /\ UNCHANGED result
     \/ SameBytes(p) /\ temp[p] = "present" /\ Goto(p, "compare", "install") /\ UNCHANGED result
  /\ Sees(p, {"content"})
  /\ handle' = [handle EXCEPT ![p] = Nil]
  /\ ReadOnly /\ UNCHANGED snap

(* CreateWithin: nothing may be there. *)
Lookup(p) ==
  /\ \/ entry.kind = "absent" /\ Goto(p, "lookup", "create") /\ UNCHANGED result
     \/ entry.kind # "absent" /\ Return(p, "lookup", "stale")
  /\ ReadOnly /\ UNCHANGED <<snap, handle, unseen>>

-----------------------------------------------------------------------------
(* The temporary file                                                       *)

Unseeing == UNCHANGED <<edits, task, snap, handle, unseen>>

CreateTemporary(p) ==
  /\ Goto(p, "create", "write")
  /\ temp' = [temp EXCEPT ![p] = "present"]
  /\ mode' = [mode EXCEPT ![p] = Private]
  /\ content' = [content EXCEPT ![p] = Torn]
  /\ UNCHANGED <<pathVars, durable, installed, result>> /\ Unseeing

\* Mutant: a short write goes unnoticed.
WriteShort(p) ==
  /\ Goto(p, "write", "chmod")
  /\ UNCHANGED <<pathVars, inodeVars, temp, installed, result>> /\ Unseeing

(* Until it is synced, a power loss may leave any part of it. *)
Write(p) ==
  /\ Goto(p, "write", "chmod")
  /\ content' = [content EXCEPT ![p] = Output(p)]
  /\ durable' = [durable EXCEPT ![p] = @ \cup {Output(p)}]
  /\ UNCHANGED <<pathVars, mode, temp, installed, result>> /\ Unseeing

Chmod(p) ==
  /\ Goto(p, "chmod", "sync")
  /\ mode' = [mode EXCEPT ![p] = IF task[p] = "create" THEN CreateMode ELSE snap[p].mode]
  /\ UNCHANGED <<pathVars, content, durable, temp, installed, result>> /\ Unseeing

\* Mutant: the temporary file is not synced.
SyncNothing(p) ==
  /\ Goto(p, "sync", "close")
  /\ UNCHANGED <<pathVars, inodeVars, temp, installed, result>> /\ Unseeing

Sync(p) ==
  /\ Goto(p, "sync", "close")
  /\ durable' = [durable EXCEPT ![p] = {content[p]}]
  /\ UNCHANGED <<pathVars, content, mode, temp, installed, result>> /\ Unseeing

(* A replacement validates the source once more, a creation links at once. *)
AfterClose(p) == IF task[p] = "create" THEN "install" ELSE "lstat"

Close(p) ==
  /\ Goto(p, "close", AfterClose(p))
  /\ UNCHANGED <<pathVars, inodeVars, temp, installed, result>> /\ Unseeing

(* The directory entry changes; until the directory is synced a power loss may leave *)
(* any of the earlier ones. The check others made of the path is out of date.        *)
SetEntry(kind, inode) ==
  /\ entry' = [kind |-> kind, inode |-> inode, seq |-> entry.seq + 1]
  /\ entries' = entries \cup {entry'}

Unsees(others, aspects) ==
  unseen' = [p \in Procs |-> IF p \in others THEN unseen[p] \cup aspects ELSE unseen[p]]

Rename(p) ==
  /\ task[p] = "replace"
  /\ Goto(p, "install", "syncDir")
  /\ SetEntry("file", p)
  /\ temp' = [temp EXCEPT ![p] = "none"]
  /\ installed' = [installed EXCEPT ![p] = entry.seq + 1]
  /\ Unsees(Procs \ {p}, {"kind", "inode"})
  /\ UNCHANGED <<rootMoved, inodeVars, edits, task, snap, handle, result>>

Link(p) ==
  /\ task[p] = "create"
  /\ \/ /\ entry.kind = "absent"
        /\ Goto(p, "install", "unlink")
        /\ SetEntry("file", p)
        /\ installed' = [installed EXCEPT ![p] = entry.seq + 1]
        /\ Unsees(Procs \ {p}, {"kind", "inode"})
        /\ UNCHANGED result
     \/ /\ entry.kind # "absent"
        /\ Return(p, "install", "stale")
        /\ UNCHANGED <<entry, entries, installed, unseen>>
  /\ UNCHANGED <<rootMoved, inodeVars, edits, task, snap, handle, temp>>

Unlink(p) ==
  /\ Goto(p, "unlink", "syncDir")
  /\ temp' = [temp EXCEPT ![p] = "none"]
  /\ UNCHANGED <<pathVars, inodeVars, installed, result>> /\ Unseeing

\* Mutant: the directory is not synced.
SyncNoDirectory(p) ==
  /\ Return(p, "syncDir", "done")
  /\ UNCHANGED <<pathVars, inodeVars, temp, installed>> /\ Unseeing

SyncDirectory(p) ==
  /\ Return(p, "syncDir", "done")
  /\ entries' = {entry}
  /\ UNCHANGED <<entry, rootMoved, inodeVars, temp, installed>> /\ Unseeing

-----------------------------------------------------------------------------
(* Failures                                                                 *)

(* The calls whose error the code returns as it is. It reports the error of the Stat of *)
(* the root, of Lstat and of Open as a stale file, that of the Stat after Open not.      *)
Failing == Steps \ {"lookup", "lstat", "cleanup"}

\* Mutant: every error is reported as a stale source.
CallFailsStale(p) ==
  /\ \E from \in Failing \cup {"lookup", "lstat"} : Return(p, from, "stale")
  /\ handle' = [handle EXCEPT ![p] = Nil]
  /\ ReadOnly /\ UNCHANGED <<snap, unseen>>

CallFails(p) ==
  /\ \/ \E from \in Failing \cup {"lookup"} : Return(p, from, "failed")
     \/ \E from \in {"root", "lstat", "open"} : Return(p, from, "stale")
  /\ handle' = [handle EXCEPT ![p] = Nil]
  /\ ReadOnly /\ UNCHANGED <<snap, unseen>>

(* The deferred Remove of the temporary file. *)
Cleanup(p) ==
  /\ Goto(p, "cleanup", "returned")
  /\ \E left \in {"none", "stuck"} : temp' = [temp EXCEPT ![p] = left]
  /\ UNCHANGED <<pathVars, inodeVars, installed, result>> /\ Unseeing

Crash(p) ==
  /\ pc[p] \in Steps
  /\ pc' = [pc EXCEPT ![p] = "crashed"]
  /\ UNCHANGED <<pathVars, inodeVars, temp, installed, result>> /\ Unseeing

(* What the path holds, and what it may hold after a power loss. *)
Held(e, contents) == IF e.kind = "absent" THEN {Nil} ELSE contents[e.inode]
Current == IF entry.kind = "absent" THEN Nil ELSE content[entry.inode]
Possible == UNION {Held(e, durable) : e \in entries}

(* Only when the disk may hold something else: otherwise it is Crash of all. The *)
(* inodes the path does not name are out of reach from then on.                   *)
PowerLoss ==
  /\ Possible # {Current} \/ entries # {entry}
  /\ entry' \in entries /\ entries' = {entry'}
  /\ \E c \in Held(entry', durable) :
       IF entry'.kind = "absent"
       THEN UNCHANGED <<content, durable>>
       ELSE /\ content' = [content EXCEPT ![entry'.inode] = c]
            /\ durable' = [durable EXCEPT ![entry'.inode] = {c}]
  /\ pc' = [p \in Procs |-> IF pc[p] \in Steps THEN "crashed" ELSE pc[p]]
  /\ UNCHANGED <<rootMoved, mode, temp, installed, result>> /\ Unseeing

-----------------------------------------------------------------------------
(* Other programs                                                           *)

Edit == edits < MaxEdits /\ edits' = edits + 1

Elsewhere == UNCHANGED <<task, procVars>>

WriteInPlace(c) ==
  /\ Edit
  /\ entry.kind # "absent"
  /\ content' = [content EXCEPT ![entry.inode] = c]
  /\ durable' = [durable EXCEPT ![entry.inode] = @ \cup {c}]
  /\ Unsees(Procs, {"content"})
  /\ UNCHANGED <<pathVars, mode>> /\ Elsewhere

ChangeMode(m) ==
  /\ Edit
  /\ entry.kind # "absent"
  /\ mode' = [mode EXCEPT ![entry.inode] = m]
  /\ Unsees(Procs, {"mode"})
  /\ UNCHANGED <<pathVars, content, durable>> /\ Elsewhere

(* An editor that saves a new file under the name, or creates it. *)
SaveFile(c, m) ==
  /\ Edit
  /\ SetEntry("file", edits')
  /\ content' = [content EXCEPT ![edits'] = c]
  /\ durable' = [durable EXCEPT ![edits'] = {c}]
  /\ mode' = [mode EXCEPT ![edits'] = m]
  /\ Unsees(Procs, {"kind", "inode"})
  /\ UNCHANGED rootMoved /\ Elsewhere

RemoveFile ==
  /\ Edit
  /\ entry.kind # "absent"
  /\ SetEntry("absent", Nil)
  /\ Unsees(Procs, {"kind", "inode"})
  /\ UNCHANGED <<rootMoved, inodeVars>> /\ Elsewhere

(* The file is moved and a link to it left in its place. *)
MakeLink ==
  /\ Edit
  /\ entry.kind = "file"
  /\ SetEntry("link", entry.inode)
  /\ Unsees(Procs, {"kind"})
  /\ UNCHANGED <<rootMoved, inodeVars>> /\ Elsewhere

(* The root is renamed and another directory takes its place. *)
MoveRoot ==
  /\ Edit
  /\ ~rootMoved /\ rootMoved' = TRUE
  /\ Unsees(Procs, {"root"})
  /\ UNCHANGED <<entry, entries, inodeVars>> /\ Elsewhere

OtherPrograms ==
  \/ \E c \in Contents : WriteInPlace(c)
  \/ \E m \in Modes : ChangeMode(m)
  \/ \E c \in Contents, m \in Modes : SaveFile(c, m)
  \/ RemoveFile
  \/ MakeLink
  \/ MoveRoot

-----------------------------------------------------------------------------
Reading(p) == ReadLstat(p) \/ ReadOpen(p) \/ ReadAll(p)
Checking(p) == OpenRoot(p) \/ CheckLstat(p) \/ CheckOpen(p) \/ CheckBytes(p) \/ Lookup(p)
Preparing(p) == CreateTemporary(p) \/ Write(p) \/ Chmod(p) \/ Sync(p) \/ Close(p)
Installing(p) == Rename(p) \/ Link(p) \/ Unlink(p) \/ SyncDirectory(p)
Ending(p) == CallFails(p) \/ Cleanup(p) \/ Crash(p)

Operation(p) == Reading(p) \/ Checking(p) \/ Preparing(p) \/ Installing(p) \/ Ending(p)

Next ==
  \/ \E p \in Procs : Operation(p)
  \/ OtherPrograms
  \/ PowerLoss

Spec == Init /\ [][Next]_vars

-----------------------------------------------------------------------------
(* Properties                                                               *)

Installs(p) == installed'[p] # installed[p]

(* Replace validates again when its temporary file is ready: a change that was    *)
(* made before the call that would have noticed it is never overwritten, whatever *)
(* the other program changed, and what is put in place of nothing never is in     *)
(* place of something.                                                            *)
UnchangedSinceRead(p) ==
  LET inodeSeen == "inode" \notin unseen[p] IN
  /\ "root" \in unseen[p] \/ ~rootMoved
  /\ "kind" \in unseen[p] \/ entry.kind = "file"
  /\ inodeSeen => SameFile(p, entry.inode)
  /\ inodeSeen /\ "mode" \notin unseen[p] => SameMode(p, entry.inode)
  /\ inodeSeen /\ "content" \notin unseen[p] => content[entry.inode] = snap[p].content
NoChangeOverwritten ==
  [][\A p \in Procs :
       Installs(p) => IF task[p] = "create" THEN entry.kind = "absent"
                                            ELSE UnchangedSinceRead(p)]_vars

(* What the rename or the link makes visible is whole, with the mode of the file  *)
(* it replaces, and already on disk: a power loss cannot take part of it away.    *)
InstalledWhole ==
  [][\A p \in Procs :
       Installs(p) => /\ content[p] = Output(p) /\ durable[p] = {Output(p)}
                      /\ mode[p] = IF task[p] = "create" THEN CreateMode ELSE snap[p].mode]_vars

(* An operation that returned no error is not undone by a power loss: the path   *)
(* names what it put there, or something that took its place later.              *)
SuccessDurable ==
  \A p \in Procs : pc[p] = "returned" /\ result[p] = "done" => entry.seq >= installed[p]

(* Unless it is killed or removing fails, an operation leaves no temporary file. *)
NoTemporaryLeft == \A p \in Procs : pc[p] = "returned" => temp[p] # "present"

(* The code implements the contract of AtomicReplace. *)
Contract == INSTANCE AtomicReplace WITH
  Absent    <- Nil,
  current   <- Current,
  possible  <- Possible,
  basis     <- [p \in Procs |-> snap[p].content],
  installed <- [p \in Procs |-> installed[p] # 0],
  outcome   <- [p \in Procs |-> IF pc[p] = "returned" THEN result[p]
                                ELSE IF pc[p] = "crashed" THEN "crashed" ELSE "running"]

(* Every behaviour of the calls is one the contract allows: content appears whole, *)
(* at most once per operation, never over a file a creation found, and what is     *)
(* returned says truly what was done.                                              *)
ImplementsContract == Contract!Spec
=============================================================================
