-------------------------- MODULE FileReplaceProofs --------------------------
(***************************************************************************)
(* Proofs about FileReplace, for any number of operations, contents, modes  *)
(* and changes by other programs: that no change is overwritten, that what  *)
(* appears is whole and durable, and that the calls implement the contract  *)
(* of AtomicReplace. ReplaceInv is inductive. Its heart is that the inode   *)
(* of a temporary file has no name until it is installed, and that every    *)
(* inode with a name is whole whatever a power loss leaves of it.           *)
(***************************************************************************)
EXTENDS FileReplace, TLAPS

Reads == {"readLstat", "readOpen", "readAll"}
Prepares == {"create", "write", "chmod", "sync", "close", "install"}

Opening == {"readAll", "compare"}

(* The second validation, with the temporary file ready. *)
Again(p) == pc[p] \in Checks /\ temp[p] = "present"

(* An inode that is or was at the path, never a temporary file: whole, and so is what *)
(* a power loss leaves of it.                                                         *)
Known(i) == i \in 0..edits \/ (i \in Procs /\ installed[i] # 0)
Public(i) ==
  i \in Inodes /\ Known(i) /\ content[i] \in durable[i] /\ durable[i] \subseteq Contents

PathsPublic ==
  /\ entry \in entries
  /\ \A e \in entries : e.kind # "absent" => Public(e.inode)

(* What an operation reads is public, and what it has open is that. *)
SnapPublic(p) ==
  /\ snap[p].inode # Nil => Public(snap[p].inode)
  /\ pc[p] \in Opening => handle[p] = snap[p].inode
  /\ pc[p] \in Steps \ Opening => handle[p] = Nil

(* How far the reading has come. *)
SnapTaken(p) ==
  /\ pc[p] \in Reads => snap[p].content = Nil
  /\ pc[p] \in {"readOpen", "readAll", "root"} \cup Checks => snap[p].inode # Nil
  /\ pc[p] = "readAll" => snap[p].mode \in Modes
  /\ pc[p] \in {"root"} \cup Checks => snap[p].content \in Contents /\ snap[p].mode \in Modes
  /\ pc[p] \in Prepares \cup {"syncDir"} /\ task[p] # "create" =>
       snap[p].inode # Nil /\ snap[p].content \in Contents /\ snap[p].mode \in Modes

(* The steps of each task. *)
OnTask(p) ==
  /\ task[p] = "create" => pc[p] \notin Reads \cup {"root"} \cup Checks
  /\ task[p] # "create" => pc[p] \notin {"lookup", "unlink"}
  /\ task[p] = "validate" => pc[p] \notin Prepares \cup {"syncDir", "cleanup"} /\ ~Again(p)
  /\ task[p] = "replace" /\ (pc[p] \in Prepares \/ Again(p)) => Output(p) # snap[p].content

(* The temporary name is there from its creation to the rename, the unlink or the end. *)
TempTracked(p) ==
  /\ pc[p] \in Reads \cup {"root", "lookup", "create", "syncDir"} => temp[p] = "none"
  /\ pc[p] \in (Prepares \ {"create"}) \cup {"unlink", "cleanup"} => temp[p] = "present"
  /\ pc[p] \in Steps => temp[p] # "stuck"
  /\ pc[p] = "returned" => temp[p] # "present"

(* The result says whether the output was installed. *)
ResultTrue(p) ==
  /\ pc[p] \in Steps \ {"cleanup"} => result[p] = "none"
  /\ pc[p] = "cleanup" => result[p] \in {"stale", "failed"}
  /\ pc[p] = "returned" => result[p] # "none"
  /\ pc[p] \in Steps \ {"unlink", "syncDir", "cleanup"} => installed[p] = 0
  /\ pc[p] \in {"unlink", "syncDir"} => installed[p] # 0
  /\ result[p] = "stale" => installed[p] = 0

(* The output is whole, on disk and has its mode before it is installed. *)
TempReady(p) ==
  LET again == Again(p) IN
  /\ pc[p] \in {"chmod", "sync", "close", "install"} \/ again => content[p] = Output(p)
  /\ pc[p] \in {"sync", "close", "install"} \/ again =>
       mode[p] = IF task[p] = "create" THEN CreateMode ELSE snap[p].mode
  /\ pc[p] \in {"close", "install"} \/ again => durable[p] = {content[p]}

(* What was checked is so, unless another program changed it since. *)
SourceChecked(p) ==
  task[p] # "create" /\ pc[p] \in Checks \cup Prepares =>
    /\ "root" \in unseen[p] \/ ~rootMoved
    /\ pc[p] # "lstat" \/ temp[p] = "present" =>
         /\ "kind" \in unseen[p] \/ entry.kind = "file"
         /\ "inode" \in unseen[p] \/ entry.inode = snap[p].inode
         /\ "mode" \in unseen[p] \/ mode[snap[p].inode] = snap[p].mode
    /\ pc[p] \in Prepares \/ temp[p] = "present" =>
         "content" \in unseen[p] \/ content[snap[p].inode] = snap[p].content

(* No entry a power loss may leave is older than what an operation has made durable. *)
EntriesNewer(p) ==
  /\ pc[p] \in Steps => entry.seq >= installed[p]
  /\ pc[p] = "returned" /\ result[p] = "done" => \A e \in entries : e.seq >= installed[p]

ProcInv(p) ==
  /\ SnapPublic(p) /\ SnapTaken(p) /\ OnTask(p) /\ TempTracked(p) /\ ResultTrue(p)
  /\ TempReady(p) /\ SourceChecked(p) /\ EntriesNewer(p)

ReplaceInv == TypeOK /\ PathsPublic /\ \A p \in Procs : ProcInv(p)

-----------------------------------------------------------------------------
(* What the steps of one operation leave alone. *)

(* Nil stands for no inode. *)
LEMMA NilNoInode == Nil \notin Inodes
BY DistinctAssumption DEF Inodes

(* A temporary file that is not installed is no public inode. *)
LEMMA TempPrivate ==
  ASSUME ReplaceInv, NEW p \in Procs, installed[p] = 0
  PROVE  ~Public(p)
BY DistinctAssumption DEF ReplaceInv, TypeOK, Public, Known

(* A public inode stays public while its content stays. *)
LEMMA PublicStays ==
  ASSUME ReplaceInv, NEW i, Public(i), edits' \in 0..MaxEdits, edits' >= edits,
         \A q \in Procs : installed[q] # 0 => installed'[q] # 0,
         content'[i] = content[i], durable'[i] = durable[i]
  PROVE  Public(i)'
BY EditsAssumption DEF ReplaceInv, TypeOK, Public, Known

(* The operation q does nothing itself. *)
Idles(q) ==
  /\ pc'[q] = pc[q] /\ snap'[q] = snap[q] /\ handle'[q] = handle[q] /\ temp'[q] = temp[q]
  /\ installed'[q] = installed[q] /\ result'[q] = result[q] /\ task'[q] = task[q]
  /\ installed[q] = 0 =>
       content'[q] = content[q] /\ mode'[q] = mode[q] /\ durable'[q] = durable[q]

(* The entries after a step are some of those before it, or younger. *)
EntriesAge ==
  /\ entry'.seq >= entry.seq
  /\ \A e \in entries' : e \in entries \/ e.seq > entry.seq

(* Whatever another changes of what q checked is noted. *)
Noted(q) ==
  /\ unseen[q] \subseteq unseen'[q]
  /\ "root" \in unseen'[q] \/ (rootMoved' = rootMoved)
  /\ "kind" \in unseen'[q] \/ entry'.kind = entry.kind
  /\ "inode" \in unseen'[q] \/ entry'.inode = entry.inode
  /\ \A i : Public(i) =>
       /\ "mode" \in unseen'[q] \/ mode'[i] = mode[i]
       /\ "content" \in unseen'[q] \/ content'[i] = content[i]

(* An operation that does nothing keeps its part of the invariant. *)
LEMMA IdlesKeeps ==
  ASSUME ReplaceInv, NEW q \in Procs, Idles(q), EntriesAge, Noted(q), PathTypes',
         \A i : Public(i) => Public(i)'
  PROVE  ProcInv(q)'
<1> DEFINE S == snap[q].inode
<1>1. ProcInv(q) /\ entry.seq \in Nat /\ entry'.seq \in Nat /\ installed[q] \in Nat
  BY DEF ReplaceInv, TypeOK, PathTypes, ProcTypes, Entry, Idles
<1>2. SnapPublic(q)'
  BY <1>1 DEF ProcInv, SnapPublic, Idles
<1>3. SnapTaken(q)'
  BY <1>1 DEF ProcInv, SnapTaken, Idles
<1>4. OnTask(q)'
  BY <1>1 DEF ProcInv, OnTask, Idles, Output, Again
<1>5. TempTracked(q)'
  BY <1>1 DEF ProcInv, TempTracked, Idles
<1>6. ResultTrue(q)'
  BY <1>1 DEF ProcInv, ResultTrue, Idles
<1>7. TempReady(q)'
  <2>1. pc[q] \in {"chmod", "sync", "close", "install"} \/ Again(q) => installed[q] = 0
    BY <1>1 DEF ProcInv, ResultTrue, Steps, Checks, Again
  <2> QED
    BY <1>1, <2>1 DEF ProcInv, TempReady, Idles, Again, Output
<1>8. SourceChecked(q)'
  <2>1. task[q] # "create" /\ pc[q] \in Checks \cup Prepares => Public(S)
    BY <1>1 DEF ProcInv, SnapTaken, SnapPublic
  <2> QED
    BY <1>1, <2>1 DEF ProcInv, SourceChecked, Idles, Noted
<1>9. EntriesNewer(q)'
  <2>1. pc[q] \in Steps => entry'.seq >= installed[q]
    BY <1>1 DEF ProcInv, EntriesNewer, EntriesAge, ReplaceInv, TypeOK, PathTypes, Entry
  <2>2. ASSUME NEW e \in entries', pc[q] = "returned", result[q] = "done"
        PROVE  e.seq >= installed[q]
    <3>1. e.seq \in Nat /\ entry \in entries
      BY DEF PathTypes, Entry, ReplaceInv, PathsPublic
    <3>2. \A old \in entries : old.seq >= installed[q]
      BY <1>1, <2>2 DEF ProcInv, EntriesNewer
    <3>3. e \in entries \/ e.seq > entry.seq
      BY DEF EntriesAge
    <3> QED
      BY <1>1, <3>1, <3>2, <3>3
  <2> QED
    BY <1>1, <2>1, <2>2 DEF EntriesNewer, Idles
<1> QED
  BY <1>2, <1>3, <1>4, <1>5, <1>6, <1>7, <1>8, <1>9 DEF ProcInv

-----------------------------------------------------------------------------
(* Steps of one operation that change no file. *)

Outcomes == {"done", "stale", "failed"}

(* Nothing changes but the state of p, and the older entries that may be given up. *)
Quiet(p) ==
  /\ UNCHANGED <<entry, rootMoved, content, mode, durable, edits, task, installed>>
  /\ entries' \in {entries, {entry}}
  /\ ProcTypes' /\ unseen' \in [Procs -> SUBSET Aspects]
  /\ \A q \in Procs \ {p} :
       /\ pc'[q] = pc[q] /\ snap'[q] = snap[q] /\ handle'[q] = handle[q] /\ temp'[q] = temp[q]
       /\ result'[q] = result[q] /\ unseen'[q] = unseen[q]

(* Reading changes neither the path nor any inode: types and public inodes stay. *)
LEMMA QuietTypes ==
  ASSUME ReplaceInv, NEW p \in Procs, Quiet(p)
  PROVE  TypeOK' /\ PathsPublic' /\ \A i : Public(i)' <=> Public(i)
<1>1. TypeOK /\ PathsPublic
  BY DEF ReplaceInv
<1>2. PathTypes' /\ InodeTypes'
  BY <1>1 DEF TypeOK, PathTypes, InodeTypes, Quiet, PathsPublic
<1>3. \A i : Public(i)' <=> Public(i)
  BY DEF Public, Known, Quiet
<1>4. PathsPublic'
  BY <1>1, <1>3 DEF PathsPublic, Quiet
<1> QED
  BY <1>1, <1>2, <1>3, <1>4 DEF TypeOK, Quiet

(* It is enough to look at p. *)
LEMMA QuietStep ==
  ASSUME ReplaceInv, NEW p \in Procs, Quiet(p), ProcInv(p)'
  PROVE  ReplaceInv'
<1>1. TypeOK' /\ PathsPublic' /\ \A i : Public(i)' <=> Public(i)
  BY QuietTypes
<1>2. ASSUME NEW q \in Procs \ {p}
      PROVE  ProcInv(q)'
  <2>1. Idles(q)
    BY DEF Idles, Quiet
  <2>2. EntriesAge
    BY DEF EntriesAge, Quiet, ReplaceInv, PathsPublic, TypeOK, PathTypes, Entry
  <2>3. Noted(q)
    BY DEF Noted, Quiet
  <2> QED
    BY <1>1, <2>1, <2>2, <2>3, IdlesKeeps DEF TypeOK
<1> QED
  BY <1>1, <1>2 DEF ReplaceInv

(* An early return. *)
LEMMA ReturnKeeps ==
  ASSUME ReplaceInv, NEW p \in Procs, NEW from \in Steps \ {"cleanup"}, NEW outcome \in Outcomes,
         Return(p, from, outcome), Quiet(p), snap' = snap, temp' = temp,
         handle'[p] = Nil,
         outcome = "stale" => installed[p] = 0,
         outcome = "done" => temp[p] # "present" /\ \A e \in entries' : e.seq >= installed[p]
  PROVE  ProcInv(p)'
<1>1. ProcInv(p) /\ (\A i : Public(i)' <=> Public(i))
  BY QuietTypes DEF ReplaceInv
<1>2. /\ pc[p] = from
      /\ pc'[p] = IF temp[p] = "present" THEN "cleanup" ELSE "returned"
      /\ result'[p] = outcome
      /\ UNCHANGED <<entry, task, installed>>
  BY DEF Return, ReplaceInv, TypeOK, ProcTypes, Quiet
<1>3. SnapPublic(p)'
  BY <1>1, <1>2 DEF ProcInv, SnapPublic, Opening
<1>4. SnapTaken(p)' /\ OnTask(p)' /\ TempReady(p)' /\ SourceChecked(p)'
  <2>1. task[p] = "validate" => temp[p] # "present"
    BY <1>1, <1>2 DEF ProcInv, OnTask, TempTracked, Again, Steps, Prepares, Reads, Checks
  <2> QED
    BY <1>2, <2>1 DEF SnapTaken, OnTask, TempReady, SourceChecked, Again, Reads, Prepares, Checks
<1>5. TempTracked(p)' /\ ResultTrue(p)'
  BY <1>2 DEF TempTracked, ResultTrue, Reads, Prepares, Steps, Checks, Outcomes
<1>6. EntriesNewer(p)'
  BY <1>1, <1>2 DEF ProcInv, EntriesNewer, Steps, Checks, Outcomes
<1> QED
  BY <1>3, <1>4, <1>5, <1>6 DEF ProcInv

(* An early return of a step that looks at the path. *)
LEMMA EarlyReturn ==
  ASSUME ReplaceInv, NEW p \in Procs, NEW from \in Steps \ {"cleanup"},
         NEW outcome \in {"stale", "failed"}, Return(p, from, outcome), ReadOnly, snap' = snap,
         \/ handle' = [handle EXCEPT ![p] = Nil]
         \/ handle' = handle /\ from \notin Opening,
         \/ unseen' = unseen
         \/ \E aspects : Sees(p, aspects),
         outcome = "stale" => installed[p] = 0
  PROVE  ReplaceInv'
<1> USE DEF ReadOnly, pathVars, inodeVars
<1>1. ProcInv(p) /\ TypeOK /\ pc[p] = from
  BY DEF ReplaceInv, Return
<1>2. handle'[p] = Nil
  BY <1>1 DEF ProcInv, SnapPublic, TypeOK, ProcTypes
<1>3. Quiet(p)
  <2>1. pc' \in [Procs -> Steps \cup {"returned", "crashed"}]
    BY <1>1 DEF Return, TypeOK, ProcTypes, Steps
  <2>2. handle' \in [Procs -> Inodes \cup {Nil}]
    BY <1>1 DEF TypeOK, ProcTypes
  <2>3. unseen' \in [Procs -> SUBSET Aspects]
    BY <1>1 DEF TypeOK, Sees
  <2>4. result' \in [Procs -> {"none", "done", "stale", "failed"}]
    BY <1>1 DEF TypeOK, ProcTypes, Return
  <2> QED
    BY <1>1, <2>1, <2>2, <2>3, <2>4 DEF Quiet, TypeOK, ProcTypes, Return, Sees
<1>4. ProcInv(p)'
  BY <1>2, <1>3, ReturnKeeps DEF Outcomes
<1> QED
  BY <1>3, <1>4, QuietStep

-----------------------------------------------------------------------------
(* Reading. *)

(* Reading begins with the entry at the path, a public inode when it is a file. *)
LEMMA ReadLstatStep == ASSUME ReplaceInv, NEW p \in Procs, ReadLstat(p) PROVE ReplaceInv'
<1> USE DEF ReadOnly, pathVars, inodeVars
<1>1. ProcInv(p) /\ TypeOK /\ pc[p] = "readLstat"
  BY DEF ReplaceInv, ReadLstat
<1>2. CASE entry.kind = "file" /\ Goto(p, "readLstat", "readOpen")
  <2>1. /\ pc' = [pc EXCEPT ![p] = "readOpen"]
        /\ snap' = [snap EXCEPT ![p].inode = entry.inode]
        /\ UNCHANGED <<entry, entries, rootMoved, content, mode, durable, edits, task, temp,
                       installed, result, handle, unseen>>
    BY <1>1, <1>2 DEF ReadLstat, Goto
  <2>2. entry.inode \in Inodes /\ Public(entry.inode)
    BY <1>1, <1>2 DEF TypeOK, PathTypes, Entry, ReplaceInv, PathsPublic
  <2>3. Quiet(p)
    <3>1. snap' \in [Procs -> Snapshot]
      <4>1. snap \in [Procs -> Snapshot]
        BY <1>1 DEF TypeOK, ProcTypes
      <4>2. [snap[p] EXCEPT !.inode = entry.inode] \in Snapshot
        BY <2>2, <4>1 DEF Snapshot
      <4> QED
        BY <2>1, <4>1, <4>2
    <3> QED
      BY <1>1, <2>1, <3>1 DEF Quiet, TypeOK, ProcTypes, Steps
  <2>4. ProcInv(p)'
    <3>1. \A i : Public(i)' <=> Public(i)
      BY <2>3, QuietTypes
    <3>2. /\ pc'[p] = "readOpen" /\ snap'[p].inode = entry.inode
          /\ snap'[p].content = snap[p].content
      BY <1>1, <2>1 DEF TypeOK, ProcTypes, Snapshot
    <3>3. SnapPublic(p)'
      BY <1>1, <2>1, <2>2, <3>1, <3>2 DEF ProcInv, SnapPublic, Opening, Steps
    <3>4. SnapTaken(p)'
      BY <1>1, <2>2, <3>2, NilNoInode DEF ProcInv, SnapTaken, Reads, Checks, Prepares
    <3>5. OnTask(p)'
      BY <1>1, <2>1, <3>2 DEF ProcInv, OnTask, Again, Reads, Checks, Prepares
    <3>6. TempTracked(p)' /\ ResultTrue(p)' /\ EntriesNewer(p)'
      BY <1>1, <2>1, <3>2
      DEF ProcInv, TempTracked, ResultTrue, EntriesNewer, Steps, Reads, Checks, Prepares
    <3>7. TempReady(p)' /\ SourceChecked(p)'
      BY <1>1, <3>2 DEF TempReady, SourceChecked, Again, Checks, Prepares
    <3> QED
      BY <3>3, <3>4, <3>5, <3>6, <3>7 DEF ProcInv
  <2> QED
    BY <2>3, <2>4, QuietStep
<1>3. CASE entry.kind # "file" /\ Return(p, "readLstat", "failed")
  BY <1>1, <1>3, EarlyReturn DEF ReadLstat, Steps, Opening
<1> QED
  BY <1>1, <1>2, <1>3 DEF ReadLstat

(* What is opened is the inode that was listed. *)
LEMMA ReadOpenStep == ASSUME ReplaceInv, NEW p \in Procs, ReadOpen(p) PROVE ReplaceInv'
<1> USE DEF ReadOnly, pathVars, inodeVars
<1>1. ProcInv(p) /\ TypeOK /\ pc[p] = "readOpen"
  BY DEF ReplaceInv, ReadOpen
<1>2. CASE entry.inode = snap[p].inode /\ Goto(p, "readOpen", "readAll")
  <2>1. /\ pc' = [pc EXCEPT ![p] = "readAll"]
        /\ snap' = [snap EXCEPT ![p].mode = mode[entry.inode],
                                ![p].size = Size[content[entry.inode]]]
        /\ handle' = [handle EXCEPT ![p] = entry.inode]
        /\ UNCHANGED <<entry, entries, rootMoved, content, mode, durable, edits, task, temp,
                       installed, result, unseen>>
    BY <1>1, <1>2 DEF ReadOpen, Goto
  <2>2. /\ snap[p].inode # Nil /\ entry.inode \in Inodes
        /\ mode[entry.inode] \in Modes /\ Size[content[entry.inode]] \in Nat
    <3>1. snap[p].inode # Nil
      BY <1>1 DEF ProcInv, SnapTaken
    <3>2. entry.inode \in Inodes /\ entry.kind # "absent"
      BY <1>1, <1>2, <3>1 DEF TypeOK, PathTypes, Entry
    <3> QED
      BY <1>1, <3>1, <3>2, SizeAssumption DEF TypeOK, PathTypes, InodeTypes
  <2>3. /\ pc'[p] = "readAll" /\ snap'[p].inode = snap[p].inode /\ handle'[p] = snap[p].inode
        /\ snap'[p].content = snap[p].content /\ snap'[p].mode \in Modes
    BY <1>1, <1>2, <2>1, <2>2 DEF TypeOK, ProcTypes, Snapshot
  <2>4. Quiet(p)
    <3> DEFINE read == [snap[p] EXCEPT !.mode = mode[entry.inode],
                                       !.size = Size[content[entry.inode]]]
    <3>1. snap' = [snap EXCEPT ![p] = read] /\ snap[p] \in Snapshot
      BY <1>1, <2>1 DEF TypeOK, ProcTypes
    <3>2. read \in Snapshot
      BY <2>2, <3>1 DEF Snapshot
    <3>3. snap' \in [Procs -> Snapshot]
      BY <1>1, <3>1, <3>2 DEF TypeOK, ProcTypes
    <3> QED
      BY <1>1, <2>1, <2>2, <3>3 DEF Quiet, TypeOK, ProcTypes, Steps
  <2>5. ProcInv(p)'
    <3>1. \A i : Public(i)' <=> Public(i)
      BY <2>4, QuietTypes
    <3>2. SnapPublic(p)'
      BY <1>1, <2>3, <3>1 DEF ProcInv, SnapPublic, Opening
    <3>3. SnapTaken(p)'
      BY <1>1, <2>3, <2>2 DEF ProcInv, SnapTaken, Reads, Checks, Prepares
    <3>4. OnTask(p)'
      BY <1>1, <2>1, <2>3 DEF ProcInv, OnTask, Again, Reads, Checks, Prepares
    <3>5. TempTracked(p)' /\ ResultTrue(p)' /\ EntriesNewer(p)'
      BY <1>1, <2>1, <2>3
      DEF ProcInv, TempTracked, ResultTrue, EntriesNewer, Steps, Reads, Checks, Prepares
    <3>6. TempReady(p)' /\ SourceChecked(p)'
      BY <1>1, <2>3 DEF TempReady, SourceChecked, Again, Checks, Prepares
    <3> QED
      BY <3>2, <3>3, <3>4, <3>5, <3>6 DEF ProcInv
  <2> QED
    BY <2>4, <2>5, QuietStep
<1>3. CASE entry.inode # snap[p].inode
           /\ Return(p, "readOpen", IF entry.kind = "absent" THEN "failed" ELSE "stale")
  <2>1. installed[p] = 0
    BY <1>1 DEF ProcInv, ResultTrue, Steps
  <2>2. PICK outcome \in {"stale", "failed"} : Return(p, "readOpen", outcome)
    BY <1>3
  <2>3. UNCHANGED <<snap, handle, unseen>> /\ ReadOnly
    BY <1>3 DEF ReadOpen
  <2> QED
    BY <2>1, <2>2, <2>3, EarlyReturn DEF Steps, Opening
<1> QED
  BY <1>1, <1>2, <1>3 DEF ReadOpen

(* What is read of a public inode is a whole content. *)
LEMMA ReadAllStep == ASSUME ReplaceInv, NEW p \in Procs, ReadAll(p) PROVE ReplaceInv'
<1> USE DEF ReadOnly, pathVars, inodeVars
<1>1. ProcInv(p) /\ TypeOK /\ pc[p] = "readAll"
  BY DEF ReplaceInv, ReadAll, Goto
<1>2. /\ pc' = [pc EXCEPT ![p] = "root"]
      /\ snap' = [snap EXCEPT ![p].content = content[handle[p]]]
      /\ handle' = [handle EXCEPT ![p] = Nil]
      /\ UNCHANGED <<entry, entries, rootMoved, content, mode, durable, edits, task, temp,
                     installed, result, unseen>>
  BY <1>1 DEF ReadAll, Goto
<1>3. content[handle[p]] \in Contents /\ snap[p].inode # Nil /\ snap[p].mode \in Modes
  <2>1. handle[p] = snap[p].inode /\ snap[p].inode # Nil /\ snap[p].mode \in Modes
    BY <1>1 DEF ProcInv, SnapPublic, SnapTaken, Opening
  <2> QED
    BY <1>1, <2>1 DEF ProcInv, SnapPublic, Public
<1>4. /\ pc'[p] = "root" /\ snap'[p].inode = snap[p].inode /\ handle'[p] = Nil
      /\ snap'[p].content \in Contents /\ snap'[p].mode \in Modes
  BY <1>1, <1>2, <1>3 DEF TypeOK, ProcTypes, Snapshot
<1>5. Quiet(p)
  <2>1. snap' \in [Procs -> Snapshot]
    BY <1>1, <1>2, <1>3 DEF TypeOK, ProcTypes, Snapshot
  <2> QED
    BY <1>1, <1>2, <2>1 DEF Quiet, TypeOK, ProcTypes, Steps
<1>6. ProcInv(p)'
  <2>1. \A i : Public(i)' <=> Public(i)
    BY <1>5, QuietTypes
  <2>2. SnapPublic(p)'
    BY <1>1, <1>4, <2>1 DEF ProcInv, SnapPublic, Opening, Steps
  <2>3. SnapTaken(p)'
    BY <1>1, <1>3, <1>4 DEF ProcInv, SnapTaken, Reads, Checks, Prepares
  <2>4. OnTask(p)'
    BY <1>1, <1>2, <1>4 DEF ProcInv, OnTask, Again, Reads, Checks, Prepares
  <2>5. TempTracked(p)' /\ ResultTrue(p)' /\ EntriesNewer(p)'
    BY <1>1, <1>2, <1>4
    DEF ProcInv, TempTracked, ResultTrue, EntriesNewer, Steps, Reads, Checks, Prepares
  <2>6. TempReady(p)' /\ SourceChecked(p)'
    BY <1>1, <1>4 DEF TempReady, SourceChecked, Again, Checks, Prepares
  <2> QED
    BY <2>2, <2>3, <2>4, <2>5, <2>6 DEF ProcInv
<1> QED
  BY <1>5, <1>6, QuietStep

-----------------------------------------------------------------------------
(* Checking. *)

(* A check that finds what it looks for leaves the temporary file and the results alone. *)
LEMMA CheckGoesOn ==
  ASSUME ReplaceInv, NEW p \in Procs, NEW from \in Steps, NEW to \in Steps, Goto(p, from, to),
         ReadOnly, NEW aspects, Sees(p, aspects), snap' = snap, result' = result,
         handle' \in [Procs -> Inodes \cup {Nil}],
         \A q \in Procs \ {p} : handle'[q] = handle[q]
  PROVE  /\ Quiet(p)
         /\ pc[p] = from /\ pc'[p] = to /\ unseen'[p] = unseen[p] \ aspects
         /\ UNCHANGED <<entry, entries, rootMoved, content, mode, durable, edits, task, temp,
                        installed>>
<1> USE DEF ReadOnly, pathVars, inodeVars
<1>1. TypeOK
  BY DEF ReplaceInv
<1>2. pc' \in [Procs -> Steps \cup {"returned", "crashed"}]
  BY <1>1 DEF Goto, TypeOK, ProcTypes
<1>3. unseen' \in [Procs -> SUBSET Aspects]
  BY <1>1 DEF TypeOK, Sees
<1>4. Quiet(p)
  BY <1>1, <1>2, <1>3 DEF Quiet, TypeOK, ProcTypes, Goto, Sees
<1> QED
  BY <1>1, <1>4 DEF Goto, Sees, TypeOK, ProcTypes

(* The root is what it was, or the source is stale. *)
LEMMA OpenRootStep == ASSUME ReplaceInv, NEW p \in Procs, OpenRoot(p) PROVE ReplaceInv'
<1>1. ProcInv(p) /\ TypeOK /\ pc[p] = "root"
  BY DEF ReplaceInv, OpenRoot, Goto, Return
<1>2. CASE ~rootMoved /\ Goto(p, "root", "lstat") /\ UNCHANGED result
  <2>1. handle' = handle /\ snap' = snap
    BY DEF OpenRoot
  <2>2. /\ Quiet(p) /\ pc'[p] = "lstat" /\ unseen'[p] = unseen[p] \ {"root"}
        /\ UNCHANGED <<entry, entries, rootMoved, content, mode, durable, edits, task, temp,
                       installed>>
    BY <1>1, <1>2, <2>1, CheckGoesOn DEF OpenRoot, Steps, Checks, TypeOK, ProcTypes
  <2>3. \A i : Public(i)' <=> Public(i)
    BY <2>2, QuietTypes
  <2>4. temp[p] = "none"
    BY <1>1 DEF ProcInv, TempTracked
  <2>5. SnapPublic(p)' /\ SnapTaken(p)'
    BY <1>1, <2>1, <2>2, <2>3
    DEF ProcInv, SnapPublic, SnapTaken, Opening, Steps, Checks, Reads, Prepares
  <2>6. OnTask(p)'
    BY <1>1, <2>1, <2>2, <2>4 DEF ProcInv, OnTask, Again, Checks, Reads, Prepares
  <2>7. TempTracked(p)' /\ ResultTrue(p)' /\ EntriesNewer(p)'
    BY <1>1, <1>2, <2>2, <2>4
    DEF ProcInv, TempTracked, ResultTrue, EntriesNewer, Steps, Reads, Checks, Prepares
  <2>8. TempReady(p)' /\ SourceChecked(p)'
    BY <1>1, <1>2, <2>2, <2>4 DEF TempReady, SourceChecked, Again, Checks, Prepares
  <2> QED
    BY <2>2, <2>5, <2>6, <2>7, <2>8, QuietStep DEF ProcInv
<1>3. CASE Return(p, "root", "stale")
  <2>1. installed[p] = 0
    BY <1>1 DEF ProcInv, ResultTrue, Steps
  <2> QED
    BY <1>3, <2>1, EarlyReturn DEF OpenRoot, Steps, Opening
<1> QED
  BY <1>2, <1>3 DEF OpenRoot

(* The listed file, its identity and its mode are those that were read. *)
LEMMA CheckLstatStep == ASSUME ReplaceInv, NEW p \in Procs, CheckLstat(p) PROVE ReplaceInv'
<1>1. ProcInv(p) /\ TypeOK /\ pc[p] = "lstat"
  BY DEF ReplaceInv, CheckLstat
<1>2. CASE Listed(p) /\ Goto(p, "lstat", "open") /\ UNCHANGED result
  <2>1. handle' = handle /\ snap' = snap
    BY DEF CheckLstat
  <2>2. /\ Quiet(p) /\ pc'[p] = "open" /\ unseen'[p] = unseen[p] \ {"kind", "inode", "mode"}
        /\ UNCHANGED <<entry, entries, rootMoved, content, mode, durable, edits, task, temp,
                       installed>>
    BY <1>1, <1>2, <2>1, CheckGoesOn DEF CheckLstat, Steps, Checks, TypeOK, ProcTypes
  <2>3. \A i : Public(i)' <=> Public(i)
    BY <2>2, QuietTypes
  <2>4. task[p] # "create"
    BY <1>1 DEF ProcInv, OnTask, Checks
  <2>5. SnapPublic(p)' /\ SnapTaken(p)'
    BY <1>1, <2>1, <2>2, <2>3
    DEF ProcInv, SnapPublic, SnapTaken, Opening, Steps, Checks, Reads, Prepares
  <2>6. OnTask(p)'
    BY <1>1, <2>1, <2>2, <2>4 DEF ProcInv, OnTask, Again, Output, Checks, Reads, Prepares
  <2>7. TempTracked(p)' /\ ResultTrue(p)' /\ EntriesNewer(p)'
    BY <1>1, <1>2, <2>2
    DEF ProcInv, TempTracked, ResultTrue, EntriesNewer, Steps, Reads, Checks, Prepares
  <2>8. TempReady(p)'
    BY <1>1, <2>1, <2>2, <2>4 DEF ProcInv, TempReady, Again, Output, Checks, Prepares
  <2>9. SourceChecked(p)'
    BY <1>1, <1>2, <2>1, <2>2, <2>4
    DEF ProcInv, SourceChecked, Checks, Prepares, Listed, SameFile, SameMode
  <2> QED
    BY <2>2, <2>5, <2>6, <2>7, <2>8, <2>9, QuietStep DEF ProcInv
<1>3. CASE Return(p, "lstat", "stale")
  <2>1. installed[p] = 0
    BY <1>1 DEF ProcInv, ResultTrue, Steps, Checks
  <2> QED
    BY <1>3, <2>1, EarlyReturn DEF CheckLstat, Steps, Checks, Opening
<1> QED
  BY <1>2, <1>3 DEF CheckLstat

(* The opened file is the one that was read. *)
LEMMA CheckOpenStep == ASSUME ReplaceInv, NEW p \in Procs, CheckOpen(p) PROVE ReplaceInv'
<1>1. ProcInv(p) /\ TypeOK /\ pc[p] = "open"
  BY DEF ReplaceInv, CheckOpen
<1>2. CASE /\ Opened(p) /\ Goto(p, "open", "compare") /\ UNCHANGED result
           /\ handle' = [handle EXCEPT ![p] = entry.inode]
  <2>1. /\ snap' = snap /\ handle'[p] = snap[p].inode
        /\ handle' \in [Procs -> Inodes \cup {Nil}]
        /\ \A q \in Procs \ {p} : handle'[q] = handle[q]
    BY <1>1, <1>2 DEF CheckOpen, Opened, SameFile, TypeOK, ProcTypes, PathTypes, Entry
  <2>2. /\ Quiet(p) /\ pc'[p] = "compare" /\ unseen'[p] = unseen[p] \ {"inode", "mode"}
        /\ UNCHANGED <<entry, entries, rootMoved, content, mode, durable, edits, task, temp,
                       installed>>
    <3>1. ReadOnly /\ Sees(p, {"inode", "mode"}) /\ result' = result
      BY <1>2 DEF CheckOpen
    <3>2. "open" \in Steps /\ "compare" \in Steps
      BY DEF Steps, Checks
    <3> QED
      BY <1>2, <2>1, <3>1, <3>2, CheckGoesOn
  <2>3. \A i : Public(i)' <=> Public(i)
    BY <2>2, QuietTypes
  <2>4. task[p] # "create"
    BY <1>1 DEF ProcInv, OnTask, Checks
  <2>5. SnapPublic(p)' /\ SnapTaken(p)'
    BY <1>1, <2>1, <2>2, <2>3
    DEF ProcInv, SnapPublic, SnapTaken, Opening, Steps, Checks, Reads, Prepares
  <2>6. OnTask(p)'
    BY <1>1, <2>1, <2>2, <2>4 DEF ProcInv, OnTask, Again, Output, Checks, Reads, Prepares
  <2>7. TempTracked(p)' /\ ResultTrue(p)' /\ EntriesNewer(p)'
    BY <1>1, <1>2, <2>2
    DEF ProcInv, TempTracked, ResultTrue, EntriesNewer, Steps, Reads, Checks, Prepares
  <2>8. TempReady(p)'
    BY <1>1, <2>1, <2>2, <2>4 DEF ProcInv, TempReady, Again, Output, Checks, Prepares
  <2>9. SourceChecked(p)'
    BY <1>1, <1>2, <2>1, <2>2, <2>4
    DEF ProcInv, SourceChecked, Checks, Prepares, Opened, SameFile, SameMode
  <2> QED
    BY <2>2, <2>5, <2>6, <2>7, <2>8, <2>9, QuietStep DEF ProcInv
<1>3. CASE Return(p, "open", "stale") /\ UNCHANGED handle
  <2>1. installed[p] = 0
    BY <1>1 DEF ProcInv, ResultTrue, Steps, Checks
  <2> QED
    BY <1>3, <2>1, EarlyReturn DEF CheckOpen, Steps, Checks, Opening
<1> QED
  BY <1>2, <1>3 DEF CheckOpen

(* The bytes are those that were read: the first time something may be left to write, the *)
(* second time the output may be installed.                                              *)
LEMMA CheckBytesStep == ASSUME ReplaceInv, NEW p \in Procs, CheckBytes(p) PROVE ReplaceInv'
<1>1. ProcInv(p) /\ TypeOK /\ pc[p] = "compare"
  BY DEF ReplaceInv, CheckBytes
<1>2. /\ snap' = snap /\ handle' = [handle EXCEPT ![p] = Nil] /\ handle'[p] = Nil
      /\ handle' \in [Procs -> Inodes \cup {Nil}]
      /\ \A q \in Procs \ {p} : handle'[q] = handle[q]
  BY <1>1 DEF CheckBytes, TypeOK, ProcTypes
<1>3. CASE \E outcome \in {"stale"} : Return(p, "compare", outcome)
  <2>1. installed[p] = 0
    BY <1>1 DEF ProcInv, ResultTrue, Steps, Checks
  <2> QED
    BY <1>2, <1>3, <2>1, EarlyReturn DEF CheckBytes, Steps, Checks
<1>4. CASE temp[p] = "none" /\ NothingToWrite(p) /\ Return(p, "compare", "done")
  <2>1. Quiet(p)
    <3>1. /\ pc' \in [Procs -> Steps \cup {"returned", "crashed"}]
          /\ result' \in [Procs -> {"none", "done", "stale", "failed"}]
      BY <1>1, <1>4 DEF Return, TypeOK, ProcTypes, Steps
    <3>2. unseen' \in [Procs -> SUBSET Aspects]
      BY <1>1 DEF TypeOK, Sees, CheckBytes
    <3> QED
      BY <1>1, <1>2, <1>4, <3>1, <3>2
      DEF Quiet, CheckBytes, ReadOnly, pathVars, inodeVars, Sees, Return, TypeOK, ProcTypes
  <2>2. \A e \in entries' : e.seq >= installed[p]
    BY <1>1, <2>1 DEF ProcInv, ResultTrue, Steps, Checks, Quiet, TypeOK, PathTypes, Entry,
                      ReplaceInv, PathsPublic
  <2>3. temp' = temp
    BY DEF CheckBytes, ReadOnly
  <2>4. ProcInv(p)'
    BY <1>2, <1>4, <2>1, <2>2, <2>3, ReturnKeeps DEF Outcomes, Steps, Checks
  <2> QED
    BY <2>1, <2>4, QuietStep
<1>5. ASSUME SameBytes(p), NEW to \in {"create", "install"}, Goto(p, "compare", to),
             result' = result,
             to = "create" => temp[p] = "none" /\ ~NothingToWrite(p),
             to = "install" => temp[p] = "present"
      PROVE  ReplaceInv'
  <2>1. /\ Quiet(p) /\ pc'[p] = to /\ unseen'[p] = unseen[p] \ {"content"}
        /\ UNCHANGED <<entry, entries, rootMoved, content, mode, durable, edits, task, temp,
                       installed>>
    <3>1. ReadOnly /\ Sees(p, {"content"}) /\ snap' = snap
      BY DEF CheckBytes
    <3>2. "compare" \in Steps /\ to \in Steps
      BY <1>5 DEF Steps, Checks
    <3> QED
      BY <1>2, <1>5, <3>1, <3>2, CheckGoesOn
  <2>2. \A i : Public(i)' <=> Public(i)
    BY <2>1, QuietTypes
  <2>3. task[p] # "create" /\ (task[p] = "replace" => Output(p) # snap[p].content)
    BY <1>1, <1>5 DEF ProcInv, OnTask, Checks, Again, NothingToWrite
  <2>4. task[p] # "validate"
    BY <1>1, <1>5 DEF ProcInv, OnTask, Checks, Again, NothingToWrite
  <2>5. SnapPublic(p)' /\ SnapTaken(p)'
    BY <1>1, <1>2, <2>1, <2>2
    DEF ProcInv, SnapPublic, SnapTaken, Opening, Steps, Checks, Reads, Prepares
  <2>6. OnTask(p)'
    BY <1>1, <1>2, <2>1, <2>3, <2>4 DEF OnTask, Again, Output, Checks, Reads, Prepares
  <2>7. TempTracked(p)' /\ ResultTrue(p)' /\ EntriesNewer(p)'
    BY <1>1, <1>5, <2>1
    DEF ProcInv, TempTracked, ResultTrue, EntriesNewer, Steps, Reads, Checks, Prepares
  <2>8. TempReady(p)'
    BY <1>1, <1>2, <1>5, <2>1, <2>3 DEF ProcInv, TempReady, Again, Output, Checks, Prepares
  <2>9. SourceChecked(p)'
    BY <1>1, <1>2, <1>5, <2>1, <2>3
    DEF ProcInv, SourceChecked, SnapPublic, Opening, Checks, Prepares, SameBytes
  <2> QED
    BY <2>1, <2>5, <2>6, <2>7, <2>8, <2>9, QuietStep DEF ProcInv
<1> QED
  BY <1>3, <1>4, <1>5 DEF CheckBytes

(* A creation goes on when nothing is there. *)
LEMMA LookupStep == ASSUME ReplaceInv, NEW p \in Procs, Lookup(p) PROVE ReplaceInv'
<1>1. ProcInv(p) /\ TypeOK /\ pc[p] = "lookup"
  BY DEF ReplaceInv, Lookup, Goto, Return
<1>2. CASE Goto(p, "lookup", "create") /\ UNCHANGED result
  <2>1. handle' = handle /\ snap' = snap /\ unseen' = unseen /\ Sees(p, {})
    BY <1>1 DEF Lookup, Sees, TypeOK
  <2>2. /\ Quiet(p) /\ pc'[p] = "create"
        /\ UNCHANGED <<entry, entries, rootMoved, content, mode, durable, edits, task, temp,
                       installed>>
    BY <1>1, <1>2, <2>1, CheckGoesOn DEF Lookup, Steps, Checks, TypeOK, ProcTypes
  <2>3. \A i : Public(i)' <=> Public(i)
    BY <2>2, QuietTypes
  <2>4. temp[p] = "none" /\ task[p] = "create"
    BY <1>1 DEF ProcInv, TempTracked, OnTask, TypeOK, Tasks
  <2>5. SnapPublic(p)' /\ SnapTaken(p)'
    BY <1>1, <2>1, <2>2, <2>3, <2>4
    DEF ProcInv, SnapPublic, SnapTaken, Opening, Steps, Checks, Reads, Prepares
  <2>6. OnTask(p)'
    BY <2>2, <2>4 DEF OnTask, Again, Checks, Reads, Prepares
  <2>7. TempTracked(p)' /\ ResultTrue(p)' /\ EntriesNewer(p)'
    BY <1>1, <1>2, <2>2, <2>4
    DEF ProcInv, TempTracked, ResultTrue, EntriesNewer, Steps, Reads, Checks, Prepares
  <2>8. TempReady(p)' /\ SourceChecked(p)'
    BY <2>2, <2>4 DEF TempReady, SourceChecked, Again, Checks, Prepares
  <2> QED
    BY <2>2, <2>5, <2>6, <2>7, <2>8, QuietStep DEF ProcInv
<1>3. CASE Return(p, "lookup", "stale")
  <2>1. installed[p] = 0
    BY <1>1 DEF ProcInv, ResultTrue, Steps
  <2> QED
    BY <1>3, <2>1, EarlyReturn DEF Lookup, Steps, Opening
<1> QED
  BY <1>2, <1>3 DEF Lookup

-----------------------------------------------------------------------------
(* The temporary file. *)

(* A step that prepares the file of p: only inode p changes, and no path names it. *)
Prepared(p) ==
  /\ UNCHANGED <<entry, entries, rootMoved, edits, task, snap, handle, unseen, installed, result>>
  /\ installed[p] = 0
  /\ InodeTypes'
  /\ \A i \in Inodes \ {p} :
       content'[i] = content[i] /\ mode'[i] = mode[i] /\ durable'[i] = durable[i]
  /\ pc' \in [Procs -> Steps \cup {"returned", "crashed"}]
  /\ temp' \in [Procs -> {"none", "present", "stuck"}]
  /\ \A q \in Procs \ {p} : pc'[q] = pc[q] /\ temp'[q] = temp[q]

(* The temporary inode is not public: preparing it disturbs no reader of the path. *)
LEMMA PreparedKeeps ==
  ASSUME ReplaceInv, NEW p \in Procs, Prepared(p)
  PROVE  TypeOK' /\ PathsPublic' /\ \A i : Public(i)' <=> Public(i)
<1>1. TypeOK /\ PathsPublic /\ ~Public(p)
  BY TempPrivate DEF ReplaceInv, Prepared
<1>2. \A i : Public(i)' <=> Public(i)
  <2>1. ASSUME NEW i
        PROVE  Public(i)' <=> Public(i)
    <3>1. CASE i = p
      BY <1>1, <3>1, DistinctAssumption DEF Public, Known, Prepared, TypeOK
    <3>2. CASE i # p
      BY <3>2 DEF Public, Known, Prepared
    <3> QED
      BY <3>1, <3>2
  <2> QED
    BY <2>1
<1>3. PathsPublic'
  BY <1>1, <1>2 DEF PathsPublic, Prepared
<1>4. PathTypes'
  BY <1>1, <1>3 DEF TypeOK, PathTypes, Prepared, PathsPublic, Public
<1> QED
  BY <1>1, <1>2, <1>3, <1>4 DEF TypeOK, ProcTypes, Prepared

(* It is enough to look at p. *)
LEMMA PreparedStep ==
  ASSUME ReplaceInv, NEW p \in Procs, Prepared(p), ProcInv(p)'
  PROVE  ReplaceInv'
<1>1. TypeOK' /\ PathsPublic' /\ \A i : Public(i)' <=> Public(i)
  BY PreparedKeeps
<1>2. ASSUME NEW q \in Procs \ {p}
      PROVE  ProcInv(q)'
  <2>1. Idles(q)
    BY DEF Idles, Prepared, Inodes
  <2>2. EntriesAge
    BY DEF EntriesAge, Prepared, ReplaceInv, TypeOK, PathTypes, Entry
  <2>3. Noted(q)
    <3>1. \A i : Public(i) => i \in Inodes \ {p}
      BY TempPrivate DEF Public, Prepared
    <3> QED
      BY <3>1 DEF Noted, Prepared
  <2> QED
    BY <1>1, <2>1, <2>2, <2>3, IdlesKeeps DEF TypeOK
<1> QED
  BY <1>1, <1>2 DEF ReplaceInv

(* What every step of the preparation leaves to be shown of p. *)
LEMMA PreparedProc ==
  ASSUME ReplaceInv, NEW p \in Procs, Prepared(p),
         NEW from \in Prepares \ {"install"}, NEW to \in Prepares,
         pc[p] = from, pc'[p] = to, to # "create", temp'[p] = "present", TempReady(p)'
  PROVE  ProcInv(p)'
<1>1. ProcInv(p) /\ (\A i : Public(i)' <=> Public(i))
  BY PreparedKeeps DEF ReplaceInv
<1>2. UNCHANGED <<entry, entries, rootMoved, edits, task, snap, handle, unseen, installed, result>>
  BY DEF Prepared
<1>3. task[p] # "create" => Public(snap[p].inode) /\ snap[p].inode \in Inodes \ {p}
  BY <1>1, TempPrivate DEF ProcInv, SnapTaken, SnapPublic, Prepared, Public
<1>4. SnapPublic(p)' /\ SnapTaken(p)'
  BY <1>1, <1>2 DEF ProcInv, SnapPublic, SnapTaken, Opening, Steps, Checks, Reads, Prepares
<1>5. OnTask(p)'
  BY <1>1, <1>2 DEF ProcInv, OnTask, Again, Output, Checks, Reads, Prepares
<1>6. TempTracked(p)' /\ ResultTrue(p)' /\ EntriesNewer(p)'
  BY <1>1, <1>2
  DEF ProcInv, TempTracked, ResultTrue, EntriesNewer, Steps, Reads, Checks, Prepares
<1>7. SourceChecked(p)'
  BY <1>1, <1>2, <1>3 DEF ProcInv, SourceChecked, Prepared, Checks, Prepares
<1> QED
  BY <1>4, <1>5, <1>6, <1>7 DEF ProcInv

(* The temporary file is created with no content. *)
LEMMA CreateTemporaryStep ==
  ASSUME ReplaceInv, NEW p \in Procs, CreateTemporary(p) PROVE ReplaceInv'
<1>1. ProcInv(p) /\ TypeOK /\ pc[p] = "create" /\ p \in Inodes
  BY DEF ReplaceInv, CreateTemporary, Goto, Inodes
<1>2. pc'[p] = "write" /\ temp'[p] = "present"
  BY <1>1 DEF CreateTemporary, Goto, TypeOK, ProcTypes
<1>3. Prepared(p)
  <2>1. installed[p] = 0
    BY <1>1 DEF ProcInv, ResultTrue, Steps
  <2>2. InodeTypes'
    BY <1>1, ModesAssumption DEF CreateTemporary, TypeOK, InodeTypes, Data
  <2> QED
    BY <1>1, <2>1, <2>2
    DEF Prepared, CreateTemporary, Goto, Unseeing, pathVars, TypeOK, InodeTypes, ProcTypes, Steps
<1>4. TempReady(p)'
  BY <1>2 DEF TempReady, Again, Checks
<1>5. ProcInv(p)'
  BY <1>1, <1>2, <1>3, <1>4, PreparedProc DEF Prepares
<1> QED
  BY <1>3, <1>5, PreparedStep

(* The whole output is written to the temporary file. *)
LEMMA WriteStep == ASSUME ReplaceInv, NEW p \in Procs, Write(p) PROVE ReplaceInv'
<1>1. ProcInv(p) /\ TypeOK /\ pc[p] = "write" /\ p \in Inodes
  BY DEF ReplaceInv, Write, Goto, Inodes
<1>2. pc'[p] = "chmod" /\ temp'[p] = "present" /\ content'[p] = Output(p)
  BY <1>1 DEF Write, Goto, TypeOK, ProcTypes, InodeTypes, ProcInv, TempTracked, Prepares
<1>3. Output(p) \in Contents
  BY <1>1, RewriteAssumption DEF Output, ProcInv, SnapTaken, Prepares
<1>4. Prepared(p)
  <2>1. installed[p] = 0
    BY <1>1 DEF ProcInv, ResultTrue, Steps
  <2>2. InodeTypes'
    BY <1>1, <1>3 DEF Write, TypeOK, InodeTypes, Data
  <2> QED
    BY <1>1, <2>1, <2>2
    DEF Prepared, Write, Goto, Unseeing, pathVars, TypeOK, InodeTypes, ProcTypes, Steps
<1>5. TempReady(p)'
  BY <1>2, <1>4 DEF TempReady, Again, Checks, Output, Prepared
<1>6. ProcInv(p)'
  BY <1>1, <1>2, <1>4, <1>5, PreparedProc DEF Prepares
<1> QED
  BY <1>4, <1>6, PreparedStep

(* The temporary file gets the mode of the file it will replace. *)
LEMMA ChmodStep == ASSUME ReplaceInv, NEW p \in Procs, Chmod(p) PROVE ReplaceInv'
<1>1. ProcInv(p) /\ TypeOK /\ pc[p] = "chmod" /\ p \in Inodes
  BY DEF ReplaceInv, Chmod, Goto, Inodes
<1>2. /\ pc'[p] = "sync" /\ temp'[p] = "present" /\ content' = content
      /\ mode'[p] = IF task[p] = "create" THEN CreateMode ELSE snap[p].mode
  BY <1>1 DEF Chmod, Goto, TypeOK, ProcTypes, InodeTypes, ProcInv, TempTracked, Prepares
<1>3. Prepared(p)
  <2>1. installed[p] = 0
    BY <1>1 DEF ProcInv, ResultTrue, Steps
  <2>2. InodeTypes'
    BY <1>1, ModesAssumption DEF Chmod, TypeOK, InodeTypes, ProcInv, SnapTaken, Prepares
  <2> QED
    BY <1>1, <2>1, <2>2
    DEF Prepared, Chmod, Goto, Unseeing, pathVars, TypeOK, InodeTypes, ProcTypes, Steps
<1>4. TempReady(p)'
  BY <1>1, <1>2, <1>3 DEF ProcInv, TempReady, Again, Checks, Output, Prepared
<1>5. ProcInv(p)'
  BY <1>1, <1>2, <1>3, <1>4, PreparedProc DEF Prepares
<1> QED
  BY <1>3, <1>5, PreparedStep

(* What is written is on disk. *)
LEMMA SyncStep == ASSUME ReplaceInv, NEW p \in Procs, Sync(p) PROVE ReplaceInv'
<1>1. ProcInv(p) /\ TypeOK /\ pc[p] = "sync" /\ p \in Inodes
  BY DEF ReplaceInv, Sync, Goto, Inodes
<1>2. /\ pc'[p] = "close" /\ temp'[p] = "present" /\ content' = content /\ mode' = mode
      /\ durable'[p] = {content[p]}
  BY <1>1 DEF Sync, Goto, TypeOK, ProcTypes, InodeTypes, ProcInv, TempTracked, Prepares
<1>3. Prepared(p)
  <2>1. installed[p] = 0
    BY <1>1 DEF ProcInv, ResultTrue, Steps
  <2>2. InodeTypes'
    BY <1>1 DEF Sync, TypeOK, InodeTypes
  <2> QED
    BY <1>1, <2>1, <2>2
    DEF Prepared, Sync, Goto, Unseeing, pathVars, TypeOK, InodeTypes, ProcTypes, Steps
<1>4. TempReady(p)'
  BY <1>1, <1>2, <1>3 DEF ProcInv, TempReady, Again, Checks, Output, Prepared
<1>5. ProcInv(p)'
  BY <1>1, <1>2, <1>3, <1>4, PreparedProc DEF Prepares
<1> QED
  BY <1>3, <1>5, PreparedStep

(* A creation is ready to be linked, a replacement is validated again. *)
LEMMA CloseStep == ASSUME ReplaceInv, NEW p \in Procs, Close(p) PROVE ReplaceInv'
<1>1. ProcInv(p) /\ TypeOK /\ pc[p] = "close"
  BY DEF ReplaceInv, Close, Goto
<1>2. /\ pc'[p] = AfterClose(p) /\ temp[p] = "present" /\ task[p] # "validate"
      /\ UNCHANGED <<entry, entries, rootMoved, content, mode, durable, edits, task, snap, handle,
                     unseen, temp, installed, result>>
  BY <1>1 DEF Close, Goto, TypeOK, ProcTypes, ProcInv, TempTracked, OnTask, Prepares, Unseeing,
              pathVars, inodeVars
<1>3. AfterClose(p) \in {"install", "lstat"} /\ (AfterClose(p) = "lstat" <=> task[p] # "create")
  BY DEF AfterClose
<1>4. Quiet(p)
  BY <1>1, <1>2, <1>3 DEF Quiet, Close, Goto, TypeOK, ProcTypes, Steps, Checks
<1>5. \A i : Public(i)' <=> Public(i)
  BY <1>4, QuietTypes
<1>6. SnapPublic(p)' /\ SnapTaken(p)'
  BY <1>1, <1>2, <1>3, <1>5
  DEF ProcInv, SnapPublic, SnapTaken, Opening, Steps, Checks, Reads, Prepares
<1>7. OnTask(p)'
  BY <1>1, <1>2, <1>3 DEF ProcInv, OnTask, Again, Output, Checks, Reads, Prepares
<1>8. TempTracked(p)' /\ ResultTrue(p)' /\ EntriesNewer(p)'
  BY <1>1, <1>2, <1>3
  DEF ProcInv, TempTracked, ResultTrue, EntriesNewer, Steps, Reads, Checks, Prepares
<1>9. TempReady(p)'
  BY <1>1, <1>2, <1>3 DEF ProcInv, TempReady, Again, Output, Checks, Prepares
<1>10. SourceChecked(p)'
  BY <1>1, <1>2, <1>3 DEF ProcInv, SourceChecked, Checks, Prepares
<1> QED
  BY <1>4, <1>6, <1>7, <1>8, <1>9, <1>10, QuietStep DEF ProcInv

(* A creation removes its temporary name once the file has its own. *)
LEMMA UnlinkStep == ASSUME ReplaceInv, NEW p \in Procs, Unlink(p) PROVE ReplaceInv'
<1>1. ProcInv(p) /\ TypeOK /\ pc[p] = "unlink"
  BY DEF ReplaceInv, Unlink, Goto
<1>2. /\ pc'[p] = "syncDir" /\ temp'[p] = "none" /\ task[p] = "create"
      /\ UNCHANGED <<entry, entries, rootMoved, content, mode, durable, edits, task, snap, handle,
                     unseen, installed, result>>
  BY <1>1 DEF Unlink, Goto, TypeOK, ProcTypes, ProcInv, OnTask, Unseeing, pathVars, inodeVars
<1>3. Quiet(p)
  <2>1. temp' \in [Procs -> {"none", "present", "stuck"}]
    BY <1>1 DEF Unlink, TypeOK, ProcTypes
  <2> QED
    BY <1>1, <1>2, <2>1 DEF Quiet, Unlink, Goto, TypeOK, ProcTypes, Steps
<1>4. \A i : Public(i)' <=> Public(i)
  BY <1>3, QuietTypes
<1>5. SnapPublic(p)' /\ SnapTaken(p)'
  BY <1>1, <1>2, <1>4
  DEF ProcInv, SnapPublic, SnapTaken, Opening, Steps, Checks, Reads, Prepares
<1>6. OnTask(p)' /\ TempReady(p)' /\ SourceChecked(p)'
  BY <1>2 DEF OnTask, TempReady, SourceChecked, Again, Checks, Reads, Prepares
<1>7. TempTracked(p)' /\ ResultTrue(p)' /\ EntriesNewer(p)'
  BY <1>1, <1>2
  DEF ProcInv, TempTracked, ResultTrue, EntriesNewer, Steps, Reads, Checks, Prepares
<1> QED
  BY <1>3, <1>5, <1>6, <1>7, QuietStep DEF ProcInv

(* The entry is durable: none that is older is left. *)
LEMMA SyncDirectoryStep ==
  ASSUME ReplaceInv, NEW p \in Procs, SyncDirectory(p) PROVE ReplaceInv'
<1>1. ProcInv(p) /\ TypeOK /\ pc[p] = "syncDir" /\ Return(p, "syncDir", "done")
  BY DEF ReplaceInv, SyncDirectory, Return
<1>2. /\ entries' = {entry} /\ snap' = snap /\ temp' = temp /\ handle' = handle
      /\ handle'[p] = Nil /\ temp[p] = "none" /\ entry.seq >= installed[p]
  BY <1>1
  DEF SyncDirectory, Unseeing, ProcInv, SnapPublic, TempTracked, EntriesNewer, Opening, Steps
<1>3. Quiet(p)
  BY <1>1 DEF Quiet, SyncDirectory, Unseeing, inodeVars, Return, TypeOK, ProcTypes, Steps
<1>4. ProcInv(p)'
  BY <1>1, <1>2, <1>3, ReturnKeeps DEF Outcomes, Steps
<1> QED
  BY <1>3, <1>4, QuietStep

(* A call fails; only before anything is installed is that a stale source. *)
LEMMA CallFailsStep == ASSUME ReplaceInv, NEW p \in Procs, CallFails(p) PROVE ReplaceInv'
<1>1. PICK from \in Steps \ {"cleanup"}, outcome \in {"stale", "failed"} :
        Return(p, from, outcome) /\ (outcome = "stale" => from \in {"root", "lstat", "open"})
  BY DEF CallFails, Failing, Steps, Checks
<1>2. outcome = "stale" => installed[p] = 0
  BY <1>1 DEF ReplaceInv, ProcInv, ResultTrue, Steps, Checks, Return
<1> QED
  BY <1>1, <1>2, EarlyReturn DEF CallFails

(* Once p has returned or crashed, little is left to say of it. *)
LEMMA CleanupStep == ASSUME ReplaceInv, NEW p \in Procs, Cleanup(p) PROVE ReplaceInv'
<1>1. ProcInv(p) /\ TypeOK /\ pc[p] = "cleanup"
  BY DEF ReplaceInv, Cleanup, Goto
<1>2. /\ pc'[p] = "returned" /\ temp'[p] # "present"
      /\ UNCHANGED <<entry, entries, rootMoved, content, mode, durable, edits, task, snap, handle,
                     unseen, installed, result>>
  BY <1>1 DEF Cleanup, Goto, TypeOK, ProcTypes, Unseeing, pathVars, inodeVars
<1>3. Quiet(p)
  <2>1. temp' \in [Procs -> {"none", "present", "stuck"}]
    BY <1>1 DEF Cleanup, TypeOK, ProcTypes
  <2> QED
    BY <1>1, <1>2, <2>1 DEF Quiet, Cleanup, Goto, TypeOK, ProcTypes, Steps
<1>4. \A i : Public(i)' <=> Public(i)
  BY <1>3, QuietTypes
<1>5. SnapPublic(p)'
  BY <1>1, <1>2, <1>4 DEF ProcInv, SnapPublic, Opening, Steps, Checks
<1>6. SnapTaken(p)' /\ OnTask(p)' /\ TempReady(p)' /\ SourceChecked(p)'
  BY <1>2 DEF SnapTaken, OnTask, TempReady, SourceChecked, Again, Checks, Reads, Prepares
<1>7. TempTracked(p)' /\ ResultTrue(p)' /\ EntriesNewer(p)'
  BY <1>1, <1>2
  DEF ProcInv, TempTracked, ResultTrue, EntriesNewer, Steps, Reads, Checks, Prepares
<1> QED
  BY <1>3, <1>5, <1>6, <1>7, QuietStep DEF ProcInv

(* A killed operation changes nothing any more. *)
LEMMA CrashStep == ASSUME ReplaceInv, NEW p \in Procs, Crash(p) PROVE ReplaceInv'
<1>1. ProcInv(p) /\ TypeOK
  BY DEF ReplaceInv
<1>2. /\ pc'[p] = "crashed"
      /\ UNCHANGED <<entry, entries, rootMoved, content, mode, durable, edits, task, snap, handle,
                     unseen, temp, installed, result>>
  BY <1>1 DEF Crash, TypeOK, ProcTypes, Unseeing, pathVars, inodeVars
<1>3. Quiet(p)
  BY <1>1, <1>2 DEF Quiet, Crash, TypeOK, ProcTypes
<1>4. \A i : Public(i)' <=> Public(i)
  BY <1>3, QuietTypes
<1>5. SnapPublic(p)' /\ ResultTrue(p)'
  BY <1>1, <1>2, <1>4 DEF ProcInv, SnapPublic, ResultTrue, Opening, Steps, Checks
<1>6. /\ SnapTaken(p)' /\ OnTask(p)' /\ TempReady(p)' /\ SourceChecked(p)' /\ TempTracked(p)'
      /\ EntriesNewer(p)'
  BY <1>2 DEF SnapTaken, OnTask, TempReady, SourceChecked, TempTracked, EntriesNewer, Again, Steps,
              Checks, Reads, Prepares
<1> QED
  BY <1>3, <1>5, <1>6, QuietStep DEF ProcInv

-----------------------------------------------------------------------------
(* The path changes. *)

(* The file of p takes its place at the path. *)
TakesPlace(p, to) ==
  /\ Goto(p, "install", to) /\ to \in {"syncDir", "unlink"}
  /\ SetEntry("file", p)
  /\ installed' = [installed EXCEPT ![p] = entry.seq + 1]
  /\ Unsees(Procs \ {p}, {"kind", "inode"})
  /\ temp' \in [Procs -> {"none", "present", "stuck"}]
  /\ \A q \in Procs \ {p} : temp'[q] = temp[q]
  /\ UNCHANGED <<rootMoved, content, mode, durable, edits, task, snap, handle, result>>

(* Once installed, the temporary inode is public, and was whole before. *)
LEMMA TakesPlaceKeeps ==
  ASSUME ReplaceInv, NEW p \in Procs, NEW to, TakesPlace(p, to)
  PROVE  /\ TypeOK' /\ PathsPublic' /\ (\A i : Public(i) => Public(i)')
         /\ \A q \in Procs \ {p} : ProcInv(q)'
<1>1. ProcInv(p) /\ TypeOK /\ PathsPublic /\ pc[p] = "install" /\ p \in Inodes
  BY DEF ReplaceInv, TakesPlace, Goto, Inodes
<1>2. entry.seq \in Nat /\ entry.seq + 1 \in Nat /\ entry.seq + 1 > entry.seq /\ entry.seq + 1 # 0
  BY <1>1 DEF TypeOK, PathTypes, Entry
<1>3. /\ entry' = [kind |-> "file", inode |-> p, seq |-> entry.seq + 1]
      /\ entries' = entries \cup {entry'}
  BY DEF TakesPlace, SetEntry
<1>4. content[p] \in Contents /\ durable[p] = {content[p]}
  <2>1. Output(p) \in Contents
    BY <1>1, RewriteAssumption DEF Output, ProcInv, SnapTaken, Prepares
  <2> QED
    BY <1>1, <2>1 DEF ProcInv, TempReady
<1>5. \A i : Public(i) => Public(i)'
  BY <1>1, <1>2 DEF Public, Known, TakesPlace, TypeOK, ProcTypes
<1>6. Public(p)'
  BY <1>1, <1>2, <1>4 DEF Public, Known, TakesPlace, TypeOK, ProcTypes
<1>7. PathsPublic'
  BY <1>1, <1>3, <1>5, <1>6 DEF PathsPublic
<1>8. TypeOK'
  <2>1. PathTypes'
    BY <1>1, <1>2, <1>3, <1>4 DEF TypeOK, PathTypes, TakesPlace, Entry
  <2>2. unseen' \in [Procs -> SUBSET Aspects]
    BY <1>1 DEF TypeOK, TakesPlace, Unsees, Aspects
  <2>3. ProcTypes'
    BY <1>1, <1>2 DEF TypeOK, TakesPlace, ProcTypes, Goto, Steps
  <2> QED
    BY <1>1, <2>1, <2>2, <2>3 DEF TypeOK, TakesPlace, InodeTypes
<1>9. ASSUME NEW q \in Procs \ {p}
      PROVE  ProcInv(q)'
  <2>1. Idles(q)
    BY <1>1 DEF Idles, TakesPlace, Goto, TypeOK, ProcTypes
  <2>2. EntriesAge
    BY <1>2, <1>3 DEF EntriesAge
  <2>3. Noted(q)
    BY <1>1 DEF Noted, TakesPlace, Unsees, TypeOK
  <2> QED
    BY <1>5, <1>8, <2>1, <2>2, <2>3, IdlesKeeps DEF TypeOK
<1> QED
  BY <1>5, <1>7, <1>8, <1>9

(* What is left to say of p. *)
LEMMA TakesPlaceStep ==
  ASSUME ReplaceInv, NEW p \in Procs, NEW to, TakesPlace(p, to),
         to = "syncDir" => task[p] = "replace" /\ temp'[p] = "none",
         to = "unlink" => task[p] = "create" /\ temp'[p] = "present"
  PROVE  ReplaceInv'
<1>1. /\ TypeOK' /\ PathsPublic' /\ (\A i : Public(i) => Public(i)')
      /\ \A q \in Procs \ {p} : ProcInv(q)'
  BY TakesPlaceKeeps
<1>2. ProcInv(p) /\ TypeOK /\ pc[p] = "install" /\ to \in {"syncDir", "unlink"} /\ pc'[p] = to
  BY DEF ReplaceInv, TakesPlace, Goto, TypeOK, ProcTypes
<1>3. /\ UNCHANGED <<task, snap, handle, result>>
      /\ installed'[p] = entry.seq + 1 /\ entry'.seq = entry.seq + 1 /\ entry.seq \in Nat
  BY <1>2 DEF TakesPlace, SetEntry, TypeOK, ProcTypes, PathTypes, Entry
<1>4. SnapPublic(p)' /\ SnapTaken(p)'
  BY <1>1, <1>2, <1>3 DEF ProcInv, SnapPublic, SnapTaken, Opening, Steps, Checks, Reads, Prepares
<1>5. OnTask(p)' /\ TempReady(p)' /\ SourceChecked(p)'
  BY <1>2, <1>3 DEF OnTask, TempReady, SourceChecked, Again, Checks, Reads, Prepares
<1>6. TempTracked(p)' /\ ResultTrue(p)' /\ EntriesNewer(p)'
  BY <1>2, <1>3
  DEF ProcInv, TempTracked, ResultTrue, EntriesNewer, Steps, Reads, Checks, Prepares
<1> QED
  BY <1>1, <1>4, <1>5, <1>6 DEF ReplaceInv, ProcInv

(* The rename installs a replacement. *)
LEMMA RenameStep == ASSUME ReplaceInv, NEW p \in Procs, Rename(p) PROVE ReplaceInv'
<1>1. temp' \in [Procs -> {"none", "present", "stuck"}] /\ temp'[p] = "none"
  BY DEF ReplaceInv, Rename, TypeOK, ProcTypes
<1>2. TakesPlace(p, "syncDir") /\ task[p] = "replace"
  BY <1>1 DEF Rename, TakesPlace, inodeVars
<1> QED
  BY <1>1, <1>2, TakesPlaceStep

(* The link installs a creation, or fails on a file that is there. *)
LEMMA LinkStep == ASSUME ReplaceInv, NEW p \in Procs, Link(p) PROVE ReplaceInv'
<1>1. ProcInv(p) /\ TypeOK /\ pc[p] = "install"
  BY DEF ReplaceInv, Link, Goto, Return
<1>2. CASE entry.kind = "absent" /\ Goto(p, "install", "unlink")
  <2>1. temp' = temp /\ temp[p] = "present" /\ task[p] = "create"
    BY <1>1 DEF Link, ProcInv, TempTracked, Prepares
  <2>2. TakesPlace(p, "unlink")
    BY <1>1, <1>2, <2>1 DEF Link, TakesPlace, inodeVars, TypeOK, ProcTypes, Goto, Return
  <2> QED
    BY <2>1, <2>2, TakesPlaceStep
<1>3. CASE entry.kind # "absent" /\ Return(p, "install", "stale")
  <2>1. installed[p] = 0
    BY <1>1 DEF ProcInv, ResultTrue, Steps
  <2>2. ReadOnly /\ UNCHANGED <<snap, handle, unseen>>
    BY <1>3 DEF Link, ReadOnly, pathVars, inodeVars
  <2> QED
    BY <1>3, <2>1, <2>2, EarlyReturn DEF Steps, Opening
<1> QED
  BY <1>2, <1>3 DEF Link

-----------------------------------------------------------------------------
(* Other programs, and the loss of power. *)

(* A step of another program keeps what every operation relies on, as it is noted. *)
LEMMA ElsewhereStep ==
  ASSUME ReplaceInv, Elsewhere, TypeOK', PathsPublic', EntriesAge,
         \A i : Public(i) => Public(i)',
         \A q \in Procs : installed[q] = 0 =>
           content'[q] = content[q] /\ mode'[q] = mode[q] /\ durable'[q] = durable[q],
         \A q \in Procs : Noted(q)
  PROVE  ReplaceInv'
<1>1. ASSUME NEW q \in Procs
      PROVE  ProcInv(q)'
  <2>1. Idles(q)
    BY DEF Idles, Elsewhere, procVars
  <2> QED
    BY <2>1, IdlesKeeps DEF TypeOK
<1> QED
  BY <1>1 DEF ReplaceInv

(* A file written in place stays whole; the operations' checks of it are out of date. *)
LEMMA WriteInPlaceStep ==
  ASSUME ReplaceInv, NEW c \in Contents, WriteInPlace(c) PROVE ReplaceInv'
<1> DEFINE at == entry.inode
<1>1. TypeOK /\ PathsPublic /\ Public(at) /\ at \in Inodes
  BY DEF ReplaceInv, WriteInPlace, PathsPublic, Public
<1>2. /\ content' = [content EXCEPT ![at] = c] /\ durable' = [durable EXCEPT ![at] = @ \cup {c}]
      /\ edits' = edits + 1 /\ edits < MaxEdits
      /\ UNCHANGED <<entry, entries, rootMoved, mode, task, pc, snap, handle, temp, installed,
                     result>>
  BY DEF WriteInPlace, Edit, Elsewhere, procVars, pathVars
<1>3. edits' \in 0..MaxEdits /\ \A i : Known(i) => Known(i)'
  BY <1>1, <1>2, EditsAssumption DEF TypeOK, Known
<1>4. \A i : Public(i) => Public(i)'
  BY <1>1, <1>2, <1>3 DEF Public, TypeOK, InodeTypes
<1>5. PathsPublic'
  BY <1>1, <1>2, <1>4 DEF PathsPublic
<1>6. TypeOK'
  <2>1. PathTypes' /\ InodeTypes'
    BY <1>1, <1>2 DEF TypeOK, PathTypes, InodeTypes, Data
  <2>2. unseen' \in [Procs -> SUBSET Aspects]
    BY <1>1 DEF TypeOK, WriteInPlace, Unsees, Aspects
  <2> QED
    BY <1>1, <1>2, <1>3, <2>1, <2>2 DEF TypeOK, ProcTypes
<1>7. \A q \in Procs : installed[q] = 0 => q # at
  BY <1>1, TempPrivate
<1>8. \A q \in Procs : Noted(q)
  BY <1>1, <1>2 DEF Noted, WriteInPlace, Unsees, TypeOK
<1>9. EntriesAge
  BY <1>1, <1>2 DEF EntriesAge, TypeOK, PathTypes, Entry
<1> QED
  BY <1>1, <1>2, <1>4, <1>5, <1>6, <1>7, <1>8, <1>9, ElsewhereStep
  DEF WriteInPlace, TypeOK, InodeTypes

(* So are their checks of its mode when that changes. *)
LEMMA ChangeModeStep ==
  ASSUME ReplaceInv, NEW m \in Modes, ChangeMode(m) PROVE ReplaceInv'
<1> DEFINE at == entry.inode
<1>1. TypeOK /\ PathsPublic /\ Public(at) /\ at \in Inodes
  BY DEF ReplaceInv, ChangeMode, PathsPublic, Public
<1>2. /\ mode' = [mode EXCEPT ![at] = m]
      /\ edits' = edits + 1 /\ edits < MaxEdits
      /\ UNCHANGED <<entry, entries, rootMoved, content, durable, task, pc, snap, handle, temp,
                     installed, result>>
  BY DEF ChangeMode, Edit, Elsewhere, procVars, pathVars
<1>3. edits' \in 0..MaxEdits /\ \A i : Known(i) => Known(i)'
  BY <1>1, <1>2, EditsAssumption DEF TypeOK, Known
<1>4. \A i : Public(i) => Public(i)'
  BY <1>1, <1>2, <1>3 DEF Public
<1>5. PathsPublic'
  BY <1>1, <1>2, <1>4 DEF PathsPublic
<1>6. TypeOK'
  <2>1. PathTypes' /\ InodeTypes'
    BY <1>1, <1>2 DEF TypeOK, PathTypes, InodeTypes
  <2>2. unseen' \in [Procs -> SUBSET Aspects]
    BY <1>1 DEF TypeOK, ChangeMode, Unsees, Aspects
  <2> QED
    BY <1>1, <1>2, <1>3, <2>1, <2>2 DEF TypeOK, ProcTypes
<1>7. \A q \in Procs : installed[q] = 0 => q # at
  BY <1>1, TempPrivate
<1>8. \A q \in Procs : Noted(q)
  BY <1>1, <1>2 DEF Noted, ChangeMode, Unsees, TypeOK
<1>9. EntriesAge
  BY <1>1, <1>2 DEF EntriesAge, TypeOK, PathTypes, Entry
<1> QED
  BY <1>1, <1>2, <1>4, <1>5, <1>6, <1>7, <1>8, <1>9, ElsewhereStep
  DEF ChangeMode, TypeOK, InodeTypes

(* A new file takes a number that no inode had. *)
LEMMA SaveFileStep ==
  ASSUME ReplaceInv, NEW c \in Contents, NEW m \in Modes, SaveFile(c, m) PROVE ReplaceInv'
<1>0. PICK new \in {edits + 1} : TRUE
  OBVIOUS
<1>1. TypeOK /\ PathsPublic
  BY DEF ReplaceInv
<1>2. /\ content' = [content EXCEPT ![new] = c] /\ durable' = [durable EXCEPT ![new] = {c}]
      /\ mode' = [mode EXCEPT ![new] = m]
      /\ new = edits + 1 /\ edits' = new /\ edits < MaxEdits
      /\ entry' = [kind |-> "file", inode |-> new, seq |-> entry.seq + 1]
      /\ entries' = entries \cup {entry'}
      /\ UNCHANGED <<rootMoved, task, pc, snap, handle, temp, installed, result>>
  BY <1>0 DEF SaveFile, Edit, Elsewhere, procVars, SetEntry
<1>3. /\ new \in 0..MaxEdits /\ new \in Inodes /\ new \notin Procs /\ new \notin 0..edits
      /\ entry.seq \in Nat /\ entry.seq + 1 > entry.seq
  BY <1>1, <1>2, EditsAssumption, DistinctAssumption
  DEF TypeOK, PathTypes, Entry, Inodes
<1>4. \A i : Known(i) => Known(i)' /\ i # new
  BY <1>1, <1>2, <1>3, EditsAssumption DEF TypeOK, Known
<1>5. \A i : Public(i) => Public(i)'
  BY <1>1, <1>2, <1>4 DEF Public, TypeOK, InodeTypes
<1>6. Public(new)'
  <2>1. Known(new)'
    BY <1>2, <1>3, EditsAssumption DEF Known
  <2> QED
    BY <1>1, <1>2, <1>3, <2>1 DEF Public, TypeOK, InodeTypes
<1>7. PathsPublic'
  BY <1>1, <1>2, <1>5, <1>6 DEF PathsPublic
<1>8. TypeOK'
  <2>1. PathTypes' /\ InodeTypes'
    <3>1. entry' \in Entry
      BY <1>2, <1>3 DEF Entry
    <3> QED
      BY <1>1, <1>2, <1>3, <3>1 DEF TypeOK, PathTypes, InodeTypes, Data
  <2>2. unseen' \in [Procs -> SUBSET Aspects]
    BY <1>1 DEF TypeOK, SaveFile, Unsees, Aspects
  <2> QED
    BY <1>1, <1>2, <1>3, <2>1, <2>2 DEF TypeOK, ProcTypes
<1>9. \A q \in Procs : Noted(q)
  <2>1. \A i : Public(i) => content'[i] = content[i] /\ mode'[i] = mode[i]
    BY <1>1, <1>2, <1>4 DEF Public, TypeOK, InodeTypes
  <2> QED
    BY <1>1, <1>2, <2>1 DEF Noted, SaveFile, Unsees, TypeOK
<1>10. EntriesAge
  BY <1>2, <1>3 DEF EntriesAge
<1>11. \A q \in Procs : content'[q] = content[q] /\ mode'[q] = mode[q] /\ durable'[q] = durable[q]
  BY <1>1, <1>2, <1>3 DEF TypeOK, InodeTypes, Inodes
<1> QED
  BY <1>5, <1>7, <1>8, <1>9, <1>10, <1>11, ElsewhereStep DEF SaveFile

(* A removal, or a link in the place of the file: only the entry changes. *)
LEMMA EntryStep ==
  ASSUME ReplaceInv, Edit, Elsewhere, NEW kind, NEW inode, SetEntry(kind, inode),
         \/ kind = "absent" /\ inode = Nil
         \/ kind = "link" /\ inode = entry.inode /\ entry.kind = "file",
         UNCHANGED <<rootMoved, inodeVars>>,
         NEW aspects \in SUBSET Aspects, Unsees(Procs, aspects), "kind" \in aspects,
         "inode" \in aspects \/ inode = entry.inode
  PROVE  ReplaceInv'
<1>1. TypeOK /\ PathsPublic
  BY DEF ReplaceInv
<1>2. /\ edits' = edits + 1 /\ edits < MaxEdits
      /\ entry' = [kind |-> kind, inode |-> inode, seq |-> entry.seq + 1]
      /\ entries' = entries \cup {entry'}
      /\ UNCHANGED <<rootMoved, content, mode, durable, task, pc, snap, handle, temp, installed,
                     result>>
  BY DEF Edit, Elsewhere, procVars, SetEntry, inodeVars
<1>3. entry.seq \in Nat /\ entry.seq + 1 > entry.seq
  BY <1>1 DEF TypeOK, PathTypes, Entry
<1>4. edits' \in 0..MaxEdits /\ \A i : Known(i) => Known(i)'
  BY <1>1, <1>2, EditsAssumption DEF TypeOK, Known
<1>5. \A i : Public(i) => Public(i)'
  BY <1>2, <1>4 DEF Public
<1>6. PathsPublic'
  BY <1>1, <1>2, <1>5 DEF PathsPublic
<1>7. TypeOK'
  <2>1. entry' \in Entry
    BY <1>1, <1>2, <1>3 DEF Entry, TypeOK, PathTypes
  <2>2. PathTypes' /\ InodeTypes'
    BY <1>1, <1>2, <2>1 DEF TypeOK, PathTypes, InodeTypes
  <2>3. unseen' \in [Procs -> SUBSET Aspects]
    BY <1>1 DEF TypeOK, Unsees
  <2> QED
    BY <1>1, <1>2, <1>4, <2>2, <2>3 DEF TypeOK, ProcTypes
<1>8. \A q \in Procs : Noted(q)
  BY <1>1, <1>2 DEF Noted, Unsees, TypeOK
<1>9. EntriesAge
  BY <1>2, <1>3 DEF EntriesAge
<1> QED
  BY <1>2, <1>5, <1>6, <1>7, <1>8, <1>9, ElsewhereStep

(* And those of the root when it moves. *)
LEMMA MoveRootStep == ASSUME ReplaceInv, MoveRoot PROVE ReplaceInv'
<1>1. TypeOK /\ PathsPublic
  BY DEF ReplaceInv
<1>2. /\ edits' = edits + 1 /\ edits < MaxEdits /\ rootMoved' = TRUE
      /\ UNCHANGED <<entry, entries, content, mode, durable, task, pc, snap, handle, temp,
                     installed, result>>
  BY DEF MoveRoot, Edit, Elsewhere, procVars, inodeVars
<1>3. edits' \in 0..MaxEdits /\ \A i : Known(i) => Known(i)'
  BY <1>1, <1>2, EditsAssumption DEF TypeOK, Known
<1>4. \A i : Public(i) => Public(i)'
  BY <1>2, <1>3 DEF Public
<1>5. PathsPublic'
  BY <1>1, <1>2, <1>4 DEF PathsPublic
<1>6. TypeOK'
  <2>1. unseen' \in [Procs -> SUBSET Aspects]
    BY <1>1 DEF TypeOK, MoveRoot, Unsees, Aspects
  <2> QED
    BY <1>1, <1>2, <1>3, <2>1 DEF TypeOK, ProcTypes, PathTypes, InodeTypes
<1>7. \A q \in Procs : Noted(q)
  BY <1>1, <1>2 DEF Noted, MoveRoot, Unsees, TypeOK
<1>8. EntriesAge
  BY <1>1, <1>2 DEF EntriesAge, TypeOK, PathTypes, Entry
<1> QED
  BY <1>2, <1>4, <1>5, <1>6, <1>7, <1>8, ElsewhereStep DEF MoveRoot

(* The disk is what it may have been; every operation that ran has crashed. *)
LEMMA PowerLossStep == ASSUME ReplaceInv, PowerLoss PROVE ReplaceInv'
<1>1. TypeOK /\ PathsPublic
  BY DEF ReplaceInv
<1>2. /\ entry' \in entries /\ entries' = {entry'}
      /\ pc' = [p \in Procs |-> IF pc[p] \in Steps THEN "crashed" ELSE pc[p]]
      /\ UNCHANGED <<rootMoved, mode, temp, installed, result, edits, task, snap, handle, unseen>>
  BY DEF PowerLoss, Unseeing
<1>3. PICK c \in Held(entry', durable) :
        IF entry'.kind = "absent"
        THEN UNCHANGED <<content, durable>>
        ELSE /\ content' = [content EXCEPT ![entry'.inode] = c]
             /\ durable' = [durable EXCEPT ![entry'.inode] = {c}]
  BY DEF PowerLoss
<1>4. \A i : Known(i)' <=> Known(i)
  BY <1>2 DEF Known
<1>5. entry'.kind # "absent" => Public(entry'.inode) /\ c \in Contents
  BY <1>1, <1>2, <1>3 DEF PathsPublic, Public, Held
<1>6. \A i : Public(i) => Public(i)'
  BY <1>1, <1>3, <1>4, <1>5 DEF Public, TypeOK, InodeTypes
<1>7. PathsPublic'
  BY <1>1, <1>2, <1>6 DEF PathsPublic
<1>8. TypeOK'
  <2>1. InodeTypes'
    BY <1>1, <1>3, <1>5, <1>2 DEF TypeOK, InodeTypes, Data, Public
  <2>2. PathTypes'
    BY <1>1, <1>2, <1>7 DEF TypeOK, PathTypes, PathsPublic, Public
  <2> QED
    BY <1>1, <1>2, <2>1, <2>2 DEF TypeOK, ProcTypes
<1>9. ASSUME NEW p \in Procs
      PROVE  ProcInv(p)'
  <2>1. /\ ProcInv(p) /\ pc'[p] \in {"returned", "crashed"}
        /\ pc'[p] = "returned" => pc[p] = "returned"
    BY <1>1, <1>2 DEF ReplaceInv, TypeOK, ProcTypes, Steps, Checks
  <2>2. SnapPublic(p)'
    BY <1>2, <1>6, <2>1 DEF ProcInv, SnapPublic, Opening, Steps, Checks
  <2>3. ResultTrue(p)' /\ TempTracked(p)' /\ EntriesNewer(p)'
    BY <1>2, <2>1
    DEF ProcInv, ResultTrue, TempTracked, EntriesNewer, Steps, Checks, Reads, Prepares
  <2>4. SnapTaken(p)' /\ OnTask(p)' /\ TempReady(p)' /\ SourceChecked(p)'
    BY <2>1 DEF SnapTaken, OnTask, TempReady, SourceChecked, Again, Checks, Reads, Prepares
  <2> QED
    BY <2>2, <2>3, <2>4 DEF ProcInv
<1> QED
  BY <1>7, <1>8, <1>9 DEF ReplaceInv

-----------------------------------------------------------------------------
(* The specification                                                        *)

(* The file that is there at first is whole, and no operation has done anything. *)
LEMMA InitInv == Init => ReplaceInv
<1> SUFFICES ASSUME Init PROVE ReplaceInv
  OBVIOUS
<1>1. PICK c \in Contents, m \in Modes :
        /\ entry.kind # "absent" =>
             /\ content = [i \in Inodes |-> IF i = 0 THEN c ELSE Torn]
             /\ mode = [i \in Inodes |-> IF i = 0 THEN m ELSE Private]
             /\ entry = [kind |-> "file", inode |-> 0, seq |-> 0]
        /\ entry.kind = "absent" =>
             /\ content = [i \in Inodes |-> Torn]
             /\ mode = [i \in Inodes |-> Private]
             /\ entry = [kind |-> "absent", inode |-> Nil, seq |-> 0]
  BY RewriteAssumption, ModesAssumption DEF Init
<1>2. /\ entries = {entry} /\ durable = [i \in Inodes |-> {content[i]}]
      /\ rootMoved = FALSE /\ edits = 0 /\ task \in [Procs -> Tasks]
      /\ pc = [p \in Procs |-> IF task[p] = "create" THEN "lookup" ELSE "readLstat"]
      /\ snap = [p \in Procs |-> NoSnapshot] /\ handle = [p \in Procs |-> Nil]
      /\ temp = [p \in Procs |-> "none"] /\ installed = [p \in Procs |-> 0]
      /\ result = [p \in Procs |-> "none"] /\ unseen = [p \in Procs |-> {}]
  BY DEF Init
<1>3. 0 \in Inodes /\ 0 \in 0..MaxEdits
  BY EditsAssumption DEF Inodes
<1>4. PathTypes
  <2>1. entry \in Entry
    <3>1. CASE entry.kind = "absent"
      BY <1>1, <3>1 DEF Entry
    <3>2. CASE entry.kind # "absent"
      BY <1>1, <1>3, <3>2 DEF Entry
    <3> QED
      BY <3>1, <3>2
  <2>2. entry.kind # "absent" => content[entry.inode] \in Contents
    BY <1>1, <1>3
  <2> QED
    BY <1>2, <2>1, <2>2 DEF PathTypes
<1>5. content \in [Inodes -> Data] /\ mode \in [Inodes -> Modes]
  BY <1>1, ModesAssumption DEF Data
<1>6. InodeTypes
  BY <1>2, <1>5 DEF InodeTypes
<1>7. ProcTypes
  <2>1. NoSnapshot \in Snapshot
    BY DEF NoSnapshot, Snapshot
  <2> QED
    BY <1>2, <2>1 DEF ProcTypes, Steps
<1>8. TypeOK
  BY <1>2, <1>3, <1>4, <1>6, <1>7 DEF TypeOK
<1>9. PathsPublic
  BY <1>1, <1>2, <1>3 DEF PathsPublic, Public, Known
<1>10. ASSUME NEW p \in Procs
       PROVE  ProcInv(p)
  <2>1. /\ pc[p] = IF task[p] = "create" THEN "lookup" ELSE "readLstat"
        /\ snap[p].inode = Nil /\ snap[p].content = Nil /\ handle[p] = Nil /\ temp[p] = "none"
        /\ installed[p] = 0 /\ result[p] = "none" /\ entry.seq \in Nat
    BY <1>2, <1>4 DEF NoSnapshot, PathTypes, Entry
  <2>2. SnapPublic(p) /\ SnapTaken(p)
    BY <2>1 DEF SnapPublic, SnapTaken, Opening, Reads, Prepares, Checks
  <2>3. OnTask(p) /\ TempTracked(p) /\ ResultTrue(p)
    BY <2>1 DEF OnTask, TempTracked, ResultTrue, Again, Reads, Prepares, Checks
  <2>4. TempReady(p) /\ SourceChecked(p) /\ EntriesNewer(p)
    BY <2>1 DEF TempReady, SourceChecked, EntriesNewer, Again, Reads, Prepares, Checks
  <2> QED
    BY <2>2, <2>3, <2>4 DEF ProcInv
<1> QED
  BY <1>8, <1>9, <1>10 DEF ReplaceInv

(* What other programs do keeps the invariant. *)
LEMMA OthersStep == ASSUME ReplaceInv, OtherPrograms PROVE ReplaceInv'
<1>1. CASE RemoveFile
  <2>1. /\ {"kind", "inode"} \in SUBSET Aspects /\ Edit /\ Elsewhere
        /\ SetEntry("absent", Nil) /\ Unsees(Procs, {"kind", "inode"})
        /\ UNCHANGED <<rootMoved, inodeVars>>
    BY <1>1 DEF RemoveFile, Aspects
  <2> QED
    BY <2>1, EntryStep
<1>2. CASE MakeLink
  <2>1. /\ {"kind"} \in SUBSET Aspects /\ Edit /\ Elsewhere
        /\ SetEntry("link", entry.inode) /\ entry.kind = "file" /\ Unsees(Procs, {"kind"})
        /\ UNCHANGED <<rootMoved, inodeVars>>
    BY <1>2 DEF MakeLink, Aspects
  <2> QED
    BY <2>1, EntryStep
<1> QED
  BY <1>1, <1>2, WriteInPlaceStep, ChangeModeStep, SaveFileStep, MoveRootStep DEF OtherPrograms

(* Every call of an operation keeps the invariant. *)
LEMMA OperationStep == ASSUME ReplaceInv, NEW p \in Procs, Operation(p) PROVE ReplaceInv'
<1>1. CASE Reading(p)
  BY <1>1, ReadLstatStep, ReadOpenStep, ReadAllStep DEF Reading
<1>2. CASE Checking(p)
  BY <1>2, OpenRootStep, CheckLstatStep, CheckOpenStep, CheckBytesStep, LookupStep DEF Checking
<1>3. CASE Preparing(p)
  BY <1>3, CreateTemporaryStep, WriteStep, ChmodStep, SyncStep, CloseStep DEF Preparing
<1>4. CASE Installing(p)
  BY <1>4, RenameStep, LinkStep, UnlinkStep, SyncDirectoryStep DEF Installing
<1>5. CASE Ending(p)
  BY <1>5, CallFailsStep, CleanupStep, CrashStep DEF Ending
<1> QED
  BY <1>1, <1>2, <1>3, <1>4, <1>5 DEF Operation

(* A stuttering step changes nothing the invariant is about. *)
LEMMA StutterStep == ASSUME ReplaceInv, UNCHANGED vars PROVE ReplaceInv'
<1>1. /\ UNCHANGED <<entry, entries, rootMoved, content, mode, durable, edits, task, unseen>>
      /\ UNCHANGED <<pc, snap, handle, temp, installed, result>>
  BY DEF vars, pathVars, inodeVars, procVars
<1>2. TypeOK'
  BY <1>1 DEF ReplaceInv, TypeOK, PathTypes, InodeTypes, ProcTypes
<1>3. PathsPublic' /\ \A i : Public(i)' <=> Public(i)
  BY <1>1 DEF ReplaceInv, PathsPublic, Public, Known
<1>4. ASSUME NEW p \in Procs
      PROVE  ProcInv(p)'
  <2>1. ProcInv(p)
    BY DEF ReplaceInv
  <2>2. SnapPublic(p)' /\ SnapTaken(p)' /\ OnTask(p)' /\ TempTracked(p)' /\ ResultTrue(p)'
    BY <1>1, <1>3, <2>1
    DEF ProcInv, SnapPublic, SnapTaken, OnTask, Again, Output, TempTracked, ResultTrue
  <2>3. TempReady(p)' /\ SourceChecked(p)' /\ EntriesNewer(p)'
    BY <1>1, <2>1 DEF ProcInv, TempReady, Again, Output, SourceChecked, EntriesNewer
  <2> QED
    BY <2>2, <2>3 DEF ProcInv
<1> QED
  BY <1>2, <1>3, <1>4 DEF ReplaceInv

(* Every step keeps the invariant. *)
LEMMA NextInv == ReplaceInv /\ [Next]_vars => ReplaceInv'
BY OperationStep, OthersStep, PowerLossStep, StutterStep DEF Next

(* ReplaceInv holds of every state the program, the editors and the failures lead to. *)
THEOREM Invariance == Spec => []ReplaceInv
BY InitInv, NextInv, PTL DEF Spec

(* The state has its types, and no reader of the path finds a file that is not whole, *)
(* for any number of operations and whatever a power loss leaves.                      *)
THEOREM TypeCorrect == Spec => []TypeOK
<1>1. ReplaceInv => TypeOK
  BY DEF ReplaceInv
<1> QED
  BY <1>1, Invariance, PTL

(* What an operation that returned no error has installed is not undone by a power loss. *)
THEOREM SuccessIsDurable == Spec => []SuccessDurable
<1>1. ReplaceInv => SuccessDurable
  BY DEF ReplaceInv, PathsPublic, ProcInv, EntriesNewer, SuccessDurable
<1> QED
  BY <1>1, Invariance, PTL

(* An operation that returns has removed its temporary file, or failed to. *)
THEOREM TemporariesRemoved == Spec => []NoTemporaryLeft
<1>1. ReplaceInv => NoTemporaryLeft
  BY DEF ReplaceInv, ProcInv, TempTracked, NoTemporaryLeft
<1> QED
  BY <1>1, Invariance, PTL

(* Only the rename and the link install. *)
LEMMA InstallsOnlyHere ==
  ASSUME ReplaceInv, [Next]_vars, NEW p \in Procs, Installs(p)
  PROVE  Rename(p) \/ (Link(p) /\ entry.kind = "absent")
<1>1. ASSUME NEW q \in Procs, Operation(q)
      PROVE  \/ Rename(q) \/ (Link(q) /\ entry.kind = "absent")
             \/ installed' = installed
  BY <1>1 DEF Operation, Reading, Checking, Preparing, Installing, Ending, ReadLstat, ReadOpen,
    ReadAll, OpenRoot, CheckLstat, CheckOpen, CheckBytes, Lookup, CreateTemporary, Write, Chmod,
    Sync, Close, Link, Unlink, SyncDirectory, CallFails, Cleanup, Crash, ReadOnly
<1>2. ASSUME NEW q \in Procs, Rename(q) \/ Link(q), q # p
      PROVE  installed'[p] = installed[p]
  BY <1>2 DEF Rename, Link, ReplaceInv, TypeOK, ProcTypes
<1>3. OtherPrograms => installed' = installed
  BY DEF OtherPrograms, WriteInPlace, ChangeMode, SaveFile, RemoveFile, MakeLink, MoveRoot,
    Elsewhere, procVars
<1>4. PowerLoss => installed' = installed
  BY DEF PowerLoss
<1>5. UNCHANGED vars => installed' = installed
  BY DEF vars, procVars
<1> QED
  BY <1>1, <1>2, <1>3, <1>4, <1>5 DEF Next, Installs

(* What is renamed or linked is whole, has its mode and is on disk. *)
THEOREM InstallsWhole == Spec => InstalledWhole
<1>1. ReplaceInv /\ [Next]_vars =>
        \A p \in Procs :
          Installs(p) => /\ content[p] = Output(p) /\ durable[p] = {Output(p)}
                         /\ mode[p] = IF task[p] = "create" THEN CreateMode ELSE snap[p].mode
  <2> SUFFICES ASSUME ReplaceInv, [Next]_vars, NEW p \in Procs, Installs(p)
               PROVE  /\ content[p] = Output(p) /\ durable[p] = {Output(p)}
                      /\ mode[p] = IF task[p] = "create" THEN CreateMode ELSE snap[p].mode
    OBVIOUS
  <2>1. pc[p] = "install" /\ TempReady(p)
    BY InstallsOnlyHere DEF Rename, Link, Goto, Return, ReplaceInv, ProcInv
  <2> QED
    BY <2>1 DEF TempReady
<1> QED
  BY <1>1, Invariance, PTL DEF InstalledWhole, Spec

(* A change made before the call that would have noticed it is never overwritten. *)
THEOREM OverwritesNoChange == Spec => NoChangeOverwritten
<1>1. ReplaceInv /\ [Next]_vars =>
        \A p \in Procs :
          Installs(p) => IF task[p] = "create" THEN entry.kind = "absent"
                                               ELSE UnchangedSinceRead(p)
  <2> SUFFICES ASSUME ReplaceInv, [Next]_vars, NEW p \in Procs, Installs(p)
               PROVE  IF task[p] = "create" THEN entry.kind = "absent" ELSE UnchangedSinceRead(p)
    OBVIOUS
  <2>1. CASE Rename(p)
    <3>1. pc[p] = "install" /\ task[p] = "replace" /\ SourceChecked(p)
      BY <2>1 DEF Rename, Goto, ReplaceInv, ProcInv
    <3>2. UnchangedSinceRead(p)
      BY <3>1 DEF SourceChecked, UnchangedSinceRead, Prepares, SameFile, SameMode
    <3> QED
      BY <3>1, <3>2
  <2>2. CASE Link(p) /\ entry.kind = "absent"
    BY <2>2 DEF Link
  <2> QED
    BY <2>1, <2>2, InstallsOnlyHere
<1> QED
  BY <1>1, Invariance, PTL DEF NoChangeOverwritten, Spec

-----------------------------------------------------------------------------
(* The contract: each call is one step of AtomicReplace, or none of its steps. *)

Basis == [p \in Procs |-> snap[p].content]
Put == [p \in Procs |-> installed[p] # 0]
Outcome == [p \in Procs |-> IF pc[p] = "returned" THEN result[p]
                            ELSE IF pc[p] = "crashed" THEN "crashed" ELSE "running"]

(* What the contract sees of the path. *)
SameView == Current' = Current /\ Possible' = Possible

(* The path holds nothing or a whole content, and a power loss may leave it as it is. *)
LEMMA CurrentWhole ==
  ASSUME ReplaceInv
  PROVE  /\ Current \in Contents \cup {Nil} /\ Current \in Possible
         /\ entry.kind = "absent" <=> Current = Nil
<1>1. TypeOK /\ PathsPublic
  BY DEF ReplaceInv
<1>2. Current \in Held(entry, durable)
  BY <1>1 DEF Current, Held, PathsPublic, Public
<1>3. Held(entry, durable) \subseteq Possible
  BY <1>1 DEF Possible, PathsPublic
<1>4. entry.kind # "absent" => Current \in Contents
  BY <1>1 DEF Current, TypeOK, PathTypes
<1> QED
  BY <1>2, <1>3, <1>4, DistinctAssumption DEF Current

(* Possible is what the entries hold; it depends on nothing but public inodes. *)
LEMMA ViewStays ==
  ASSUME ReplaceInv, entry' = entry, entries' = entries,
         \A i : Public(i) => content'[i] = content[i] /\ durable'[i] = durable[i]
  PROVE  SameView
<1>1. PathsPublic
  BY DEF ReplaceInv
<1>2. \A e \in entries : Held(e, durable') = Held(e, durable)
  BY <1>1 DEF Held, PathsPublic
<1>3. Possible' = Possible
  BY <1>2 DEF Possible
<1>4. Current' = Current
  BY <1>1 DEF Current, PathsPublic
<1> QED
  BY <1>3, <1>4 DEF SameView

(* A step the contract does not see. *)
LEMMA Unseen ==
  ASSUME SameView, UNCHANGED <<edits, task>>, Basis' = Basis, Put' = Put, Outcome' = Outcome
  PROVE  UNCHANGED Contract!vars
BY DEF SameView, Basis, Put, Outcome, Contract!vars

(* An operation that goes on is running. *)
LEMMA GoesOn ==
  ASSUME ReplaceInv, NEW p \in Procs, NEW to \in Steps, pc[p] \in Steps,
         pc' = [pc EXCEPT ![p] = to], \A q \in Procs \ {p} : result'[q] = result[q]
  PROVE  Outcome' = Outcome
<1>1. ASSUME NEW q \in Procs
      PROVE  Outcome'[q] = Outcome[q]
  BY DEF ReplaceInv, TypeOK, ProcTypes, Outcome, Steps, Checks
<1> QED
  BY <1>1 DEF Outcome

(* One that ends has its result as its outcome. *)
LEMMA Ends ==
  ASSUME ReplaceInv, NEW p \in Procs, NEW to \in {"returned", "crashed"}, pc[p] \in Steps,
         pc' = [pc EXCEPT ![p] = to], \A q \in Procs \ {p} : result'[q] = result[q]
  PROVE  /\ Outcome[p] = "running"
         /\ Outcome' = [Outcome EXCEPT ![p] = IF to = "returned" THEN result'[p] ELSE "crashed"]
<1>1. Outcome[p] = "running"
  BY DEF Outcome, Steps, Checks
<1>2. ASSUME NEW q \in Procs
      PROVE  Outcome'[q] = IF q # p THEN Outcome[q]
                           ELSE IF to = "returned" THEN result'[p] ELSE "crashed"
  BY DEF ReplaceInv, TypeOK, ProcTypes, Outcome
<1> QED
  BY <1>1, <1>2 DEF Outcome

(* A return is one the contract allows, or the temporary file is still to be removed. *)
LEMMA ReturnRefines ==
  ASSUME ReplaceInv, NEW p \in Procs, NEW from \in Steps, NEW outcome \in Outcomes,
         Return(p, from, outcome), UNCHANGED <<edits, task, snap, installed>>,
         Current' = Current, Possible' \subseteq Possible, Current \in Possible',
         temp[p] = "present" => Possible' = Possible,
         outcome = "stale" => installed[p] = 0,
         outcome = "done" =>
           CASE task[p] = "create"   -> installed[p] # 0
             [] task[p] = "validate" -> snap[p].content # Nil
             [] OTHER -> \/ installed[p] # 0
                         \/ snap[p].content # Nil /\ Rewrite[snap[p].content] = snap[p].content
  PROVE  Contract!Return(p) \/ UNCHANGED Contract!vars
<1>1. /\ pc[p] \in Steps /\ Basis' = Basis /\ Put' = Put
      /\ \A q \in Procs \ {p} : result'[q] = result[q]
      /\ result'[p] = outcome
  BY DEF Return, Basis, Put, ReplaceInv, TypeOK, ProcTypes
<1>2. CASE temp[p] = "present"
  <2>1. pc' = [pc EXCEPT ![p] = "cleanup"] /\ "cleanup" \in Steps
    BY <1>2 DEF Return, Steps
  <2>2. Outcome' = Outcome
    BY <1>1, <2>1, GoesOn
  <2> QED
    BY <1>1, <1>2, <2>2, Unseen DEF SameView
<1>3. CASE temp[p] # "present"
  <2>1. pc' = [pc EXCEPT ![p] = "returned"]
    BY <1>3 DEF Return
  <2>2. Outcome[p] = "running" /\ Outcome' = [Outcome EXCEPT ![p] = outcome]
    BY <1>1, <2>1, Ends
  <2>3. outcome = "done" => Contract!Performed(p)
    BY DEF Contract!Performed, Contract!Output
  <2>4. outcome = "stale" => ~Put[p]
    BY DEF Put
  <2>5. /\ \/ Contract!Performed(p) /\ Outcome' = [Outcome EXCEPT ![p] = "done"]
           \/ ~Put[p] /\ Outcome' = [Outcome EXCEPT ![p] = "stale"]
           \/ Outcome' = [Outcome EXCEPT ![p] = "failed"]
    BY <2>2, <2>3, <2>4 DEF Outcomes
  <2>6. Possible' \in SUBSET Possible
    OBVIOUS
  <2> QED
    BY <1>1, <2>2, <2>5, <2>6 DEF Contract!Return, Basis, Put, Outcome
<1> QED
  BY <1>2, <1>3

(* Calls that only read leave the view, and what was installed. *)
LEMMA ReadOnlyView == ASSUME ReplaceInv, ReadOnly PROVE SameView /\ Put' = Put
BY ViewStays DEF ReadOnly, pathVars, inodeVars, Put

(* An operation that goes on and does nothing the contract names. *)
LEMMA GoesOnUnseen ==
  ASSUME ReplaceInv, NEW p \in Procs, NEW from \in Steps, NEW to \in Steps, Goto(p, from, to),
         SameView, UNCHANGED <<edits, task, result>>, Put' = Put, Basis' = Basis
  PROVE  UNCHANGED Contract!vars
<1>1. Outcome' = Outcome
  BY GoesOn DEF Goto
<1> QED
  BY <1>1, Unseen

(* An error before anything is installed, and any error that is not called stale. *)
LEMMA EarlyReturnRefines ==
  ASSUME ReplaceInv, NEW p \in Procs, NEW from \in Steps, NEW outcome \in {"stale", "failed"},
         Return(p, from, outcome), ReadOnly, snap' = snap, outcome = "stale" => installed[p] = 0
  PROVE  Contract!Return(p) \/ UNCHANGED Contract!vars
<1>1. Current' = Current /\ Possible' = Possible /\ Current \in Possible
  BY ReadOnlyView, CurrentWhole DEF SameView
<1>2. UNCHANGED <<edits, task, snap, installed>>
  BY DEF ReadOnly
<1> QED
  BY <1>1, <1>2, ReturnRefines DEF Outcomes

(* Reading: the content is taken in one step. *)
LEMMA ReadingRefines ==
  ASSUME ReplaceInv, NEW p \in Procs, Reading(p)
  PROVE  Contract!Take(p) \/ Contract!Return(p) \/ UNCHANGED Contract!vars
<1>1. ProcInv(p) /\ TypeOK /\ p \in DOMAIN snap
  BY DEF ReplaceInv, TypeOK, ProcTypes
<1>2. CASE ReadLstat(p)
  <2>1. CASE Return(p, "readLstat", "failed") /\ UNCHANGED snap
    BY <1>2, <2>1, EarlyReturnRefines DEF ReadLstat, Steps
  <2>2. CASE /\ Goto(p, "readLstat", "readOpen") /\ UNCHANGED result
             /\ snap' = [snap EXCEPT ![p].inode = entry.inode]
    <3>1. Basis' = Basis
      BY <1>1, <2>2 DEF Basis, TypeOK, ProcTypes, Snapshot
    <3> QED
      BY <1>2, <2>2, <3>1, ReadOnlyView, GoesOnUnseen DEF ReadLstat, ReadOnly, Steps
  <2> QED
    BY <1>2, <2>1, <2>2 DEF ReadLstat
<1>3. CASE ReadOpen(p)
  <2>1. CASE /\ Return(p, "readOpen", IF entry.kind = "absent" THEN "failed" ELSE "stale")
             /\ UNCHANGED snap
    <3>1. installed[p] = 0
      BY <1>1, <2>1 DEF ProcInv, ResultTrue, Return, Steps
    <3> QED
      BY <1>3, <2>1, <3>1, EarlyReturnRefines DEF ReadOpen, Steps
  <2>2. CASE /\ Goto(p, "readOpen", "readAll") /\ UNCHANGED result
             /\ snap' = [snap EXCEPT ![p].mode = mode[entry.inode],
                                     ![p].size = Size[content[entry.inode]]]
    <3>1. Basis' = Basis
      BY <1>1, <2>2 DEF Basis, TypeOK, ProcTypes, Snapshot
    <3> QED
      BY <1>3, <2>2, <3>1, ReadOnlyView, GoesOnUnseen DEF ReadOpen, ReadOnly, Steps
  <2> QED
    BY <1>3, <2>1, <2>2 DEF ReadOpen
<1>4. CASE ReadAll(p)
  <2> DEFINE c == content[handle[p]]
  <2>1. pc[p] = "readAll" /\ snap[p].content = Nil /\ c \in Contents /\ task[p] # "create"
    BY <1>1, <1>4
    DEF ReadAll, Goto, ProcInv, SnapPublic, SnapTaken, OnTask, Public, Opening, Reads
  <2>2. Basis' = [Basis EXCEPT ![p] = c] /\ Basis[p] = Nil
    BY <1>1, <1>4, <2>1 DEF ReadAll, Basis, TypeOK, ProcTypes, Snapshot
  <2>3. Basis' \in {[Basis EXCEPT ![p] = x] : x \in Contents}
    BY <2>1, <2>2
  <2>4. Outcome[p] = "running" /\ Outcome' = Outcome
    <3>1. pc' = [pc EXCEPT ![p] = "root"] /\ result' = result
      BY <1>4 DEF ReadAll, Goto
    <3> QED
      BY <2>1, <3>1, GoesOn DEF Outcome, Steps
  <2>5. SameView /\ Put' = Put /\ UNCHANGED <<edits, task>>
    BY <1>4, ReadOnlyView DEF ReadAll, ReadOnly
  <2> QED
    BY <2>1, <2>2, <2>3, <2>4, <2>5 DEF Contract!Take, Basis, Put, Outcome, SameView
<1> QED
  BY <1>2, <1>3, <1>4 DEF Reading

(* Checking: it goes on, or returns with nothing installed. *)
LEMMA CheckingRefines ==
  ASSUME ReplaceInv, NEW p \in Procs, Checking(p)
  PROVE  Contract!Return(p) \/ UNCHANGED Contract!vars
<1>1. ProcInv(p) /\ TypeOK
  BY DEF ReplaceInv
<1>2. /\ ReadOnly /\ snap' = snap
      /\ UNCHANGED <<edits, task, installed>> /\ Basis' = Basis
  BY DEF Checking, OpenRoot, CheckLstat, CheckOpen, CheckBytes, Lookup, ReadOnly, Basis
<1>3. pc[p] \in {"root", "lstat", "open", "compare", "lookup"}
  BY DEF Checking, OpenRoot, CheckLstat, CheckOpen, CheckBytes, Lookup, Goto, Return
<1>4. installed[p] = 0
  BY <1>1, <1>3 DEF ProcInv, ResultTrue, Steps, Checks
<1>5. SameView /\ Put' = Put
  BY <1>2, ReadOnlyView
<1>6. CASE \E from, to \in Steps : Goto(p, from, to) /\ UNCHANGED result
  BY <1>2, <1>5, <1>6, GoesOnUnseen
<1>7. CASE \E from \in Steps : Return(p, from, "stale")
  BY <1>2, <1>4, <1>7, EarlyReturnRefines
<1>8. CASE pc[p] = "compare" /\ NothingToWrite(p) /\ Return(p, "compare", "done")
  <2>1. task[p] # "create" /\ snap[p].content \in Contents
    BY <1>1, <1>8 DEF ProcInv, SnapTaken, OnTask, Checks
  <2>2. task[p] # "validate" => Rewrite[snap[p].content] = snap[p].content
    BY <1>8, <2>1 DEF NothingToWrite, Output
  <2>3. Current' = Current /\ Possible' = Possible /\ Current \in Possible
    BY <1>5, CurrentWhole DEF SameView
  <2>4. snap[p].content # Nil /\ task[p] \in Tasks
    BY <1>1, <2>1, DistinctAssumption DEF TypeOK
  <2> QED
    BY <1>2, <1>8, <2>1, <2>2, <2>3, <2>4, ReturnRefines DEF Outcomes, Steps, Checks, Tasks
<1>9. \/ \E from, to \in Steps : Goto(p, from, to) /\ UNCHANGED result
      \/ \E from \in Steps : Return(p, from, "stale")
      \/ pc[p] = "compare" /\ NothingToWrite(p) /\ Return(p, "compare", "done")
  <2>1. {"root", "lstat", "open", "compare", "lookup", "create", "install"} \subseteq Steps
    BY DEF Steps, Checks
  <2> QED
    BY <2>1 DEF Checking, OpenRoot, CheckLstat, CheckOpen, CheckBytes, Lookup
<1> QED
  BY <1>6, <1>7, <1>8, <1>9

(* Preparing the temporary file is nothing the contract sees. *)
LEMMA PreparingRefines ==
  ASSUME ReplaceInv, NEW p \in Procs, Preparing(p) PROVE UNCHANGED Contract!vars
<1>1. ProcInv(p) /\ TypeOK
  BY DEF ReplaceInv
<1>2. PICK from \in Prepares \ {"install"}, to \in Steps : Goto(p, from, to)
  BY DEF Preparing, CreateTemporary, Write, Chmod, Sync, Close, AfterClose, Prepares, Steps, Checks
<1>3. installed[p] = 0 /\ from \in Steps
  BY <1>1, <1>2 DEF ProcInv, ResultTrue, Goto, Prepares, Steps, Checks
<1>4. ~Public(p)
  BY <1>3, TempPrivate
<1>5. \A i : i # p /\ Public(i) => content'[i] = content[i] /\ durable'[i] = durable[i]
  <2>1. PICK c, d : /\ content' = content \/ content' = [content EXCEPT ![p] = c]
                    /\ durable' = durable \/ durable' = [durable EXCEPT ![p] = d]
    BY DEF Preparing, CreateTemporary, Write, Chmod, Sync, Close, inodeVars
  <2> QED
    BY <1>1, <2>1 DEF TypeOK, InodeTypes, Public
<1>6. /\ UNCHANGED <<entry, entries, edits, task, result>> /\ Basis' = Basis /\ Put' = Put
  BY DEF Preparing, CreateTemporary, Write, Chmod, Sync, Close, pathVars, Unseeing, Basis, Put
<1>7. SameView
  BY <1>4, <1>5, <1>6, ViewStays
<1> QED
  BY <1>2, <1>3, <1>6, <1>7, GoesOnUnseen

(* The rename and the link are the step that installs. *)
LEMMA TakesPlaceRefines ==
  ASSUME ReplaceInv, NEW p \in Procs, NEW to \in {"syncDir", "unlink"}, TakesPlace(p, to),
         UNCHANGED <<edits, task, result>>,
         \/ task[p] = "create" /\ entry.kind = "absent"
         \/ task[p] = "replace"
  PROVE  Contract!Install(p)
<1>1. ProcInv(p) /\ TypeOK /\ PathsPublic /\ pc[p] = "install"
  BY DEF ReplaceInv, TakesPlace, Goto
<1>2. /\ content[p] = Output(p) /\ durable[p] = {Output(p)} /\ installed[p] = 0
      /\ Outcome[p] = "running" /\ ~Put[p] /\ entry.seq + 1 # 0
  <2>1. content[p] = Output(p) /\ durable[p] = {Output(p)}
    BY <1>1 DEF ProcInv, TempReady
  <2>2. installed[p] = 0 /\ ~Put[p] /\ Outcome[p] = "running"
    BY <1>1 DEF ProcInv, ResultTrue, Put, Outcome, Steps
  <2>3. entry.seq \in Nat
    BY <1>1 DEF TypeOK, PathTypes, Entry
  <2> QED
    BY <2>1, <2>2, <2>3
<1>3. /\ entry' = [kind |-> "file", inode |-> p, seq |-> entry.seq + 1]
      /\ entries' = entries \cup {entry'} /\ content' = content /\ durable' = durable
      /\ installed' = [installed EXCEPT ![p] = entry.seq + 1] /\ snap' = snap
  BY DEF TakesPlace, SetEntry
<1>4. Current' = Output(p)
  BY <1>2, <1>3 DEF Current
<1>5. Possible' = Possible \cup {Output(p)}
  <2>1. Held(entry', durable) = {Output(p)}
    BY <1>2, <1>3 DEF Held
  <2>2. Possible' = UNION {Held(e, durable) : e \in entries \cup {entry'}}
    BY <1>3 DEF Possible, Held
  <2> QED
    BY <2>1, <2>2 DEF Possible
<1>6. Put' = [Put EXCEPT ![p] = TRUE] /\ Basis' = Basis
  BY <1>1, <1>2, <1>3 DEF Put, Basis, TypeOK, ProcTypes
<1>7. Outcome' = Outcome
  BY <1>1, GoesOn DEF TakesPlace, Goto, Steps
<1>8. task[p] # "create" => snap[p].content \in Contents /\ Output(p) # snap[p].content
  BY <1>1 DEF ProcInv, SnapTaken, OnTask, Prepares
<1>9. Contract!Output(p) = Output(p)
  BY DEF Contract!Output, Output
<1>10. IF task[p] = "create"
       THEN Current = Nil
       ELSE Basis[p] # Nil /\ Contract!Output(p) # Basis[p]
  BY <1>8, <1>9, CurrentWhole, DistinctAssumption DEF Basis
<1> QED
  BY <1>2, <1>4, <1>5, <1>6, <1>7, <1>9, <1>10 DEF Contract!Install, Basis, Put, Outcome

(* Installing, then removing the second name and syncing the directory. *)
LEMMA InstallingRefines ==
  ASSUME ReplaceInv, NEW p \in Procs, Installing(p)
  PROVE  Contract!Install(p) \/ Contract!Return(p) \/ UNCHANGED Contract!vars
<1>1. ProcInv(p) /\ TypeOK /\ PathsPublic
  BY DEF ReplaceInv
<1>2. CASE Rename(p)
  <2>1. temp' \in [Procs -> {"none", "present", "stuck"}]
    BY <1>1, <1>2 DEF Rename, TypeOK, ProcTypes
  <2>2. TakesPlace(p, "syncDir") /\ task[p] = "replace" /\ UNCHANGED <<edits, task, result>>
    BY <1>2, <2>1 DEF Rename, TakesPlace, inodeVars
  <2> QED
    BY <2>2, TakesPlaceRefines
<1>3. CASE Link(p) /\ entry.kind = "absent"
  <2>1. temp' \in [Procs -> {"none", "present", "stuck"}] /\ temp' = temp
    BY <1>1, <1>3 DEF Link, TypeOK, ProcTypes
  <2>2. TakesPlace(p, "unlink") /\ task[p] = "create" /\ UNCHANGED <<edits, task, result>>
    BY <1>3, <2>1 DEF Link, TakesPlace, inodeVars
  <2> QED
    BY <1>3, <2>2, TakesPlaceRefines
<1>4. CASE Link(p) /\ entry.kind # "absent"
  <2>1. Return(p, "install", "stale") /\ UNCHANGED <<entry, entries, installed>>
    BY <1>4 DEF Link
  <2>2. installed[p] = 0
    BY <1>1, <2>1 DEF ProcInv, ResultTrue, Return, Steps
  <2>3. SameView
    BY <1>4, <2>1, ViewStays DEF Link, inodeVars
  <2>4. Current' = Current /\ Possible' = Possible /\ Current \in Possible
    BY <2>3, CurrentWhole DEF SameView
  <2> QED
    BY <1>4, <2>1, <2>2, <2>4, ReturnRefines DEF Link, Outcomes, Steps
<1>5. CASE Unlink(p)
  <2>1. /\ Goto(p, "unlink", "syncDir") /\ UNCHANGED <<entry, entries, edits, task, result>>
        /\ Basis' = Basis /\ Put' = Put /\ "unlink" \in Steps /\ "syncDir" \in Steps
    BY <1>5 DEF Unlink, pathVars, Unseeing, Basis, Put, Steps
  <2>2. SameView
    BY <1>5, <2>1, ViewStays DEF Unlink, inodeVars
  <2> QED
    BY <2>1, <2>2, GoesOnUnseen
<1>6. CASE SyncDirectory(p)
  <2>1. /\ Return(p, "syncDir", "done") /\ entries' = {entry}
        /\ UNCHANGED <<entry, content, durable, edits, task, snap, installed>>
    BY <1>6 DEF SyncDirectory, inodeVars, Unseeing
  <2>2. installed[p] # 0 /\ temp[p] = "none" /\ task[p] # "validate"
    BY <1>1, <2>1 DEF ProcInv, ResultTrue, TempTracked, OnTask, Return
  <2>3. Current' = Current
    BY <2>1 DEF Current
  <2>4. Possible' = Held(entry, durable)
    BY <2>1 DEF Possible, Held
  <2>5. Possible' \subseteq Possible /\ Current \in Possible'
    BY <1>1, <2>4 DEF Possible, Current, Held, PathsPublic, Public
  <2> QED
    BY <2>1, <2>2, <2>3, <2>5, ReturnRefines DEF Outcomes, Steps
<1> QED
  BY <1>2, <1>3, <1>4, <1>5, <1>6 DEF Installing

(* Failing, cleaning up and crashing. *)
LEMMA EndingRefines ==
  ASSUME ReplaceInv, NEW p \in Procs, Ending(p)
  PROVE  Contract!Return(p) \/ Contract!Crash(p) \/ UNCHANGED Contract!vars
<1>1. ProcInv(p) /\ TypeOK
  BY DEF ReplaceInv
<1>2. CASE CallFails(p)
  <2>1. PICK from \in Steps, outcome \in {"stale", "failed"} :
          Return(p, from, outcome) /\ (outcome = "stale" => from \in {"root", "lstat", "open"})
    BY <1>2 DEF CallFails, Failing, Steps, Checks
  <2>2. outcome = "stale" => installed[p] = 0
    BY <1>1, <2>1 DEF ProcInv, ResultTrue, Steps, Checks, Return
  <2>3. ReadOnly /\ snap' = snap
    BY <1>2 DEF CallFails
  <2> QED
    BY <2>1, <2>2, <2>3, EarlyReturnRefines
<1>3. CASE Cleanup(p) \/ Crash(p)
  <2>1. /\ UNCHANGED <<entry, entries, edits, task, installed, result>> /\ Basis' = Basis
        /\ Put' = Put /\ UNCHANGED inodeVars
    BY <1>3 DEF Cleanup, Crash, pathVars, Unseeing, Basis, Put
  <2>2. SameView /\ Current \in Possible
    BY <2>1, ViewStays, CurrentWhole DEF inodeVars
  <2>3. CASE Cleanup(p)
    <3>1. pc[p] = "cleanup" /\ pc' = [pc EXCEPT ![p] = "returned"] /\ "cleanup" \in Steps
      BY <2>3 DEF Cleanup, Goto, Steps
    <3>2. result[p] \in {"stale", "failed"} /\ (result[p] = "stale" => ~Put[p])
      BY <1>1, <3>1 DEF ProcInv, ResultTrue, Put
    <3>3. Outcome[p] = "running" /\ Outcome' = [Outcome EXCEPT ![p] = result[p]]
      BY <2>1, <3>1, Ends
    <3>4. /\ \/ ~Put[p] /\ Outcome' = [Outcome EXCEPT ![p] = "stale"]
             \/ Outcome' = [Outcome EXCEPT ![p] = "failed"]
          /\ Possible' \in SUBSET Possible /\ Current \in Possible'
      BY <2>2, <3>2, <3>3 DEF SameView
    <3> QED
      BY <2>1, <2>2, <3>3, <3>4 DEF Contract!Return, SameView, Basis, Put, Outcome
  <2>4. CASE Crash(p)
    <3>1. pc[p] \in Steps /\ pc' = [pc EXCEPT ![p] = "crashed"]
      BY <2>4 DEF Crash
    <3>2. Outcome[p] = "running" /\ Outcome' = [Outcome EXCEPT ![p] = "crashed"]
      BY <2>1, <3>1, Ends
    <3> QED
      BY <2>1, <2>2, <3>2 DEF Contract!Crash, SameView, Basis, Put, Outcome
  <2> QED
    BY <1>3, <2>3, <2>4
<1> QED
  BY <1>2, <1>3 DEF Ending

(* What an entry holds, when the content of one inode and the entry are new. *)
LEMMA ChangeRefines ==
  ASSUME ReplaceInv, Edit, Elsewhere, Current' \in Contents \cup {Nil},
         Possible' = Possible \cup {Current'}
  PROVE  Contract!Change
BY DEF Contract!Change, Edit, Elsewhere, procVars

(* Every change by another program is one the contract allows. *)
LEMMA OthersRefine == ASSUME ReplaceInv, OtherPrograms PROVE Contract!Change
<1>1. TypeOK /\ PathsPublic /\ Current \in Contents \cup {Nil} /\ Current \in Possible
  BY CurrentWhole DEF ReplaceInv
<1>2. ASSUME NEW c \in Contents, WriteInPlace(c)
      PROVE  Contract!Change
  <2> DEFINE at == entry.inode
  <2>1. /\ entry' = entry /\ entries' = entries /\ entry.kind # "absent" /\ Public(at)
        /\ content' = [content EXCEPT ![at] = c] /\ durable' = [durable EXCEPT ![at] = @ \cup {c}]
    BY <1>1, <1>2 DEF WriteInPlace, pathVars, PathsPublic
  <2>2. Current' = c
    BY <1>1, <2>1 DEF Current, TypeOK, InodeTypes, Public
  <2>3. \A e \in entries : e.kind # "absent" => e.inode \in Inodes
    BY <1>1 DEF PathsPublic, Public
  <2>4. \A e \in entries :
          Held(e, durable') = IF e.kind # "absent" /\ e.inode = at
                              THEN Held(e, durable) \cup {c} ELSE Held(e, durable)
    BY <1>1, <2>1, <2>3 DEF Held, TypeOK, InodeTypes
  <2>5. entry \in entries /\ entry.kind # "absent" /\ entry.inode = at
    BY <1>1, <2>1 DEF PathsPublic
  <2>6. Possible' = UNION {Held(e, durable') : e \in entries}
    BY <2>1 DEF Possible, Held
  <2>7. Possible' = Possible \cup {c}
    BY <2>4, <2>5, <2>6 DEF Possible
  <2> QED
    BY <1>2, <2>2, <2>7, ChangeRefines DEF WriteInPlace
<1>3. ASSUME NEW m \in Modes, ChangeMode(m)
      PROVE  Contract!Change
  <2>1. SameView
    BY <1>3, ViewStays DEF ChangeMode, pathVars
  <2> QED
    BY <1>1, <1>3, <2>1, ChangeRefines DEF ChangeMode, SameView
<1>4. CASE MoveRoot
  <2>1. SameView
    BY <1>4, ViewStays DEF MoveRoot, inodeVars
  <2> QED
    BY <1>1, <1>4, <2>1, ChangeRefines DEF MoveRoot, SameView
<1>5. ASSUME NEW c \in Contents, NEW m \in Modes, SaveFile(c, m)
      PROVE  Contract!Change
  <2>1. PICK new \in {edits + 1} : TRUE
    OBVIOUS
  <2>2. /\ content' = [content EXCEPT ![new] = c] /\ durable' = [durable EXCEPT ![new] = {c}]
        /\ new = edits + 1 /\ edits < MaxEdits
        /\ entry' = [kind |-> "file", inode |-> new, seq |-> entry.seq + 1]
        /\ entries' = entries \cup {entry'}
    BY <1>5, <2>1 DEF SaveFile, Edit, SetEntry
  <2>3. new \in Inodes /\ ~Public(new)
    BY <1>1, <2>2, EditsAssumption, DistinctAssumption DEF TypeOK, Inodes, Public, Known
  <2>4. Current' = c /\ Held(entry', durable') = {c}
    BY <1>1, <2>2, <2>3 DEF Current, Held, TypeOK, InodeTypes
  <2>5. \A e \in entries : Held(e, durable') = Held(e, durable)
    BY <1>1, <2>2, <2>3 DEF Held, PathsPublic, TypeOK, InodeTypes
  <2>6. Possible' = UNION {Held(e, durable') : e \in entries \cup {entry'}}
    BY <2>2 DEF Possible, Held
  <2>7. Possible' = Possible \cup {c}
    BY <2>4, <2>5, <2>6 DEF Possible
  <2> QED
    BY <1>5, <2>4, <2>7, ChangeRefines DEF SaveFile
<1>6. CASE RemoveFile \/ MakeLink
  <2>1. PICK kind, inode :
          /\ SetEntry(kind, inode) /\ Edit /\ Elsewhere
          /\ \/ kind = "absent" /\ inode = Nil
             \/ kind = "link" /\ inode = entry.inode /\ entry.kind = "file"
    BY <1>6 DEF RemoveFile, MakeLink
  <2>2. /\ entry' = [kind |-> kind, inode |-> inode, seq |-> entry.seq + 1]
        /\ entries' = entries \cup {entry'} /\ content' = content /\ durable' = durable
    BY <1>6, <2>1 DEF RemoveFile, MakeLink, SetEntry, inodeVars
  <2>3. Possible' = UNION {Held(e, durable) : e \in entries \cup {entry'}}
    BY <2>2 DEF Possible, Held
  <2>4. Possible' = Possible \cup Held(entry', durable)
    BY <2>3 DEF Possible
  <2>5. CASE kind = "absent" /\ inode = Nil
    <3>1. Current' = Nil /\ Held(entry', durable) = {Nil}
      BY <2>2, <2>5 DEF Current, Held
    <3> QED
      BY <2>1, <2>4, <3>1, ChangeRefines
  <2>6. CASE kind = "link" /\ inode = entry.inode /\ entry.kind = "file"
    <3>1. Current' = Current /\ Held(entry', durable) = Held(entry, durable)
      BY <2>2, <2>6 DEF Current, Held
    <3>2. Held(entry, durable) \subseteq Possible
      BY <1>1 DEF Possible, PathsPublic
    <3>3. Possible' = Possible \cup {Current'}
      BY <1>1, <2>4, <3>1, <3>2
    <3> QED
      BY <1>1, <2>1, <3>1, <3>3, ChangeRefines
  <2> QED
    BY <2>1, <2>5, <2>6
<1> QED
  BY <1>2, <1>3, <1>4, <1>5, <1>6 DEF OtherPrograms

(* A power loss leaves one of the contents the contract says it may leave. *)
LEMMA PowerLossRefines == ASSUME ReplaceInv, PowerLoss PROVE Contract!PowerLoss
<1>1. TypeOK /\ PathsPublic
  BY DEF ReplaceInv
<1>2. /\ entry' \in entries /\ entries' = {entry'} /\ UNCHANGED <<edits, task>>
      /\ pc' = [p \in Procs |-> IF pc[p] \in Steps THEN "crashed" ELSE pc[p]]
      /\ result' = result /\ Basis' = Basis /\ Put' = Put
  BY DEF PowerLoss, Unseeing, Basis, Put
<1>3. PICK c \in Held(entry', durable) :
        IF entry'.kind = "absent"
        THEN UNCHANGED <<content, durable>>
        ELSE /\ content' = [content EXCEPT ![entry'.inode] = c]
             /\ durable' = [durable EXCEPT ![entry'.inode] = {c}]
  BY DEF PowerLoss
<1>4. c \in Possible
  BY <1>2, <1>3 DEF Possible
<1>5. entry'.kind # "absent" => entry'.inode \in Inodes
  BY <1>1, <1>2 DEF PathsPublic, Public
<1>6. Current' = c /\ Held(entry', durable') = {c}
  BY <1>1, <1>3, <1>5 DEF Current, Held, TypeOK, InodeTypes
<1>7. Possible' = UNION {Held(e, durable') : e \in {entry'}}
  BY <1>2 DEF Possible, Held
<1>8. Possible' = {Current'}
  BY <1>6, <1>7
<1>9. Outcome' = [p \in Procs |-> IF Outcome[p] = "running" THEN "crashed" ELSE Outcome[p]]
  <2>1. ASSUME NEW p \in Procs
        PROVE  Outcome'[p] = IF Outcome[p] = "running" THEN "crashed" ELSE Outcome[p]
    BY <1>1, <1>2 DEF Outcome, TypeOK, ProcTypes, Steps, Checks
  <2> QED
    BY <2>1 DEF Outcome
<1> QED
  BY <1>2, <1>4, <1>6, <1>8, <1>9 DEF Contract!PowerLoss, Basis, Put, Outcome

(* The calls begin as the contract does. *)
LEMMA InitRefines == ASSUME Init PROVE Contract!Init
<1>1. ReplaceInv
  BY InitInv
<1>2. Current \in Contents \cup {Nil}
  BY <1>1, CurrentWhole
<1>3. Possible = {Current}
  <2>1. entries = {entry} /\ durable = [i \in Inodes |-> {content[i]}]
    BY DEF Init
  <2>2. entry.kind # "absent" => entry.inode \in Inodes
    BY <1>1 DEF ReplaceInv, PathsPublic, Public
  <2> QED
    BY <2>1, <2>2 DEF Possible, Held, Current
<1>4. /\ Basis = [p \in Procs |-> Nil] /\ Put = [p \in Procs |-> FALSE]
      /\ Outcome = [p \in Procs |-> "running"]
  BY DEF Init, Basis, Put, Outcome, NoSnapshot
<1>5. edits = 0 /\ task \in [Procs -> Contract!Tasks]
  BY DEF Init, Tasks, Contract!Tasks
<1> QED
  BY <1>2, <1>3, <1>4, <1>5 DEF Contract!Init, Basis, Put, Outcome

(* Every step of the calls, the editors and the failures is one of the contract's or none. *)
LEMMA NextRefines ==
  ASSUME ReplaceInv, [Next]_vars PROVE [Contract!Next]_Contract!vars
<1>1. ASSUME NEW p \in Procs, Operation(p)
      PROVE  \/ Contract!Take(p) \/ Contract!Install(p)
             \/ Contract!Return(p) \/ Contract!Crash(p)
             \/ UNCHANGED Contract!vars
  BY <1>1, ReadingRefines, CheckingRefines, PreparingRefines, InstallingRefines, EndingRefines
  DEF Operation
<1>2. CASE UNCHANGED vars
  <2>1. /\ UNCHANGED <<entry, entries, content, durable, edits, task>>
        /\ Basis' = Basis /\ Put' = Put /\ Outcome' = Outcome
    BY <1>2 DEF vars, pathVars, inodeVars, procVars, Basis, Put, Outcome
  <2> QED
    BY <2>1, ViewStays, Unseen
<1> QED
  BY <1>1, <1>2, OthersRefine, PowerLossRefines DEF Next, Contract!Next

(* The code implements the contract, for any number of operations, contents and edits. *)
THEOREM Implements == Spec => ImplementsContract
<1>1. Init => Contract!Init
  BY InitRefines
<1>2. ReplaceInv /\ [Next]_vars => [Contract!Next]_Contract!vars
  BY NextRefines
<1> QED
  BY <1>1, <1>2, Invariance, PTL DEF Spec, ImplementsContract, Contract!Spec
=============================================================================
