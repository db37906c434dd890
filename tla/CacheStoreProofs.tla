-------------------------- MODULE CacheStoreProofs --------------------------
(***************************************************************************)
(* Proofs about CacheStore, for any number of goroutines, processes, keys   *)
(* and values: no valid value is overwritten, what an operation returns was *)
(* so, and goroutines of one process never remove what the other has        *)
(* published. CacheInv is inductive. What an operation will link is its own *)
(* value, whole; the lock keeps a second Put of the process out; so what a  *)
(* Put that repairs may remove by mistake comes from another process. And a *)
(* prune evicts the oldest until the limits hold: ScanInv says that what is *)
(* behind its scan is valid and among its candidates.                       *)
(***************************************************************************)
EXTENDS CacheStore, FiniteSetTheorems, WellFoundedInduction, TLAPS

(* The lock of a Store. *)
Exclusive ==
  \A p, q \in Procs :
    p # q /\ StoreOf[p] = StoreOf[q] /\ Running(p) /\ Running(q) => ~Excludes(p, q)

(* Each operation takes its own steps. *)
Doing(p) ==
  /\ pc[p] = "load" => task[p].op \in {"get", "put"}
  /\ pc[p] \in {"repair", "write", "link", "reload", "cleanup"} => task[p].op = "put"
  /\ pc[p] \in {"list", "visit", "verify", "discard", "evict"} => task[p].op = "prune"

(* A temporary is of a Put that has written its whole value to it. *)
TempOwn(p) ==
  temp[p] # NoTemporary =>
    /\ task[p].op = "put" /\ temp[p].value = task[p].value
    /\ pc[p] \in {"link", "reload", "cleanup", "returned", "killed"}

(* A valid entry in the place of the corrupt one to repair is another process's. *)
RepairOthers(p) ==
  pc[p] = "repair" /\ Valid(task[p].key) =>
    LET by == entry[task[p].key].by IN by \in Procs /\ StoreOf[by] # StoreOf[p]

CacheInv ==
  /\ TypeOK /\ Exclusive
  /\ \A p \in Procs : Doing(p) /\ TempOwn(p) /\ RepairOthers(p)

StoreTypes ==
  /\ entry \in [Keys -> Entry]
  /\ clock \in 1..MaxTime /\ damage \in 0..MaxDamage
  /\ Cardinality({k \in Keys : entry[k].value = Corrupt /\ entry[k].by # Absent}) <= damage
  /\ temp \in [Procs -> Temporary]
ControlTypes ==
  /\ closed \in [Stores -> BOOLEAN]
  /\ task \in [Procs -> Task]
  /\ pc \in [Procs -> Steps \cup {"idle", "returned", "killed"}]
  /\ result \in [Procs -> Outcomes]

-----------------------------------------------------------------------------
(* What steps share.                                                        *)

(* What was spoiled is finitely many of the keys. *)
LEMMA SpoiledFinite ==
  ASSUME NEW S, S \subseteq Keys
  PROVE  IsFiniteSet(S) /\ Cardinality(S) \in Nat
BY KeysAssumption, FS_Subset, FS_CardinalityType

(* Some numbers have a least one. *)
LEMMA LeastNumber ==
  ASSUME NEW S, S \subseteq Nat, S # {}
  PROVE  \E n \in S : \A m \in S : n <= m
<1> DEFINE R == OpToRel(<, Nat)
<1>1. IsWellFoundedOn(R, Nat)
  BY NatLessThanWellFounded
<1>2. \A x, y \in Nat : y < x => <<y, x>> \in R
  BY DEF OpToRel
<1> HIDE DEF R
<1>3. PICK n \in S : \A m \in S : <<m, n>> \notin R
  BY <1>1, WFMin, Zenon
<1>4. \A m \in S : ~(m < n)
  BY <1>2, <1>3, Zenon
<1> QED
  BY <1>4

(* There is a least key. *)
LEMMA LeastIn ==
  ASSUME NEW S, S \subseteq Keys, S # {}
  PROVE  LeastKey(S) \in S
BY KeysAssumption, LeastNumber DEF LeastKey

(* The history variables keep their types. *)
LEMMA TypesKept ==
  ASSUME TypeOK, StoreTypes', ControlTypes', scan' \in [Procs -> Scan], Observe, task' = task
  PROVE  TypeOK'
<1>1. seen' \in [Procs -> SUBSET (Values \cup {Corrupt, Absent})]
  <2>1. ASSUME NEW p \in Procs, task[p].op \in {"get", "put"}
        PROVE  entry'[task[p].key].value \in Values \cup {Corrupt, Absent}
    BY <2>1 DEF TypeOK, StoreTypes, Task, Entry
  <2> QED
    BY <2>1 DEF TypeOK, Observe
<1>2. raced' \in SUBSET Procs
  BY DEF Observe
<1> QED
  BY <1>1, <1>2 DEF TypeOK, StoreTypes, ControlTypes

(* A step of p as the other goroutines see it. *)
Moves(p) ==
  /\ task' = task
  /\ \A q \in Procs \ {p} : pc'[q] = pc[q] /\ temp'[q] \in {temp[q], NoTemporary}
  /\ \A k \in Keys :
       \/ entry'[k] = entry[k]
       \/ entry'[k].value \notin Values
       \/ entry'[k].by = p /\ Running(p) /\ task[p].op = "put"
  /\ Running(p) \/ pc'[p] \notin Steps \/ ~Locked(p)

(* A step keeps the invariant when it keeps the types and what holds of its goroutine. *)
LEMMA MovesInv ==
  ASSUME CacheInv, NEW p \in Procs, Moves(p), TypeOK', Doing(p)', TempOwn(p)', RepairOthers(p)'
  PROVE  CacheInv'
<1>1. Exclusive'
  <2>1. ASSUME NEW q \in Procs, NEW r \in Procs, q # r, StoreOf[q] = StoreOf[r],
               Running(q)', Running(r)', q # p
        PROVE  ~Excludes(q, r)'
    <3>1. Running(q) /\ task' = task
      BY <2>1 DEF Moves, Running
    <3>2. CASE Running(r)
      BY <2>1, <3>1, <3>2 DEF CacheInv, Exclusive, Excludes
    <3>3. CASE ~Running(r)
      <4>1. r = p /\ ~Locked(p)
        BY <2>1, <3>3 DEF Moves, Running
      <4> QED
        BY <2>1, <3>1, <4>1 DEF Locked, Excludes
    <3> QED
      BY <3>2, <3>3
  <2>2. \A q, r \in Procs : Excludes(q, r)' <=> Excludes(r, q)'
    BY DEF Excludes
  <2> QED
    BY <2>1, <2>2 DEF Exclusive
<1>2. ASSUME NEW q \in Procs \ {p}
      PROVE  Doing(q)' /\ TempOwn(q)' /\ RepairOthers(q)'
  <2>1. Doing(q) /\ TempOwn(q) /\ RepairOthers(q) /\ pc'[q] = pc[q] /\ task' = task
    BY DEF CacheInv, Moves
  <2>2. Doing(q)'
    BY <2>1 DEF Doing
  <2>3. TempOwn(q)'
    BY <2>1 DEF Moves, TempOwn
  <2>4. ASSUME pc[q] = "repair", Valid(task[q].key)'
        PROVE  LET by == entry'[task[q].key].by IN by \in Procs /\ StoreOf[by] # StoreOf[q]
    <3> DEFINE k == task[q].key
    <3>1. task[q].op = "put" /\ k \in Keys /\ Running(q)
      BY <2>1, <2>4 DEF Doing, CacheInv, TypeOK, Task, Running, Steps
    <3>2. CASE entry'[k] = entry[k]
      BY <2>1, <2>4, <3>2 DEF RepairOthers, Valid
    <3>3. CASE entry'[k].by = p /\ Running(p) /\ task[p].op = "put"
      BY <3>1, <3>3 DEF CacheInv, Exclusive, Excludes
    <3> QED
      BY <2>1, <2>4, <3>1, <3>2, <3>3 DEF Moves, Valid
  <2>5. RepairOthers(q)'
    BY <2>1, <2>4 DEF RepairOthers
  <2> QED
    BY <2>2, <2>3, <2>5
<1> QED
  BY <1>1, <1>2 DEF CacheInv

-----------------------------------------------------------------------------
(* Steps that leave the directory alone.                                    *)

(* The files are not touched. *)
LEMMA StoreStays ==
  ASSUME TypeOK, UNCHANGED store
  PROVE  /\ StoreTypes' /\ entry' = entry /\ temp' = temp
         /\ \A k \in Keys : Valid(k)' <=> Valid(k)
BY DEF TypeOK, StoreTypes, store, Valid

(* A step of p that goes on, with other locals for a prune. *)
LEMMA GoesOn ==
  ASSUME CacheInv, NEW p \in Procs, NEW from, NEW to \in Steps, Goto(p, from, to),
         UNCHANGED <<store, closed, task>>, scan' \in [Procs -> Scan], Observe,
         Running(p) \/ ~Locked(p), Doing(p)', TempOwn(p)', RepairOthers(p)'
  PROVE  CacheInv'
<1>1. TypeOK /\ entry' = entry /\ temp' = temp /\ StoreTypes'
  BY StoreStays DEF CacheInv
<1>2. pc' = [pc EXCEPT ![p] = to] /\ result' = result /\ task' = task
  BY DEF Goto
<1>3. ControlTypes'
  BY <1>1, <1>2 DEF TypeOK, ControlTypes
<1>4. TypeOK'
  BY <1>1, <1>2, <1>3, TypesKept
<1>5. Moves(p)
  BY <1>1, <1>2 DEF Moves, TypeOK
<1> QED
  BY <1>4, <1>5, MovesInv

(* A return, with the name of a key changed or not. *)
LEMMA Returns ==
  ASSUME CacheInv, NEW p \in Procs, NEW from, NEW outcome \in Outcomes, Return(p, from, outcome),
         UNCHANGED <<closed, task>>, scan' \in [Procs -> Scan], Observe,
         StoreTypes', temp' = temp,
         Running(p) \/ ~Locked(p),
         \A k \in Keys :
           entry'[k] = entry[k] \/ (entry'[k].by = p /\ Running(p) /\ task[p].op = "put")
  PROVE  CacheInv'
<1>1. TypeOK /\ TempOwn(p) /\ Doing(p)
  BY DEF CacheInv
<1>2. pc'[p] = IF temp[p] # NoTemporary THEN "cleanup" ELSE "returned"
  BY <1>1 DEF Return, TypeOK
<1>3. /\ \A q \in Procs \ {p} : pc'[q] = pc[q]
      /\ pc' \in [Procs -> Steps \cup {"idle", "returned", "killed"}]
      /\ result' \in [Procs -> Outcomes]
  BY <1>1 DEF Return, TypeOK, Steps
<1>4. TypeOK'
  BY <1>1, <1>3, TypesKept DEF ControlTypes, TypeOK
<1>5. Moves(p)
  <2>1. Running(p) \/ pc'[p] \notin Steps \/ ~Locked(p)
    OBVIOUS
  <2> QED
    BY <1>3, <2>1 DEF Moves
<1>6. Doing(p)' /\ TempOwn(p)' /\ RepairOthers(p)'
  BY <1>1, <1>2 DEF Doing, TempOwn, RepairOthers
<1> QED
  BY <1>4, <1>5, <1>6, MovesInv

(* An early return: nothing in the directory changes. *)
LEMMA ReturnsEarly ==
  ASSUME CacheInv, NEW p \in Procs, NEW from, NEW outcome \in Outcomes, Return(p, from, outcome),
         UNCHANGED <<store, closed, task>>, scan' \in [Procs -> Scan], Observe,
         Running(p) \/ ~Locked(p)
  PROVE  CacheInv'
BY StoreStays, Returns DEF CacheInv

(* The locals of a prune that begins or ends. *)
LEMMA ScanTypes ==
  ASSUME TypeOK, NEW p \in Procs, NEW s \in Scan, scan' = [scan EXCEPT ![p] = s]
  PROVE  scan' \in [Procs -> Scan]
BY DEF TypeOK

(* Nothing to do, no shard to list. *)
LEMMA NoScanType == NoScan \in Scan
BY LimitsAssumption DEF NoScan, Scan

(* Locking the store. *)
LEMMA BeginStep == ASSUME CacheInv, NEW p \in Procs, Begin(p) PROVE CacheInv'
<1>1. TypeOK /\ TempOwn(p) /\ ~Locked(p) /\ Observe /\ UNCHANGED <<store, closed, task>>
  BY DEF CacheInv, Begin
<1>2. pc[p] = "idle" /\ temp[p] = NoTemporary
  BY <1>1 DEF Begin, TempOwn
<1>3. CASE Return(p, "idle", "failed") /\ UNCHANGED scan
  BY <1>1, <1>3, ReturnsEarly DEF Outcomes, TypeOK
<1>4. CASE task[p].op # "prune" /\ Goto(p, "idle", "load") /\ UNCHANGED scan
  <2>1. pc'[p] = "load" /\ task[p].op \in {"get", "put"}
    BY <1>1, <1>4 DEF Begin, Goto, TypeOK, Task
  <2>2. Doing(p)' /\ TempOwn(p)' /\ RepairOthers(p)'
    BY <1>1, <1>2, <2>1, StoreStays DEF Doing, TempOwn, RepairOthers
  <2> QED
    BY <1>1, <1>4, <2>2, GoesOn DEF Steps, TypeOK
<1>5. CASE /\ task[p].op = "prune" /\ Goto(p, "idle", "list")
           /\ \E c \in {0, clock} :
                scan' = [scan EXCEPT ![p] = [NoScan EXCEPT !.cutoff = c, !.shards = Keys]]
  <2>1. PICK c \in {0, clock} :
          scan' = [scan EXCEPT ![p] = [NoScan EXCEPT !.cutoff = c, !.shards = Keys]]
    BY <1>5
  <2>2. [NoScan EXCEPT !.cutoff = c, !.shards = Keys] \in Scan
    <3>1. c \in 0..MaxTime
      BY <1>1, LimitsAssumption DEF TypeOK
    <3>2. ASSUME NEW s \in Scan
          PROVE  [s EXCEPT !.cutoff = c, !.shards = Keys] \in Scan
      BY <3>1 DEF Scan
    <3> QED
      BY <3>2, NoScanType
  <2>3. scan' \in [Procs -> Scan]
    BY <1>1, <2>1, <2>2, ScanTypes
  <2>4. pc'[p] = "list"
    BY <1>1, <1>5 DEF Goto, TypeOK
  <2>5. Doing(p)' /\ TempOwn(p)' /\ RepairOthers(p)'
    BY <1>1, <1>2, <1>5, <2>4, StoreStays DEF Doing, TempOwn, RepairOthers
  <2> QED
    BY <1>1, <1>5, <2>3, <2>5, GoesOn DEF Steps
<1> QED
  BY <1>3, <1>4, <1>5 DEF Begin

(* Closing the store. *)
LEMMA CloseStep == ASSUME CacheInv, NEW p \in Procs, Close(p) PROVE CacheInv'
<1>1. TypeOK /\ TempOwn(p) /\ ~Locked(p) /\ UNCHANGED <<store, task, scan>>
  BY DEF CacheInv, Close
<1>2. pc[p] = "idle" /\ temp[p] = NoTemporary
  BY <1>1 DEF Close, TempOwn
<1>3. /\ pc' = [pc EXCEPT ![p] = "returned"] /\ result' = [result EXCEPT ![p] = "closed"]
      /\ closed' = [closed EXCEPT ![StoreOf[p]] = TRUE] /\ Observe
  BY <1>2 DEF Close, Return
<1>4. ControlTypes'
  BY <1>1, <1>3 DEF ControlTypes, TypeOK, Outcomes
<1>5. TypeOK'
  BY <1>1, <1>3, <1>4, StoreStays, TypesKept DEF TypeOK
<1>6. Moves(p)
  BY <1>1, <1>3, StoreStays DEF Moves, TypeOK
<1>7. Doing(p)' /\ TempOwn(p)' /\ RepairOthers(p)'
  <2>1. pc'[p] = "returned"
    BY <1>1, <1>3 DEF TypeOK
  <2> QED
    BY <1>1, <1>2, <2>1, StoreStays DEF Doing, TempOwn, RepairOthers
<1> QED
  BY <1>5, <1>6, <1>7, MovesInv

(* Loading, and what is found. *)
LEMMA LoadStep == ASSUME CacheInv, NEW p \in Procs, Load(p) PROVE CacheInv'
<1> DEFINE value == entry[task[p].key].value
<1>1. /\ TypeOK /\ TempOwn(p) /\ Doing(p) /\ pc[p] = "load" /\ Running(p) /\ temp[p] = NoTemporary
      /\ UNCHANGED <<store, closed, task, scan>> /\ Observe /\ scan' \in [Procs -> Scan]
  BY DEF CacheInv, Load, TypeOK, TempOwn, Running, Steps
<1>2. CASE Return(p, "load", LoadOutcome(p, value))
  <2>1. LoadOutcome(p, value) \in Outcomes
    BY DEF LoadOutcome, Outcomes
  <2> QED
    BY <1>1, <1>2, <2>1, ReturnsEarly
<1>3. CASE /\ task[p].op = "put" /\ value \notin Values
           /\ Goto(p, "load", IF value = Corrupt THEN "repair" ELSE "write")
  <2>1. pc'[p] \in {"repair", "write"}
    BY <1>1, <1>3 DEF Goto, TypeOK
  <2>2. Doing(p)' /\ TempOwn(p)' /\ RepairOthers(p)'
    BY <1>1, <1>3, <2>1, StoreStays DEF Doing, TempOwn, RepairOthers, Valid
  <2> QED
    BY <1>1, <1>3, <2>2, GoesOn DEF Steps
<1> QED
  BY <1>2, <1>3 DEF Load

-----------------------------------------------------------------------------
(* Steps of Put.                                                            *)

(* Removing a name: no more keys are spoiled than before. *)
LEMMA UnlinkTypes ==
  ASSUME TypeOK, NEW k, Unlink(k)
  PROVE  /\ StoreTypes' /\ temp' = temp
         /\ \A j \in Keys : entry'[j] = entry[j] \/ entry'[j].value = Absent
<1>1. /\ entry' = [entry EXCEPT ![k] = [value |-> Absent, by |-> Absent, at |-> 0]]
      /\ UNCHANGED <<clock, damage, temp>>
  BY DEF Unlink, SetEntry
<1>2. entry' \in [Keys -> Entry]
  BY <1>1 DEF TypeOK, Entry, Publishers
<1>3. \A j \in Keys : entry'[j] = entry[j] \/ entry'[j].value = Absent
  BY <1>1 DEF TypeOK
<1> DEFINE before == {j \in Keys : entry[j].value = Corrupt /\ entry[j].by # Absent}
<1> DEFINE after == {j \in Keys : entry'[j].value = Corrupt /\ entry'[j].by # Absent}
<1>4. after \subseteq before /\ before \subseteq Keys /\ after \subseteq Keys
  BY <1>3, DistinctAssumption
<1>5. Cardinality(after) <= Cardinality(before)
  BY <1>4, SpoiledFinite, FS_Subset
<1>6. Cardinality(before) \in Nat /\ Cardinality(after) \in Nat
  BY <1>4, SpoiledFinite
<1>7. Cardinality(after) <= damage
  BY <1>5, <1>6 DEF TypeOK
<1> QED
  BY <1>1, <1>2, <1>3, <1>7 DEF TypeOK, StoreTypes

(* Repairing: the key names nothing now. *)
LEMMA RepairStep == ASSUME CacheInv, NEW p \in Procs, Repair(p) PROVE CacheInv'
<1>1. /\ TypeOK /\ TempOwn(p) /\ Doing(p) /\ pc[p] = "repair" /\ temp[p] = NoTemporary
      /\ UNCHANGED <<closed, task, scan>> /\ Observe
  BY DEF CacheInv, Repair, Goto, TempOwn
<1>2. /\ StoreTypes' /\ temp' = temp
      /\ \A j \in Keys : entry'[j] = entry[j] \/ entry'[j].value = Absent
  BY <1>1, UnlinkTypes DEF Repair
<1>3. pc' = [pc EXCEPT ![p] = "write"] /\ result' = result /\ pc'[p] = "write"
  BY <1>1 DEF Repair, Goto, TypeOK
<1>4. ControlTypes'
  BY <1>1, <1>3 DEF ControlTypes, TypeOK, Steps
<1>5. TypeOK'
  BY <1>1, <1>2, <1>4, TypesKept DEF TypeOK
<1>6. Moves(p)
  BY <1>1, <1>2, <1>3, DistinctAssumption DEF Moves, TypeOK, Running, Steps
<1>7. Doing(p)' /\ TempOwn(p)' /\ RepairOthers(p)'
  BY <1>1, <1>2, <1>3 DEF Doing, TempOwn, RepairOthers
<1> QED
  BY <1>5, <1>6, <1>7, MovesInv

(* Writing the temporary: the whole value. *)
LEMMA WriteStep == ASSUME CacheInv, NEW p \in Procs, WriteTemporary(p) PROVE CacheInv'
<1>1. /\ TypeOK /\ Doing(p) /\ pc[p] = "write" /\ task[p].op = "put" /\ task[p].value \in Values
      /\ UNCHANGED <<entry, damage, closed, task, scan>> /\ Observe
  BY DEF CacheInv, WriteTemporary, Goto, Doing, TypeOK, Task
<1>2. PICK at \in {clock, clock + 1} \cap 1..MaxTime :
        clock' = at /\ temp' = [temp EXCEPT ![p] = [value |-> task[p].value, at |-> at]]
  BY DEF WriteTemporary
<1>3. StoreTypes'
  <2>1. [value |-> task[p].value, at |-> at] \in Temporary
    BY <1>1, <1>2 DEF Temporary
  <2> QED
    BY <1>1, <1>2, <2>1 DEF StoreTypes, TypeOK
<1>4. pc' = [pc EXCEPT ![p] = "link"] /\ result' = result /\ pc'[p] = "link"
  BY <1>1 DEF WriteTemporary, Goto, TypeOK
<1>5. ControlTypes'
  BY <1>1, <1>4 DEF ControlTypes, TypeOK, Steps
<1>6. TypeOK'
  BY <1>1, <1>3, <1>5, TypesKept DEF TypeOK
<1>7. Moves(p)
  BY <1>1, <1>2, <1>4 DEF Moves, TypeOK, Running, Steps
<1>8. Doing(p)' /\ TempOwn(p)' /\ RepairOthers(p)'
  BY <1>1, <1>2, <1>4 DEF Doing, TempOwn, RepairOthers, TypeOK
<1> QED
  BY <1>6, <1>7, <1>8, MovesInv

(* Linking: the key names the whole value of this Put. *)
LEMMA LinkStep == ASSUME CacheInv, NEW p \in Procs, Link(p) PROVE CacheInv'
<1> DEFINE k == task[p].key
<1>1. /\ TypeOK /\ TempOwn(p) /\ Doing(p) /\ pc[p] = "link" /\ Running(p)
      /\ task[p].op = "put" /\ k \in Keys /\ task[p].value \in Values
      /\ UNCHANGED <<clock, damage, temp, closed, task, scan>> /\ Observe
      /\ scan' \in [Procs -> Scan]
  BY DEF CacheInv, Link, Goto, Return, Doing, TypeOK, Task, Running, Steps
<1>2. CASE /\ Linkable(p) /\ SetEntry(k, temp[p].value, p, temp[p].at)
           /\ Return(p, "link", "stored")
  <2>1. temp[p].value = task[p].value /\ temp[p].at \in Nat
    BY <1>1, <1>2 DEF TempOwn, Linkable, TypeOK, Temporary, NoTemporary
  <2>2. entry' = [entry EXCEPT ![k] = [value |-> task[p].value, by |-> p, at |-> temp[p].at]]
    BY <1>2, <2>1 DEF SetEntry
  <2>3. entry' \in [Keys -> Entry]
    BY <1>1, <2>1, <2>2 DEF TypeOK, Entry, Publishers
  <2>4. {j \in Keys : entry'[j].value = Corrupt /\ entry'[j].by # Absent}
          \subseteq {j \in Keys : entry[j].value = Corrupt /\ entry[j].by # Absent}
    BY <1>1, <2>2, DistinctAssumption DEF TypeOK
  <2>5. Cardinality({j \in Keys : entry'[j].value = Corrupt /\ entry'[j].by # Absent})
          <= Cardinality({j \in Keys : entry[j].value = Corrupt /\ entry[j].by # Absent})
    BY <2>4, SpoiledFinite, FS_Subset
  <2>6. /\ Cardinality({j \in Keys : entry'[j].value = Corrupt /\ entry'[j].by # Absent}) \in Nat
        /\ Cardinality({j \in Keys : entry[j].value = Corrupt /\ entry[j].by # Absent}) \in Nat
    BY SpoiledFinite
  <2>7. StoreTypes'
    BY <1>1, <2>3, <2>5, <2>6 DEF StoreTypes, TypeOK
  <2>8. \A j \in Keys :
          entry'[j] = entry[j] \/ (entry'[j].by = p /\ Running(p) /\ task[p].op = "put")
    BY <1>1, <2>2 DEF TypeOK
  <2> QED
    BY <1>1, <1>2, <2>7, <2>8, Returns DEF Outcomes
<1>3. CASE Goto(p, "link", "reload") /\ UNCHANGED entry
  <2>1. pc'[p] = "reload" /\ UNCHANGED store
    BY <1>1, <1>3 DEF Goto, TypeOK, store
  <2>2. Doing(p)' /\ TempOwn(p)' /\ RepairOthers(p)'
    BY <1>1, <2>1 DEF Doing, TempOwn, RepairOthers
  <2> QED
    BY <1>1, <1>3, <2>1, <2>2, GoesOn DEF Steps
<1> QED
  BY <1>2, <1>3 DEF Link

(* Looking at what made the link fail. *)
LEMMA ReloadStep == ASSUME CacheInv, NEW p \in Procs, Reload(p) PROVE CacheInv'
<1> DEFINE outcome == Rival(p, entry[task[p].key].value)
<1>1. /\ Return(p, "reload", outcome) /\ UNCHANGED <<store, closed, task, scan>> /\ Observe
      /\ scan' \in [Procs -> Scan] /\ Running(p)
  BY DEF CacheInv, Reload, TypeOK, Running, Steps
<1>2. outcome \in Outcomes
  BY DEF Rival, Outcomes
<1> HIDE DEF outcome
<1> QED
  BY <1>1, <1>2, ReturnsEarly

(* Removing the temporary, or failing to. *)
LEMMA CleanupStep == ASSUME CacheInv, NEW p \in Procs, Cleanup(p) PROVE CacheInv'
<1>1. /\ TypeOK /\ TempOwn(p) /\ pc[p] = "cleanup" /\ pc' = [pc EXCEPT ![p] = "returned"]
      /\ temp' = temp \/ temp' = [temp EXCEPT ![p] = NoTemporary]
      /\ result' = result \/ result' = [result EXCEPT ![p] = "failed"]
      /\ UNCHANGED <<entry, clock, damage, closed, task, scan>> /\ Observe
  BY DEF CacheInv, Cleanup
<1>2. pc'[p] = "returned"
  BY <1>1 DEF TypeOK
<1>3. StoreTypes'
  <2>1. temp' \in [Procs -> Temporary]
    BY <1>1 DEF TypeOK, Temporary
  <2> QED
    BY <1>1, <2>1 DEF TypeOK, StoreTypes
<1>4. ControlTypes'
  BY <1>1 DEF TypeOK, ControlTypes, Outcomes
<1>5. TypeOK'
  BY <1>1, <1>3, <1>4, TypesKept DEF TypeOK
<1>6. Moves(p)
  BY <1>1 DEF Moves, TypeOK, Steps
<1>7. Doing(p)' /\ TempOwn(p)' /\ RepairOthers(p)'
  <2>1. temp'[p] \in {temp[p], NoTemporary}
    BY <1>1 DEF TypeOK
  <2> QED
    BY <1>1, <1>2, <2>1 DEF Doing, TempOwn, RepairOthers
<1> QED
  BY <1>5, <1>6, <1>7, MovesInv

-----------------------------------------------------------------------------
(* Steps of Prune, failures, and the disk.                                  *)

PruneSteps == {"list", "visit", "verify", "discard", "evict"}

(* A step of a prune removes names and temporaries, and nothing else. *)
LEMMA Prunes ==
  ASSUME CacheInv, NEW p \in Procs, NEW to \in PruneSteps, pc[p] \in PruneSteps,
         pc' = [pc EXCEPT ![p] = to], result' = result, UNCHANGED <<closed, task>>,
         scan' \in [Procs -> Scan], Observe, StoreTypes',
         \A k \in Keys : entry'[k] = entry[k] \/ entry'[k].value = Absent,
         \A q \in Procs : temp'[q] \in {temp[q], NoTemporary}
  PROVE  CacheInv'
<1>1. TypeOK /\ TempOwn(p) /\ Doing(p) /\ task[p].op = "prune" /\ pc'[p] = to
  BY DEF CacheInv, TypeOK, Doing, PruneSteps
<1>2. ControlTypes'
  BY <1>1 DEF ControlTypes, TypeOK, PruneSteps, Steps
<1>3. TypeOK'
  BY <1>1, <1>2, TypesKept
<1>4. Moves(p)
  BY <1>1, DistinctAssumption DEF Moves, TypeOK, Running, PruneSteps, Steps
<1>5. Doing(p)' /\ TempOwn(p)' /\ RepairOthers(p)'
  BY <1>1 DEF Doing, TempOwn, RepairOthers, PruneSteps
<1> QED
  BY <1>3, <1>4, <1>5, MovesInv

(* A step of a prune that only looks. *)
LEMMA Looks ==
  ASSUME CacheInv, NEW p \in Procs, NEW from \in PruneSteps, NEW to \in PruneSteps,
         Goto(p, from, to), scan' \in [Procs -> Scan], UNCHANGED <<store, closed, task>>, Observe
  PROVE  CacheInv'
BY StoreStays, Prunes DEF Goto, CacheInv

(* Listing a shard, of a key that there is. *)
LEMMA ListStep == ASSUME CacheInv, NEW p \in Procs, List(p) PROVE CacheInv'
<1> DEFINE k == LeastKey(scan[p].shards)
<1> DEFINE names == Temporaries(k) \cup (IF entry[k].value = Absent THEN {} ELSE {k})
<1>1. /\ TypeOK /\ scan[p] \in Scan /\ Goto(p, "list", "visit")
      /\ UNCHANGED <<store, closed, task>> /\ Observe
      /\ scan' = [scan EXCEPT ![p].shards = @ \ {k}, ![p].names = names]
  BY DEF CacheInv, TypeOK, List
<1>2. k \in Keys
  BY <1>1, LeastIn DEF List, Scan
<1>3. names \subseteq Procs \cup Keys
  BY <1>2 DEF Temporaries
<1> HIDE DEF k, names
<1>4. [scan[p] EXCEPT !.shards = @ \ {k}, !.names = names] \in Scan
  BY <1>1, <1>3 DEF Scan
<1>5. scan' = [scan EXCEPT ![p] = [scan[p] EXCEPT !.shards = @ \ {k}, !.names = names]]
  BY <1>1 DEF TypeOK
<1>6. scan' \in [Procs -> Scan]
  BY <1>1, <1>4, <1>5, ScanTypes
<1> QED
  BY <1>1, <1>6, Looks DEF PruneSteps

(* A temporary that is old enough is removed. *)
LEMMA VisitTemporaryStep ==
  ASSUME CacheInv, NEW p \in Procs, VisitTemporary(p) PROVE CacheInv'
<1>1. /\ TypeOK /\ scan[p] \in Scan /\ pc[p] = "visit"
      /\ UNCHANGED <<entry, clock, damage, closed, task, pc, result>> /\ Observe
  BY DEF CacheInv, TypeOK, VisitTemporary
<1>2. PICK q \in Procs :
        /\ scan' = [scan EXCEPT ![p].names = @ \ {q}]
        /\ temp' = [temp EXCEPT ![q] = IF Stale(p, q) THEN NoTemporary ELSE @]
  BY DEF VisitTemporary
<1>3. [scan[p] EXCEPT !.names = @ \ {q}] \in Scan
  BY <1>1 DEF Scan
<1>4. scan' = [scan EXCEPT ![p] = [scan[p] EXCEPT !.names = @ \ {q}]]
  BY <1>1, <1>2 DEF TypeOK
<1>5. scan' \in [Procs -> Scan]
  BY <1>1, <1>3, <1>4, ScanTypes
<1>6. \A r \in Procs : temp'[r] \in {temp[r], NoTemporary}
  BY <1>1, <1>2 DEF TypeOK
<1>7. StoreTypes'
  <2>1. temp' \in [Procs -> Temporary]
    BY <1>1, <1>2 DEF TypeOK, Temporary
  <2> QED
    BY <1>1, <2>1 DEF TypeOK, StoreTypes
<1>8. pc' = [pc EXCEPT ![p] = "visit"]
  BY <1>1 DEF TypeOK
<1> QED
  BY <1>1, <1>5, <1>6, <1>7, <1>8, Prunes DEF PruneSteps

(* The entry of the shard is looked at, when it is still there. *)
LEMMA VisitEntryStep == ASSUME CacheInv, NEW p \in Procs, VisitEntry(p) PROVE CacheInv'
<1>1. /\ TypeOK /\ scan[p] \in Scan /\ UNCHANGED <<store, closed, task>> /\ Observe
  BY DEF CacheInv, TypeOK, VisitEntry
<1>2. PICK k \in Keys :
        \/ Goto(p, "visit", "list") /\ scan' = [scan EXCEPT ![p].names = {}]
        \/ /\ entry[k].value # Absent
           /\ Goto(p, "visit", "verify")
           /\ scan' = [scan EXCEPT ![p].names = {},
                ![p].listed = {[key |-> k, at |-> entry[k].at, size |-> Size[entry[k].value]]}]
  BY <1>1 DEF VisitEntry, Scan
<1>3. CASE Goto(p, "visit", "list") /\ scan' = [scan EXCEPT ![p].names = {}]
  <2>1. [scan[p] EXCEPT !.names = {}] \in Scan
    BY <1>1 DEF Scan
  <2>2. scan' = [scan EXCEPT ![p] = [scan[p] EXCEPT !.names = {}]]
    BY <1>1, <1>3 DEF TypeOK
  <2>3. scan' \in [Procs -> Scan]
    BY <1>1, <2>1, <2>2, ScanTypes
  <2> QED
    BY <1>1, <1>3, <2>3, Looks DEF PruneSteps
<1>4. CASE /\ entry[k].value # Absent
           /\ Goto(p, "visit", "verify")
           /\ scan' = [scan EXCEPT ![p].names = {},
                ![p].listed = {[key |-> k, at |-> entry[k].at, size |-> Size[entry[k].value]]}]
  <2> DEFINE c == [key |-> k, at |-> entry[k].at, size |-> Size[entry[k].value]]
  <2>1. c \in Candidate
    BY <1>1, <1>4, SizeAssumption DEF Candidate, TypeOK, Entry
  <2> HIDE DEF c
  <2>2. [scan[p] EXCEPT !.names = {}, !.listed = {c}] \in Scan
    BY <1>1, <2>1 DEF Scan
  <2>3. scan' = [scan EXCEPT ![p] = [scan[p] EXCEPT !.names = {}, !.listed = {c}]]
    BY <1>1, <1>4 DEF TypeOK, c
  <2>4. scan' \in [Procs -> Scan]
    BY <1>1, <2>2, <2>3, ScanTypes
  <2> QED
    BY <1>1, <1>4, <2>4, Looks DEF PruneSteps
<1> QED
  BY <1>2, <1>3, <1>4

(* The listed entry is verified. *)
LEMMA VerifyStep == ASSUME CacheInv, NEW p \in Procs, Verify(p) PROVE CacheInv'
<1>1. TypeOK /\ scan[p] \in Scan /\ UNCHANGED <<store, closed, task>> /\ Observe
  BY DEF CacheInv, TypeOK, Verify
<1>2. PICK c \in scan[p].listed :
        \/ /\ Goto(p, "verify", "list")
           /\ scan' = [scan EXCEPT ![p].candidates = @ \cup {c}, ![p].listed = {}]
        \/ Goto(p, "verify", "discard") /\ UNCHANGED scan
  BY DEF Verify
<1>3. CASE /\ Goto(p, "verify", "list")
           /\ scan' = [scan EXCEPT ![p].candidates = @ \cup {c}, ![p].listed = {}]
  <2>1. [scan[p] EXCEPT !.candidates = @ \cup {c}, !.listed = {}] \in Scan
    BY <1>1, <1>2 DEF Scan
  <2>2. scan' = [scan EXCEPT ![p] = [scan[p] EXCEPT !.candidates = @ \cup {c}, !.listed = {}]]
    BY <1>1, <1>3 DEF TypeOK
  <2>3. scan' \in [Procs -> Scan]
    BY <1>1, <2>1, <2>2, ScanTypes
  <2> QED
    BY <1>1, <1>3, <2>3, Looks DEF PruneSteps
<1>4. CASE Goto(p, "verify", "discard") /\ UNCHANGED scan
  BY <1>1, <1>4, Looks DEF PruneSteps, TypeOK
<1> QED
  BY <1>2, <1>3, <1>4

(* An entry that did not verify is removed. *)
LEMMA DiscardStep == ASSUME CacheInv, NEW p \in Procs, Discard(p) PROVE CacheInv'
<1>1. /\ TypeOK /\ scan[p] \in Scan /\ Goto(p, "discard", "list") /\ UNCHANGED <<closed, task>>
      /\ Observe /\ scan' = [scan EXCEPT ![p].listed = {}] /\ \E k : Unlink(k)
  BY DEF CacheInv, TypeOK, Discard
<1>2. /\ StoreTypes' /\ temp' = temp
      /\ \A j \in Keys : entry'[j] = entry[j] \/ entry'[j].value = Absent
  BY <1>1, UnlinkTypes
<1>3. [scan[p] EXCEPT !.listed = {}] \in Scan
  BY <1>1 DEF Scan
<1>4. scan' = [scan EXCEPT ![p] = [scan[p] EXCEPT !.listed = {}]]
  BY <1>1 DEF TypeOK
<1>5. scan' \in [Procs -> Scan]
  BY <1>1, <1>3, <1>4, ScanTypes
<1> QED
  BY <1>1, <1>2, <1>5, Prunes DEF Goto, PruneSteps

(* The oldest candidate is evicted. *)
LEMMA EvictStep == ASSUME CacheInv, NEW p \in Procs, Evict(p) PROVE CacheInv'
<1>1. /\ TypeOK /\ scan[p] \in Scan /\ pc[p] = "evict" /\ UNCHANGED <<closed, task, pc, result>>
      /\ Observe /\ pc' = [pc EXCEPT ![p] = "evict"]
  BY DEF CacheInv, TypeOK, Evict
<1>2. PICK oldest : Unlink(oldest.key) /\ scan' = [scan EXCEPT ![p].candidates = @ \ {oldest}]
  BY DEF Evict
<1>3. /\ StoreTypes' /\ temp' = temp
      /\ \A j \in Keys : entry'[j] = entry[j] \/ entry'[j].value = Absent
  BY <1>1, <1>2, UnlinkTypes
<1>4. [scan[p] EXCEPT !.candidates = @ \ {oldest}] \in Scan
  BY <1>1 DEF Scan
<1>5. scan' = [scan EXCEPT ![p] = [scan[p] EXCEPT !.candidates = @ \ {oldest}]]
  BY <1>1, <1>2 DEF TypeOK
<1>6. scan' \in [Procs -> Scan]
  BY <1>1, <1>4, <1>5, ScanTypes
<1> QED
  BY <1>1, <1>3, <1>6, Prunes DEF PruneSteps

(* The steps of Prune. *)
LEMMA PruneStep == ASSUME CacheInv, NEW p \in Procs, Prune(p) PROVE CacheInv'
<1>1. CASE NextShard(p) \/ Scanned(p)
  BY <1>1, Looks DEF NextShard, Scanned, PruneSteps, CacheInv, TypeOK
<1>2. CASE Pruned(p)
  <2>1. /\ Return(p, "evict", "pruned") /\ UNCHANGED <<store, closed, task>> /\ Observe
        /\ TypeOK /\ Running(p) /\ scan' = [scan EXCEPT ![p] = NoScan]
    BY <1>2 DEF Pruned, CacheInv, Return, Running, Steps
  <2>2. scan' \in [Procs -> Scan]
    BY <2>1, NoScanType, ScanTypes
  <2> QED
    BY <2>1, <2>2, ReturnsEarly DEF Outcomes
<1> QED
  BY <1>1, <1>2, ListStep, VisitTemporaryStep, VisitEntryStep, VerifyStep, DiscardStep, EvictStep
  DEF Prune

(* A call fails, or an error of link is looked into. *)
LEMMA CallFailsStep == ASSUME CacheInv, NEW p \in Procs, CallFails(p) PROVE CacheInv'
<1>1. TypeOK /\ TempOwn(p) /\ Doing(p) /\ UNCHANGED <<store, closed, task>> /\ Observe
  BY DEF CacheInv, CallFails
<1>2. CASE /\ \E from \in Steps : Return(p, from, "failed")
           /\ scan' = [scan EXCEPT ![p] = NoScan]
  <2>1. scan' \in [Procs -> Scan] /\ Running(p)
    BY <1>1, <1>2, NoScanType, ScanTypes DEF Return, Running
  <2> QED
    BY <1>1, <1>2, <2>1, ReturnsEarly DEF Outcomes
<1>3. CASE Goto(p, "link", "reload") /\ UNCHANGED scan
  <2>1. pc[p] = "link" /\ pc'[p] = "reload" /\ Running(p) /\ scan' \in [Procs -> Scan]
    BY <1>1, <1>3 DEF Goto, TypeOK, Running, Steps
  <2>2. Doing(p)' /\ TempOwn(p)' /\ RepairOthers(p)'
    BY <1>1, <2>1, StoreStays DEF Doing, TempOwn, RepairOthers
  <2> QED
    BY <1>1, <1>3, <2>1, <2>2, GoesOn DEF Steps
<1> QED
  BY <1>2, <1>3 DEF CallFails

(* A killed process holds no lock; what its goroutines wrote stays. *)
LEMMA KillStep == ASSUME CacheInv, NEW s \in Stores, Kill(s) PROVE CacheInv'
<1>1. /\ TypeOK /\ UNCHANGED <<store, closed, task, result>> /\ Observe
      /\ pc' = [p \in Procs |->
           IF StoreOf[p] = s /\ pc[p] # "returned" THEN "killed" ELSE pc[p]]
      /\ scan' = [p \in Procs |-> IF StoreOf[p] = s THEN NoScan ELSE scan[p]]
  BY DEF CacheInv, Kill
<1>2. scan' \in [Procs -> Scan]
  BY <1>1, NoScanType DEF TypeOK
<1>3. ControlTypes'
  BY <1>1 DEF TypeOK, ControlTypes
<1>4. TypeOK'
  BY <1>1, <1>2, <1>3, StoreStays, TypesKept
<1>5. \A p \in Procs : pc'[p] = pc[p] \/ pc'[p] = "killed"
  BY <1>1
<1>6. Exclusive'
  BY <1>1, <1>5 DEF CacheInv, Exclusive, Running, Excludes, Steps
<1>7. ASSUME NEW p \in Procs
      PROVE  Doing(p)' /\ TempOwn(p)' /\ RepairOthers(p)'
  <2>1. Doing(p) /\ TempOwn(p) /\ RepairOthers(p) /\ entry' = entry /\ temp' = temp
    BY <1>1, StoreStays DEF CacheInv
  <2> QED
    BY <1>1, <1>5, <2>1 DEF Doing, TempOwn, RepairOthers, Valid
<1> QED
  BY <1>4, <1>6, <1>7 DEF CacheInv

(* A spoiled entry is one more of those that are. *)
LEMMA SpoilStep == ASSUME CacheInv, NEW k \in Keys, Spoil(k) PROVE CacheInv'
<1>1. /\ TypeOK /\ damage < MaxDamage /\ damage' = damage + 1
      /\ entry' = [entry EXCEPT ![k] = [value |-> Corrupt, by |-> entry[k].by, at |-> entry[k].at]]
      /\ UNCHANGED <<clock, temp, closed, task, pc, result, scan>> /\ Observe
  BY DEF CacheInv, Spoil, SetEntry
<1>2. entry' \in [Keys -> Entry]
  BY <1>1 DEF TypeOK, Entry
<1> DEFINE before == {j \in Keys : entry[j].value = Corrupt /\ entry[j].by # Absent}
<1> DEFINE after == {j \in Keys : entry'[j].value = Corrupt /\ entry'[j].by # Absent}
<1>3. after \subseteq before \cup {k}
  BY <1>1 DEF TypeOK
<1>4. IsFiniteSet(before) /\ Cardinality(before) \in Nat /\ Cardinality(after) \in Nat
  BY SpoiledFinite
<1>5. IsFiniteSet(before \cup {k}) /\ Cardinality(before \cup {k}) <= Cardinality(before) + 1
  BY <1>4, FS_AddElement
<1>6. Cardinality(after) <= Cardinality(before \cup {k}) /\ Cardinality(before \cup {k}) \in Nat
  BY <1>3, <1>5, FS_Subset, FS_CardinalityType
<1>7. damage' \in 0..MaxDamage /\ damage \in Nat
  BY <1>1, LimitsAssumption DEF TypeOK
<1>8. Cardinality(before) <= damage
  BY <1>1 DEF TypeOK
<1>9. Cardinality(after) <= damage'
  BY <1>1, <1>4, <1>5, <1>6, <1>7, <1>8
<1>10. StoreTypes'
  BY <1>1, <1>2, <1>7, <1>9 DEF StoreTypes, TypeOK
<1>11. TypeOK'
  BY <1>1, <1>10, TypesKept DEF TypeOK, ControlTypes
<1>12. Exclusive'
  BY <1>1 DEF CacheInv, Exclusive, Running, Excludes
<1>13. ASSUME NEW p \in Procs
       PROVE  Doing(p)' /\ TempOwn(p)' /\ RepairOthers(p)'
  <2>1. Doing(p) /\ TempOwn(p) /\ RepairOthers(p)
    BY DEF CacheInv
  <2>2. Doing(p)' /\ TempOwn(p)'
    BY <1>1, <2>1 DEF Doing, TempOwn
  <2>3. \A j \in Keys : Valid(j)' => entry'[j] = entry[j]
    BY <1>1, DistinctAssumption DEF Valid, TypeOK
  <2>4. pc[p] = "repair" => task[p].key \in Keys
    BY <1>1, <2>1 DEF Doing, TypeOK, Task
  <2>5. RepairOthers(p)'
    BY <1>1, <2>1, <2>3, <2>4 DEF RepairOthers, Valid
  <2> QED
    BY <2>2, <2>5
<1> QED
  BY <1>11, <1>12, <1>13 DEF CacheInv

-----------------------------------------------------------------------------
(* The invariant.                                                           *)

(* What an earlier run left. *)
LEMMA InitInv == Init => CacheInv
<1> SUFFICES ASSUME Init PROVE CacheInv
  OBVIOUS
<1>1. PICK w \in Workloads :
        /\ task = w.task
        /\ entry = [k \in Keys |-> [value |-> w.held[k], by |-> Absent, at |-> 0]]
  BY DEF Init
<1>2. w.task \in [Procs -> Task] /\ w.held \in [Keys -> Values \cup {Corrupt, Absent}]
  BY WorkloadsAssumption
<1>3. entry \in [Keys -> Entry]
  BY <1>1, <1>2 DEF Entry, Publishers
<1>4. Cardinality({k \in Keys : entry[k].value = Corrupt /\ entry[k].by # Absent}) = 0
  <2>1. {k \in Keys : entry[k].value = Corrupt /\ entry[k].by # Absent} = {}
    BY <1>1
  <2> QED
    BY <2>1, FS_EmptySet
<1>5. clock \in 1..MaxTime /\ damage \in 0..MaxDamage /\ damage = 0
  BY LimitsAssumption DEF Init
<1>6. temp \in [Procs -> Temporary] /\ scan \in [Procs -> Scan]
  BY NoScanType DEF Init, Temporary
<1>7. /\ closed \in [Stores -> BOOLEAN] /\ result \in [Procs -> Outcomes]
      /\ pc \in [Procs -> Steps \cup {"idle", "returned", "killed"}]
      /\ seen \in [Procs -> SUBSET (Values \cup {Corrupt, Absent})] /\ raced \in SUBSET Procs
  BY DEF Init, Outcomes
<1>8. TypeOK
  BY <1>1, <1>2, <1>3, <1>4, <1>5, <1>6, <1>7 DEF TypeOK
<1>9. \A p \in Procs : pc[p] = "idle" /\ temp[p] = NoTemporary
  BY DEF Init
<1>10. Exclusive
  BY <1>9 DEF Exclusive, Running, Steps
<1>11. \A p \in Procs : Doing(p) /\ TempOwn(p) /\ RepairOthers(p)
  BY <1>9 DEF Doing, TempOwn, RepairOthers
<1> QED
  BY <1>8, <1>10, <1>11 DEF CacheInv

(* Nothing happens. *)
LEMMA StutterStep == ASSUME CacheInv, UNCHANGED vars PROVE CacheInv'
<1>1. /\ UNCHANGED <<entry, clock, damage, temp>>
      /\ UNCHANGED <<closed, task, pc, result, scan, seen, raced>>
  BY DEF vars, store, history
<1>2. TypeOK'
  BY <1>1 DEF CacheInv, TypeOK
<1>3. Exclusive'
  BY <1>1 DEF CacheInv, Exclusive, Running, Excludes
<1>4. \A p \in Procs : Doing(p)' /\ TempOwn(p)' /\ RepairOthers(p)'
  BY <1>1 DEF CacheInv, Doing, TempOwn, RepairOthers, Valid
<1> QED
  BY <1>2, <1>3, <1>4 DEF CacheInv

(* Every step keeps it. *)
LEMMA NextInv == CacheInv /\ [Next]_vars => CacheInv'
<1> SUFFICES ASSUME CacheInv, [Next]_vars PROVE CacheInv'
  OBVIOUS
<1>1. ASSUME NEW p \in Procs, Operation(p) PROVE CacheInv'
  <2>1. CASE Begin(p) \/ Close(p) \/ Prune(p) \/ CallFails(p)
    BY <2>1, BeginStep, CloseStep, PruneStep, CallFailsStep
  <2>2. CASE GetOrPut(p)
    BY <2>2, LoadStep, RepairStep, WriteStep, LinkStep, ReloadStep, CleanupStep DEF GetOrPut
  <2> QED
    BY <1>1, <2>1, <2>2 DEF Operation
<1> QED
  BY <1>1, KillStep, SpoilStep, StutterStep DEF Next

(* CacheInv holds in every state: the code may rely on its lock and on what it has *)
(* written to its temporary.                                                       *)
THEOREM CacheInvariant == Spec => []CacheInv
BY InitInv, NextInv, PTL DEF Spec

(* The name of an entry never stands for a file that no Put has written to its end, *)
(* except for entries that were found or spoiled.                                   *)
THEOREM EntriesWellTyped == Spec => []TypeOK
<1>1. CacheInv => TypeOK
  BY DEF CacheInv
<1> QED
  BY <1>1, CacheInvariant, PTL

-----------------------------------------------------------------------------
(* What a step does to the entries.                                         *)

(* An entry changes in three ways: it is linked, removed, or spoiled. *)
LEMMA EntryChanges ==
  ASSUME CacheInv, [Next]_vars, NEW k \in Keys, entry'[k] # entry[k]
  PROVE  \/ entry[k].value = Absent /\ \E p \in Procs : Link(p)
         \/ entry'[k].value \in {Corrupt, Absent}
<1>1. TypeOK
  BY DEF CacheInv
<1>2. ASSUME NEW p \in Procs, Operation(p)
      PROVE  \/ entry[k].value = Absent /\ Link(p)
             \/ entry'[k].value \in {Corrupt, Absent}
  <2>1. CASE Begin(p) \/ Close(p) \/ CallFails(p)
    BY <2>1 DEF Begin, Close, CallFails, store
  <2>2. CASE GetOrPut(p)
    <3>1. CASE Link(p)
      BY <1>1, <3>1 DEF Link, Linkable, SetEntry, TypeOK
    <3>2. CASE Repair(p)
      BY <1>1, <3>2, UnlinkTypes DEF Repair
    <3> QED
      BY <2>2, <3>1, <3>2 DEF GetOrPut, Load, WriteTemporary, Reload, Cleanup, store
  <2>3. CASE Prune(p)
    <3>1. CASE Discard(p)
      BY <1>1, <3>1, UnlinkTypes DEF Discard
    <3>2. CASE Evict(p)
      BY <1>1, <3>2, UnlinkTypes DEF Evict
    <3> QED
      BY <2>3, <3>1, <3>2
      DEF Prune, List, VisitTemporary, VisitEntry, NextShard, Verify, Scanned, Pruned, store
  <2> QED
    BY <1>2, <2>1, <2>2, <2>3 DEF Operation
<1>3. ASSUME NEW s \in Stores, Kill(s) PROVE FALSE
  BY <1>3 DEF Kill, store
<1>4. ASSUME NEW j \in Keys, Spoil(j) PROVE entry'[k].value = Corrupt
  BY <1>1, <1>4 DEF Spoil, SetEntry, TypeOK
<1>5. ~UNCHANGED vars
  BY DEF vars, store
<1> QED
  BY <1>2, <1>3, <1>4, <1>5 DEF Next

(* docs/spec/cache.md: a conflicting value is never published over a valid one. Any *)
(* number of processes publish, repair and prune at once, and a valid entry can     *)
(* only be removed or spoiled: its name is empty before it holds another value.     *)
THEOREM ValidValuesStay == Spec => NoOverwrite
<1>1. ASSUME CacheInv, [Next]_vars, NEW k \in Keys, Valid(k), entry'[k].value \in Values
      PROVE  entry'[k] = entry[k]
  BY <1>1, EntryChanges, DistinctAssumption DEF Valid
<1>2. CacheInv /\ [Next]_vars =>
        [\A k \in Keys : Valid(k) /\ entry'[k].value \in Values => entry'[k] = entry[k]]_vars
  BY <1>1
<1> QED
  BY <1>2, CacheInvariant, PTL DEF Spec, NoOverwrite

-----------------------------------------------------------------------------
(* What an operation returns.                                               *)

Told == {"hit", "miss", "stored", "conflict"}

(* What OutcomesTrue asks of a goroutine. *)
Justified(p) ==
  /\ Reports(p, "hit") => Witnessed(p) \cap Values # {}
  /\ Reports(p, "miss") => Witnessed(p) \cap {Corrupt, Absent} # {}
  /\ Reports(p, "stored") => task[p].value \in Witnessed(p)
  /\ Reports(p, "conflict") => Witnessed(p) \cap (Values \ {task[p].value}) # {}

(* A step that says nothing of the key. *)
LEMMA TellsNothing ==
  ASSUME NEW p \in Procs, result'[p] = result[p] \/ result'[p] \notin Told
  PROVE  Justified(p)
BY DEF Justified, Reports, Told

(* A return says what it returns. *)
LEMMA ReturnTells ==
  ASSUME TypeOK, NEW p \in Procs, NEW from, NEW outcome, Return(p, from, outcome)
  PROVE  result'[p] = outcome /\ \A q \in Procs \ {p} : result'[q] = result[q]
BY DEF Return, TypeOK

(* What Load returns is what it saw. *)
LEMMA LoadTells == ASSUME CacheInv, NEW p \in Procs, Load(p) PROVE Justified(p)
<1> DEFINE value == entry[task[p].key].value
<1>1. TypeOK /\ task[p].op \in {"get", "put"} /\ entry' = entry
  BY DEF CacheInv, Load, Goto, Return, Doing, store
<1>2. value \in Values \cup {Corrupt, Absent} /\ value \in Witnessed(p)
  BY <1>1 DEF TypeOK, Task, Entry, Witnessed
<1>3. CASE task[p].op = "get" /\ Return(p, "load", LoadOutcome(p, value))
  <2>1. result'[p] = IF value \in Values THEN "hit" ELSE "miss"
    BY <1>1, <1>3, ReturnTells DEF LoadOutcome
  <2> QED
    BY <1>2, <2>1 DEF Justified, Reports
<1>4. CASE task[p].op = "put" /\ value \in Values /\ Return(p, "load", LoadOutcome(p, value))
  <2>1. result'[p] = IF value = task[p].value THEN "stored" ELSE "conflict"
    BY <1>1, <1>4, ReturnTells DEF LoadOutcome
  <2> QED
    BY <1>2, <1>4, <2>1 DEF Justified, Reports
<1>5. CASE \E to : Goto(p, "load", to)
  BY <1>5, TellsNothing DEF Goto
<1> QED
  BY <1>1, <1>3, <1>4, <1>5 DEF Load

(* Link has published the value of its Put. *)
LEMMA LinkTells == ASSUME CacheInv, NEW p \in Procs, Link(p) PROVE Justified(p)
<1>1. /\ TypeOK /\ TempOwn(p) /\ task[p].op = "put" /\ task[p].key \in Keys
  BY DEF CacheInv, Link, Goto, Return, Doing, TypeOK, Task
<1>2. CASE /\ Linkable(p) /\ SetEntry(task[p].key, temp[p].value, p, temp[p].at)
           /\ Return(p, "link", "stored")
  <2>1. entry'[task[p].key].value = task[p].value
    BY <1>1, <1>2 DEF SetEntry, TempOwn, Linkable, TypeOK
  <2>2. result'[p] = "stored"
    BY <1>1, <1>2, ReturnTells
  <2> QED
    BY <2>1, <2>2 DEF Justified, Reports, Witnessed
<1>3. CASE Goto(p, "link", "reload")
  BY <1>3, TellsNothing DEF Goto
<1> QED
  BY <1>2, <1>3 DEF Link

(* Reload returns what it saw, or an error. *)
LEMMA ReloadTells == ASSUME CacheInv, NEW p \in Procs, Reload(p) PROVE Justified(p)
<1> DEFINE value == entry[task[p].key].value
<1>1. TypeOK /\ entry' = entry
  BY DEF CacheInv, Reload, store
<1>2. value \in Witnessed(p)
  BY <1>1 DEF Witnessed
<1>3. result'[p] = Rival(p, value)
  BY <1>1, ReturnTells DEF Reload
<1>4. CASE value = task[p].value
  BY <1>2, <1>3, <1>4 DEF Rival, Justified, Reports
<1>5. CASE value \in Values \ {task[p].value}
  BY <1>2, <1>3, <1>5 DEF Rival, Justified, Reports
<1>6. CASE value # task[p].value /\ value \notin Values \ {task[p].value}
  BY <1>3, <1>6, TellsNothing DEF Rival, Told
<1> QED
  BY <1>4, <1>5, <1>6

(* No other step of an operation says anything of the key. *)
LEMMA OperationTells ==
  ASSUME CacheInv, NEW p \in Procs, Operation(p)
  PROVE  Justified(p) /\ \A q \in Procs \ {p} : result'[q] = result[q]
<1>1. TypeOK
  BY DEF CacheInv
<1>2. \A q \in Procs \ {p} : result'[q] = result[q]
  <2>1. CASE Begin(p) \/ Close(p) \/ CallFails(p)
    BY <1>1, <2>1, ReturnTells DEF Begin, Close, CallFails, Goto
  <2>2. CASE GetOrPut(p)
    BY <1>1, <2>2, ReturnTells
    DEF GetOrPut, Load, Repair, WriteTemporary, Link, Reload, Cleanup, Goto, TypeOK
  <2>3. CASE Prune(p)
    BY <1>1, <2>3, ReturnTells
    DEF Prune, List, VisitTemporary, VisitEntry, NextShard, Verify, Discard, Scanned, Evict,
        Pruned, Goto
  <2> QED
    BY <2>1, <2>2, <2>3 DEF Operation
<1>3. Justified(p)
  <2>1. CASE Begin(p) \/ Close(p) \/ CallFails(p)
    <3>1. result'[p] \in {result[p], "failed", "closed"}
      BY <1>1, <2>1, ReturnTells DEF Begin, Close, CallFails, Goto
    <3> QED
      BY <3>1, TellsNothing DEF Told
  <2>2. CASE Repair(p) \/ WriteTemporary(p) \/ Cleanup(p)
    <3>1. result'[p] \in {result[p], "failed"}
      BY <1>1, <2>2 DEF Repair, WriteTemporary, Cleanup, Goto, TypeOK
    <3> QED
      BY <3>1, TellsNothing DEF Told
  <2>3. CASE Prune(p)
    <3>1. result'[p] \in {result[p], "pruned"}
      BY <1>1, <2>3, ReturnTells
      DEF Prune, List, VisitTemporary, VisitEntry, NextShard, Verify, Discard, Scanned, Evict,
          Pruned, Goto
    <3> QED
      BY <3>1, TellsNothing DEF Told
  <2> QED
    BY <2>1, <2>2, <2>3, LoadTells, LinkTells, ReloadTells DEF Operation, GetOrPut
<1> QED
  BY <1>2, <1>3

(* Whatever other processes publish, repair, prune and spoil meanwhile: a hit was a  *)
(* value of the key, a miss a moment without one, a Put that succeeds had its value  *)
(* under the key, and one that reports a conflict had another valid value there.     *)
THEOREM OutcomesWitnessed == Spec => OutcomesTrue
<1>1. ASSUME CacheInv, [Next]_vars, NEW p \in Procs
      PROVE  Justified(p)
  <2>1. CASE \E q \in Procs : Operation(q)
    <3>1. PICK q \in Procs : Operation(q)
      BY <2>1
    <3>2. CASE q = p
      BY <1>1, <3>1, <3>2, OperationTells
    <3>3. CASE q # p
      <4>1. result'[p] = result[p]
        BY <1>1, <3>1, <3>3, OperationTells
      <4> QED
        BY <4>1, TellsNothing
    <3> QED
      BY <3>2, <3>3
  <2>2. CASE ~\E q \in Procs : Operation(q)
    <3>1. result' = result
      BY <1>1, <2>2 DEF Next, Kill, Spoil, vars
    <3> QED
      BY <3>1, TellsNothing
  <2> QED
    BY <2>1, <2>2
<1>2. CacheInv /\ [Next]_vars =>
        [\A p \in Procs :
           /\ Reports(p, "hit") => Witnessed(p) \cap Values # {}
           /\ Reports(p, "miss") => Witnessed(p) \cap {Corrupt, Absent} # {}
           /\ Reports(p, "stored") => task[p].value \in Witnessed(p)
           /\ Reports(p, "conflict") => Witnessed(p) \cap (Values \ {task[p].value}) # {}]_vars
  BY <1>1 DEF Justified
<1> QED
  BY <1>2, CacheInvariant, PTL DEF Spec, OutcomesTrue

-----------------------------------------------------------------------------
(* What a Put removes by mistake.                                           *)

(* The only step with which a Put removes an entry is the repair of its own key. *)
LEMMA PutRemoves ==
  ASSUME CacheInv, [Next]_vars, NEW p \in Procs, NEW k \in Keys,
         task[p].op = "put", pc[p] # pc'[p], Valid(k), entry'[k].value = Absent
  PROVE  Repair(p) /\ k = task[p].key
<1>1. TypeOK /\ Doing(p) /\ entry' # entry
  BY DistinctAssumption DEF CacheInv, Valid
<1>2. ASSUME NEW q \in Procs, Operation(q) PROVE q = p
  <2>1. \A r \in Procs \ {q} : pc'[r] = pc[r]
    <3>1. CASE Begin(q) \/ Close(q) \/ CallFails(q)
      BY <1>1, <3>1 DEF Begin, Close, CallFails, Goto, Return, TypeOK
    <3>2. CASE GetOrPut(q)
      BY <1>1, <3>2
      DEF GetOrPut, Load, Repair, WriteTemporary, Link, Reload, Cleanup, Goto, Return, TypeOK
    <3>3. CASE Prune(q)
      BY <1>1, <3>3
      DEF Prune, List, VisitTemporary, VisitEntry, NextShard, Verify, Discard, Scanned, Evict,
          Pruned, Goto, Return, TypeOK
    <3> QED
      BY <1>2, <3>1, <3>2, <3>3 DEF Operation
  <2> QED
    BY <2>1
<1>3. ~\E s \in Stores : Kill(s)
  BY <1>1 DEF Kill, store
<1>4. ~\E j \in Keys : Spoil(j)
  BY DEF Spoil
<1>5. Operation(p)
  BY <1>2, <1>3, <1>4 DEF Next, vars
<1>6. ~Prune(p)
  BY <1>1
  DEF Prune, List, VisitTemporary, VisitEntry, NextShard, Verify, Discard, Scanned, Evict,
      Pruned, Goto, Return, Doing
<1>7. ~(Begin(p) \/ Close(p) \/ CallFails(p))
  BY <1>1 DEF Begin, Close, CallFails, store
<1>8. ~Link(p)
  <2>1. CASE SetEntry(task[p].key, temp[p].value, p, temp[p].at) /\ Linkable(p)
    <3>1. temp[p].value = task[p].value /\ task[p].value \in Values
      BY <1>1, <2>1 DEF CacheInv, TempOwn, Linkable, TypeOK, Task
    <3>2. entry'[k] = entry[k] \/ entry'[k].value \in Values
      BY <1>1, <2>1, <3>1 DEF SetEntry, TypeOK
    <3> QED
      BY <3>2, DistinctAssumption DEF Valid
  <2> QED
    BY <1>1, <2>1 DEF Link
<1>9. Repair(p)
  BY <1>1, <1>5, <1>6, <1>7, <1>8
  DEF Operation, GetOrPut, Load, WriteTemporary, Reload, Cleanup, store
<1>10. k = task[p].key
  BY <1>1, <1>9, DistinctAssumption DEF Repair, Unlink, SetEntry, TypeOK, Valid
<1> QED
  BY <1>9, <1>10

(* A Put that repairs removes whatever the key names by then. If that is a valid      *)
(* value, another process has published it: the lock of the Store keeps every other   *)
(* goroutine of the process out between the load and the removal.                     *)
THEOREM OwnStoreSpared == Spec => RepairSparesOwnStore
<1>1. ASSUME CacheInv, [Next]_vars, NEW p \in Procs, NEW k \in Keys,
             task[p].op = "put", pc[p] # pc'[p], Valid(k), entry'[k].value = Absent
      PROVE  entry[k].by \in Procs /\ StoreOf[entry[k].by] # StoreOf[p]
  <2>1. pc[p] = "repair" /\ k = task[p].key /\ RepairOthers(p)
    BY <1>1, PutRemoves DEF CacheInv, Repair, Goto
  <2> QED
    BY <1>1, <2>1 DEF RepairOthers
<1>2. CacheInv /\ [Next]_vars =>
        [\A p \in Procs, k \in Keys :
           task[p].op = "put" /\ pc[p] # pc'[p] /\ Valid(k) /\ entry'[k].value = Absent
             => entry[k].by \in Procs /\ StoreOf[entry[k].by] # StoreOf[p]]_vars
  BY <1>1
<1> QED
  BY <1>2, CacheInvariant, PTL DEF Spec, RepairSparesOwnStore
-----------------------------------------------------------------------------
(* The size of a set of files.                                              *)

(* What holds of a finite set when it holds of all smaller ones holds of all. *)
LEMMA BySize ==
  ASSUME NEW Sets, \A s \in Sets : IsFiniteSet(s), NEW Good,
         \A s \in Sets :
           (\A t \in Sets : Cardinality(t) < Cardinality(s) => t \in Good) => s \in Good
  PROVE  Sets \subseteq Good
<1>1. SUFFICES ASSUME Sets \ Good # {} PROVE FALSE
  OBVIOUS
<1> DEFINE sizes == {Cardinality(s) : s \in Sets \ Good}
<1>2. \A s \in Sets : Cardinality(s) \in Nat
  BY FS_CardinalityType
<1>3. sizes \subseteq Nat /\ sizes # {}
  BY <1>1, <1>2
<1>4. PICK n \in sizes : \A m \in sizes : n <= m
  BY <1>3, LeastNumber
<1>5. PICK s \in Sets \ Good : n = Cardinality(s)
  BY <1>4
<1>6. ASSUME NEW t \in Sets, Cardinality(t) < Cardinality(s) PROVE t \in Good
  <2>1. SUFFICES ASSUME t \notin Good PROVE FALSE
    OBVIOUS
  <2>2. Cardinality(t) \in sizes /\ Cardinality(t) \in Nat /\ Cardinality(s) \in Nat
    BY <1>2, <2>1
  <2>3. n <= Cardinality(t)
    BY <1>4, <2>2
  <2> HIDE DEF sizes
  <2> QED
    BY <1>5, <1>6, <2>2, <2>3
<1> QED
  BY <1>5, <1>6

(* The sum as the fold computes it. *)
Adds(set, sum) ==
  IF set = {} THEN 0 ELSE LET c == CHOOSE c \in set : TRUE IN c.size + sum[set \ {c}]
SumOn(files, sum) == sum = [set \in SUBSET files |-> Adds(set, sum)]

(* What Bytes is, by the definition of the community modules. *)
LEMMA BytesIs ==
  ASSUME NEW files
  PROVE  Bytes(files) = (CHOOSE sum : sum = [set \in SUBSET files |-> Adds(set, sum)])[files]
BY Zenon DEF Bytes, Adds, MapThenSumSet, MapThenFoldSet

(* One step of the fold reads the sums of the smaller sets only. *)
LEMMA AddsDepends ==
  ASSUME NEW set, NEW f, NEW g, \A c \in set : f[set \ {c}] = g[set \ {c}]
  PROVE  Adds(set, f) = Adds(set, g)
<1>1. CASE set = {}
  BY <1>1 DEF Adds
<1>2. CASE set # {}
  <2>1. (CHOOSE c \in set : TRUE) \in set
    BY <1>2
  <2> QED
    BY <1>2, <2>1 DEF Adds
<1> QED
  BY <1>1, <1>2

(* A set without one of its members. *)
LEMMA OneLess ==
  ASSUME NEW set, IsFiniteSet(set), NEW c \in set
  PROVE  /\ IsFiniteSet(set \ {c}) /\ Cardinality(set \ {c}) < Cardinality(set)
         /\ Cardinality(set \ {c}) \in Nat /\ Cardinality(set) \in Nat
         /\ Cardinality(set \ {c}) = Cardinality(set) - 1
BY FS_RemoveElement, FS_CardinalityType

(* There is a function that does: a function that does for the sets of up to some size *)
(* gives one for those with one member more.                                            *)
LEMMA SumExists ==
  ASSUME NEW files, IsFiniteSet(files)
  PROVE  \E sum : SumOn(files, sum)
<1> DEFINE Up(n, g) == \A set \in SUBSET files : Cardinality(set) <= n => g[set] = Adds(set, g)
           Bad == {n \in Nat : ~\E g : Up(n, g)}
           next(g) == [set \in SUBSET files |-> Adds(set, g)]
<1>1. \A set \in SUBSET files : IsFiniteSet(set) /\ Cardinality(set) \in Nat
  BY FS_Subset, FS_CardinalityType
<1>2. ASSUME NEW n \in Nat, NEW g,
             \A set \in SUBSET files : Cardinality(set) < n => g[set] = Adds(set, g)
      PROVE  Up(n, next(g))
  <2>1. SUFFICES ASSUME NEW set \in SUBSET files, Cardinality(set) <= n
                 PROVE  next(g)[set] = Adds(set, next(g))
    OBVIOUS
  <2>2. ASSUME NEW c \in set PROVE g[set \ {c}] = next(g)[set \ {c}]
    <3>1. set \ {c} \in SUBSET files /\ Cardinality(set \ {c}) < n
      BY <1>1, <2>1, OneLess
    <3>2. g[set \ {c}] = Adds(set \ {c}, g)
      BY <1>2, <3>1
    <3>3. next(g)[set \ {c}] = Adds(set \ {c}, g)
      BY <3>1
    <3> QED
      BY <3>2, <3>3
  <2> HIDE DEF next
  <2>3. Adds(set, g) = Adds(set, next(g))
    BY <2>2, AddsDepends
  <2>4. next(g)[set] = Adds(set, g)
    BY DEF next
  <2> QED
    BY <2>3, <2>4
<1>3. Bad = {}
  <2>1. SUFFICES ASSUME Bad # {} PROVE FALSE
    OBVIOUS
  <2>2. PICK n \in Bad : \A m \in Bad : n <= m
    BY <2>1, LeastNumber
  <2>3. n \in Nat /\ ~\E g : Up(n, g)
    BY <2>2
  <2>4. CASE n = 0
    <3>1. \A set \in SUBSET files : ~(Cardinality(set) < 0)
      BY <1>1
    <3>2. Up(0, next([x \in {} |-> 0]))
      BY <1>2, <3>1
    <3> QED
      BY <2>3, <2>4, <3>2
  <2>5. CASE n # 0
    <3>1. n - 1 \in Nat /\ n - 1 \notin Bad
      BY <2>2, <2>3, <2>5
    <3>2. PICK g : Up(n - 1, g)
      BY <3>1
    <3>3. \A set \in SUBSET files : Cardinality(set) < n => g[set] = Adds(set, g)
      BY <1>1, <2>3, <3>2
    <3>4. Up(n, next(g))
      BY <1>2, <2>3, <3>3
    <3> QED
      BY <2>3, <3>4
  <2> QED
    BY <2>4, <2>5
<1>4. Cardinality(files) \in Nat
  BY FS_CardinalityType
<1>5. PICK g : Up(Cardinality(files), g)
  BY <1>3, <1>4
<1>6. ASSUME NEW set \in SUBSET files PROVE g[set] = Adds(set, g)
  <2>1. Cardinality(set) <= Cardinality(files)
    BY FS_Subset
  <2> QED
    BY <1>5, <2>1
<1> DEFINE all == next(g)
<1>7. all = [set \in SUBSET files |-> Adds(set, all)]
  <2>1. ASSUME NEW set \in SUBSET files PROVE Adds(set, g) = Adds(set, all)
    <3>1. \A c \in set : g[set \ {c}] = all[set \ {c}]
      BY <1>6
    <3> HIDE DEF all
    <3> QED
      BY <3>1, AddsDepends
  <2> QED
    BY <2>1
<1> HIDE DEF all
<1> QED
  BY <1>7 DEF SumOn

(* The sum is one such function, taken at the whole set. *)
LEMMA SumOf ==
  ASSUME NEW files, IsFiniteSet(files)
  PROVE  \E sum : SumOn(files, sum) /\ Bytes(files) = sum[files]
<1> DEFINE sum == CHOOSE sum : sum = [set \in SUBSET files |-> Adds(set, sum)]
<1>1. SumOn(files, sum)
  BY SumExists DEF SumOn
<1> QED
  BY <1>1, BytesIs

(* Two of them agree on the sets both know. *)
LEMMA SumsAgree ==
  ASSUME NEW files, IsFiniteSet(files), NEW part, part \subseteq files,
         NEW f, SumOn(files, f), NEW g, SumOn(part, g)
  PROVE  \A set \in SUBSET part : f[set] = g[set]
<1> DEFINE Good == {set \in SUBSET part : f[set] = g[set]}
<1>1. \A set \in SUBSET part : /\ IsFiniteSet(set) /\ set \in SUBSET files
                               /\ f[set] = Adds(set, f) /\ g[set] = Adds(set, g)
  BY FS_Subset DEF SumOn
<1>2. ASSUME NEW set \in SUBSET part,
             \A t \in SUBSET part : Cardinality(t) < Cardinality(set) => t \in Good
      PROVE  set \in Good
  <2>1. \A c \in set : f[set \ {c}] = g[set \ {c}]
    BY <1>1, <1>2, OneLess
  <2> QED
    BY <1>1, <2>1, AddsDepends
<1> HIDE DEF Good
<1>3. SUBSET part \subseteq Good
  BY <1>1, <1>2, BySize
<1> QED
  BY <1>3 DEF Good

(* The size of a set is that of one of its members and that of the others. *)
LEMMA BytesAdds ==
  ASSUME NEW files, IsFiniteSet(files)
  PROVE  /\ files = {} => Bytes(files) = 0
         /\ files # {} =>
              LET c == CHOOSE c \in files : TRUE
              IN  c \in files /\ Bytes(files) = c.size + Bytes(files \ {c})
<1>1. PICK sum : SumOn(files, sum) /\ Bytes(files) = sum[files]
  BY SumOf
<1>2. sum[files] = Adds(files, sum)
  BY <1>1 DEF SumOn
<1>3. CASE files = {}
  BY <1>1, <1>2, <1>3 DEF Adds
<1>4. CASE files # {}
  <2> DEFINE c == CHOOSE c \in files : TRUE
  <2>1. c \in files
    BY <1>4
  <2>2. Bytes(files) = c.size + sum[files \ {c}]
    BY <1>1, <1>2, <1>4 DEF Adds
  <2> HIDE DEF c
  <2>3. IsFiniteSet(files \ {c})
    BY <2>1, OneLess
  <2>4. PICK less : SumOn(files \ {c}, less) /\ Bytes(files \ {c}) = less[files \ {c}]
    BY <2>3, SumOf
  <2>5. \A set \in SUBSET (files \ {c}) : sum[set] = less[set]
    BY <1>1, <2>4, SumsAgree
  <2>6. sum[files \ {c}] = Bytes(files \ {c})
    BY <2>4, <2>5
  <2> QED
    BY <1>4, <2>1, <2>2, <2>6 DEF c
<1> QED
  BY <1>3, <1>4

Sized(files) == IsFiniteSet(files) /\ \A c \in files : c.size \in Nat

(* It is a number. *)
LEMMA BytesNat ==
  ASSUME NEW files, Sized(files)
  PROVE  Bytes(files) \in Nat
<1> DEFINE Good == {set \in SUBSET files : Bytes(set) \in Nat}
<1>1. \A set \in SUBSET files : IsFiniteSet(set)
  BY FS_Subset DEF Sized
<1>2. ASSUME NEW set \in SUBSET files,
             \A t \in SUBSET files : Cardinality(t) < Cardinality(set) => t \in Good
      PROVE  set \in Good
  <2>1. CASE set = {}
    <3>1. Bytes(set) = 0
      BY <1>1, <2>1, BytesAdds
    <3> QED
      BY <3>1
  <2>2. CASE set # {}
    <3>1. PICK c \in set : Bytes(set) = c.size + Bytes(set \ {c})
      BY <1>1, <2>2, BytesAdds
    <3>2. set \ {c} \in Good
      BY <1>1, <1>2, OneLess
    <3>3. c.size \in Nat /\ Bytes(set \ {c}) \in Nat
      BY <3>2 DEF Sized
    <3> QED
      BY <3>1, <3>3
  <2> QED
    BY <2>1, <2>2
<1> HIDE DEF Good
<1>3. SUBSET files \subseteq Good
  BY <1>1, <1>2, BySize
<1> QED
  BY <1>3 DEF Good

(* It is so for every member. *)
LEMMA BytesRemove ==
  ASSUME NEW files, Sized(files)
  PROVE  \A c \in files : Bytes(files) = c.size + Bytes(files \ {c})
<1> DEFINE Removes(set) == \A c \in set : Bytes(set) = c.size + Bytes(set \ {c})
           Good == {set \in SUBSET files : Removes(set)}
<1>1. \A set \in SUBSET files : IsFiniteSet(set) /\ Sized(set) /\ Bytes(set) \in Nat
  BY FS_Subset, BytesNat DEF Sized
<1>2. \A c \in files : c.size \in Nat
  BY DEF Sized
<1>3. ASSUME NEW set \in SUBSET files,
             \A t \in SUBSET files : Cardinality(t) < Cardinality(set) => t \in Good
      PROVE  set \in Good
  <2>1. SUFFICES ASSUME NEW x \in set PROVE Bytes(set) = x.size + Bytes(set \ {x})
    OBVIOUS
  <2>2. PICK c \in set : Bytes(set) = c.size + Bytes(set \ {c})
    BY <1>1, <2>1, BytesAdds
  <2>3. CASE x = c
    BY <2>2, <2>3
  <2>4. CASE x # c
    <3>1. set \ {c} \in Good /\ set \ {x} \in Good
      BY <1>1, <1>3, <2>1, <2>2, OneLess
    <3>2. Bytes(set \ {c}) = x.size + Bytes((set \ {c}) \ {x})
      BY <2>4, <3>1
    <3>3. Bytes(set \ {x}) = c.size + Bytes((set \ {x}) \ {c})
      BY <2>4, <3>1
    <3>4. (set \ {c}) \ {x} = (set \ {x}) \ {c} /\ (set \ {x}) \ {c} \in SUBSET files
      OBVIOUS
    <3>5. Bytes((set \ {x}) \ {c}) \in Nat /\ x.size \in Nat /\ c.size \in Nat
      BY <1>1, <1>2, <3>4
    <3> DEFINE rest == Bytes((set \ {x}) \ {c})
    <3>6. Bytes(set \ {c}) = x.size + rest /\ Bytes(set \ {x}) = c.size + rest
      BY <3>2, <3>3, <3>4
    <3>7. rest \in Nat
      BY <3>5
    <3> HIDE DEF rest
    <3>8. c.size + (x.size + rest) = x.size + (c.size + rest)
      BY <3>5, <3>7
    <3> QED
      BY <2>2, <3>6, <3>8
  <2> QED
    BY <2>3, <2>4
<1> HIDE DEF Good
<1>4. SUBSET files \subseteq Good
  BY <1>1, <1>3, BySize
<1> QED
  BY <1>4 DEF Good

(* A part is no larger. *)
LEMMA BytesMonotone ==
  ASSUME NEW files, Sized(files), NEW part, part \subseteq files
  PROVE  Bytes(part) <= Bytes(files)
<1> DEFINE Good == {set \in SUBSET files : part \subseteq set => Bytes(part) <= Bytes(set)}
<1>1. \A set \in SUBSET files : IsFiniteSet(set) /\ Sized(set) /\ Bytes(set) \in Nat
  BY FS_Subset, BytesNat DEF Sized
<1>2. ASSUME NEW set \in SUBSET files,
             \A t \in SUBSET files : Cardinality(t) < Cardinality(set) => t \in Good
      PROVE  set \in Good
  <2>1. SUFFICES ASSUME part \subseteq set PROVE Bytes(part) <= Bytes(set)
    OBVIOUS
  <2>2. CASE part = set
    BY <1>1, <2>2
  <2>3. CASE part # set
    <3>1. PICK x \in set : x \notin part
      BY <2>1, <2>3
    <3>2. set \ {x} \in Good
      BY <1>1, <1>2, OneLess
    <3>3. Bytes(part) <= Bytes(set \ {x})
      BY <2>1, <3>1, <3>2
    <3>4. Bytes(set) = x.size + Bytes(set \ {x})
      BY <1>1, BytesRemove
    <3>5. x.size \in Nat /\ Bytes(set \ {x}) \in Nat /\ Bytes(part) \in Nat
      <4>1. set \ {x} \in SUBSET files
        OBVIOUS
      <4> QED
        BY <1>1, <4>1 DEF Sized
    <3> QED
      BY <3>3, <3>4, <3>5
  <2> QED
    BY <2>2, <2>3
<1> HIDE DEF Good
<1>3. SUBSET files \subseteq Good
  BY <1>1, <1>2, BySize
<1> QED
  BY <1>3 DEF Good

-----------------------------------------------------------------------------
(* What a prune has listed.                                                 *)

(* The entry of a key as Prune lists it. *)
FileOf(k) == [key |-> k, at |-> entry[k].at, size |-> Size[entry[k].value]]
Present == {k \in Keys : entry[k].value # Absent}

Scanning(p) == Running(p) /\ task[p].op = "prune"
KeysOf(files) == {c.key : c \in files}

(* The keys that a scan s has not looked at to the end. *)
Unseen(s) == s.shards \cup (s.names \cap Keys) \cup KeysOf(s.listed)

(* Each key is looked at once, in one place. *)
ScanShape(s, at) ==
  /\ IsFiniteSet(s.candidates)
  /\ \A c, d \in s.candidates : c.key = d.key => c = d
  /\ Unseen(s) \cap KeysOf(s.candidates) = {}
  /\ (s.names \cap Keys) \cap s.shards = {}
  /\ \A j, k \in s.names \cap Keys : j = k
  /\ KeysOf(s.listed) \cap s.shards = {}
  /\ \A c, d \in s.listed : c = d
  /\ at # "visit" => s.names = {}
  /\ at \notin {"verify", "discard"} => s.listed = {}
  /\ at = "evict" => s.shards = {}

(* What appeared in the directory after the scan began is in raced; of all else it has *)
(* the valid entries, and no other is left.                                            *)
ScanCovers(s, at) ==
  /\ \A k \in Present \ Unseen(s) : Valid(k) /\ FileOf(k) \in s.candidates
  /\ \A c \in s.listed : c.key \in Present => c = FileOf(c.key)
  /\ at = "discard" => \A c \in s.listed : ~Valid(c.key)

ScanHolds(p) ==
  Scanning(p) => /\ ScanShape(scan[p], pc[p])
                 /\ p \notin raced => ScanCovers(scan[p], pc[p])
ScanInv == \A p \in Procs : ScanHolds(p)

(* The locals of a prune. *)
LEMMA ScanFields ==
  ASSUME NEW s \in Scan
  PROVE  /\ s.shards \subseteq Keys /\ s.names \subseteq Procs \cup Keys
         /\ s.listed \subseteq Candidate /\ s.candidates \subseteq Candidate
BY DEF Scan

(* While nothing races a prune, entries only disappear. *)
LEMMA Unraced ==
  ASSUME NEW p \in Procs, Observe, task' = task, Scanning(p)', p \notin raced'
  PROVE  /\ p \notin raced
         /\ \A k \in Keys : entry'[k] = entry[k] \/ entry'[k].value = Absent
BY DEF Observe, Scanning, Running, Appears

(* What is left has not changed. *)
LEMMA LeftSame ==
  ASSUME \A k \in Keys : entry'[k] = entry[k] \/ entry'[k].value = Absent
  PROVE  /\ Present' \subseteq Present
         /\ \A k \in Present' : entry'[k] = entry[k] /\ FileOf(k)' = FileOf(k)
                                /\ (Valid(k)' <=> Valid(k))
         /\ \A k \in Keys : Valid(k)' => Valid(k)
<1>1. Present' \subseteq Present
  BY DEF Present
<1>2. \A k \in Present' : entry'[k] = entry[k]
  BY DEF Present
<1>3. \A k \in Present' : FileOf(k)' = FileOf(k) /\ (Valid(k)' <=> Valid(k))
  BY <1>2 DEF FileOf, Valid
<1>4. \A k \in Keys : Valid(k)' => Valid(k)
  BY DistinctAssumption DEF Valid
<1> QED
  BY <1>1, <1>2, <1>3, <1>4

(* Entries that disappear leave a scan as it was. *)
LEMMA ScanKept ==
  ASSUME \A k \in Keys : entry'[k] = entry[k] \/ entry'[k].value = Absent,
         NEW s \in Scan, NEW at, ScanCovers(s, at)
  PROVE  ScanCovers(s, at)'
<1> USE ScanFields
<1>1. \A k \in Present' \ Unseen(s) : Valid(k)' /\ FileOf(k)' \in s.candidates
  BY LeftSame DEF ScanCovers
<1>2. ASSUME NEW c \in s.listed, c.key \in Present' PROVE c = FileOf(c.key)'
  <2>1. FileOf(c.key)' = FileOf(c.key) /\ c.key \in Present
    BY <1>2, LeftSame
  <2> QED
    BY <2>1 DEF ScanCovers
<1>3. at = "discard" => \A c \in s.listed : ~Valid(c.key)'
  <2>1. \A c \in s.listed : c.key \in Keys
    BY DEF Candidate
  <2> QED
    BY <2>1, LeftSame DEF ScanCovers
<1>4. Unseen(s)' = Unseen(s)
  BY DEF Unseen, KeysOf
<1> QED
  BY <1>1, <1>2, <1>3, <1>4 DEF ScanCovers

(* What holds of the scan of p, when its entries may only have disappeared and its locals *)
(* are as they were.                                                                       *)
LEMMA ScanStays ==
  ASSUME TypeOK, NEW p \in Procs, ScanHolds(p), task' = task, Observe,
         Scanning(p)' => Scanning(p) /\ pc'[p] = pc[p] /\ scan'[p] = scan[p]
  PROVE  ScanHolds(p)'
<1> SUFFICES ASSUME Scanning(p)'
             PROVE  /\ ScanShape(scan[p], pc[p])'
                    /\ p \notin raced' => ScanCovers(scan[p], pc[p])'
  BY DEF ScanHolds
<1>1. /\ Scanning(p) /\ pc'[p] = pc[p] /\ scan'[p] = scan[p] /\ ScanShape(scan[p], pc[p])
      /\ p \notin raced => ScanCovers(scan[p], pc[p])
  BY DEF ScanHolds
<1>2. PICK s \in Scan : s = scan[p]
  BY DEF TypeOK
<1>3. PICK at : at = pc[p]
  OBVIOUS
<1>4. ScanShape(scan[p], pc[p])'
  BY <1>1 DEF ScanShape, Unseen, KeysOf
<1>5. ASSUME p \notin raced' PROVE ScanCovers(scan[p], pc[p])'
  <2>1. /\ p \notin raced
        /\ \A k \in Keys : entry'[k] = entry[k] \/ entry'[k].value = Absent
    BY <1>5, Unraced
  <2>2. ScanCovers(s, at)
    BY <1>1, <1>2, <1>3, <2>1
  <2>3. ScanCovers(s, at)'
    BY <2>1, <2>2, ScanKept
  <2>4. s = scan'[p] /\ at = pc'[p]
    BY <1>1, <1>2, <1>3
  <2> QED
    BY <2>3, <2>4
<1> QED
  BY <1>4, <1>5

(* A step of a prune that only looks at the directory. *)
LEMMA ScanLooks ==
  ASSUME TypeOK, NEW p \in Procs, ScanHolds(p), Scanning(p), task' = task, entry' = entry, Observe,
         NEW t, t = scan'[p], NEW to, to = pc'[p], ScanShape(t, to),
         ScanCovers(scan[p], pc[p]) => ScanCovers(t, to)
  PROVE  ScanHolds(p)'
<1> SUFFICES ASSUME Scanning(p)', p \notin raced' PROVE ScanCovers(t, to)'
  <2>1. ScanShape(scan[p], pc[p])'
    BY DEF ScanShape, Unseen, KeysOf
  <2> QED
    BY <2>1 DEF ScanHolds
<1>1. ScanCovers(t, to)
  BY Unraced DEF ScanHolds
<1>2. Present' = Present /\ \A k \in Keys : FileOf(k)' = FileOf(k) /\ (Valid(k)' <=> Valid(k))
  BY DEF Present, FileOf, Valid
<1>3. \A k : FileOf(k)' = FileOf(k) /\ (Valid(k)' <=> Valid(k))
  BY DEF FileOf, Valid
<1> QED
  BY <1>1, <1>2, <1>3 DEF ScanCovers, Unseen, KeysOf

(* A shard is read: its key waits among the names, when it names something. *)
LEMMA ListedScan ==
  ASSUME NEW s \in Scan, NEW t, NEW k \in s.shards, ScanShape(s, "list"),
         t.shards = s.shards \ {k}, t.listed = s.listed, t.candidates = s.candidates,
         t.names \cap Keys = IF entry[k].value = Absent THEN {} ELSE {k}
  PROVE  ScanShape(t, "visit") /\ (ScanCovers(s, "list") => ScanCovers(t, "visit"))
<1> USE ScanFields
<1>1. s.names = {} /\ s.listed = {} /\ KeysOf(s.listed) = {}
  BY DEF ScanShape, KeysOf
<1>2. Unseen(s) = s.shards /\ Unseen(t) = t.shards \cup (t.names \cap Keys)
  BY <1>1 DEF Unseen
<1>3. Unseen(t) \subseteq Unseen(s) /\ Present \cap Unseen(s) \subseteq Unseen(t)
  BY <1>2 DEF Present
<1>4. ScanShape(t, "visit")
  BY <1>1, <1>3 DEF ScanShape
<1>5. ScanCovers(s, "list") => ScanCovers(t, "visit")
  BY <1>1, <1>3 DEF ScanCovers
<1> QED
  BY <1>4, <1>5

(* A name is looked at that is no key, or one that names nothing any more. *)
LEMMA PassedScan ==
  ASSUME NEW s \in Scan, NEW t, ScanShape(s, "visit"), NEW to \in {"visit", "list"},
         t.shards = s.shards, t.listed = s.listed, t.candidates = s.candidates,
         t.names \subseteq s.names, to = "list" => t.names = {},
         \A k \in (s.names \ t.names) \cap Keys : entry[k].value = Absent
  PROVE  ScanShape(t, to) /\ (ScanCovers(s, "visit") => ScanCovers(t, to))
<1> USE ScanFields
<1>1. s.listed = {} /\ KeysOf(s.listed) = {}
  BY DEF ScanShape, KeysOf
<1>2. Unseen(t) \subseteq Unseen(s) /\ Present \cap Unseen(s) \subseteq Unseen(t)
  BY DEF Unseen, Present
<1>3. ScanShape(t, to)
  BY <1>1, <1>2 DEF ScanShape
<1>4. ScanCovers(s, "visit") => ScanCovers(t, to)
  BY <1>1, <1>2 DEF ScanCovers
<1> QED
  BY <1>3, <1>4

(* The entry of the shard is read, to be verified. *)
LEMMA FoundScan ==
  ASSUME NEW s \in Scan, NEW t, NEW k \in s.names \cap Keys, ScanShape(s, "visit"),
         t.shards = s.shards, t.names = {}, t.listed = {FileOf(k)}, t.candidates = s.candidates
  PROVE  ScanShape(t, "verify") /\ (ScanCovers(s, "visit") => ScanCovers(t, "verify"))
<1> USE ScanFields
<1>1. s.names \cap Keys = {k} /\ s.listed = {} /\ KeysOf(s.listed) = {}
  BY DEF ScanShape, KeysOf
<1>2. FileOf(k).key = k /\ KeysOf(t.listed) = {k}
  BY DEF FileOf, KeysOf
<1>3. Unseen(t) = Unseen(s)
  BY <1>1, <1>2 DEF Unseen
<1>4. ScanShape(t, "verify")
  BY <1>1, <1>2, <1>3 DEF ScanShape
<1>5. ScanCovers(s, "visit") => ScanCovers(t, "verify")
  BY <1>2, <1>3 DEF ScanCovers
<1> QED
  BY <1>4, <1>5

(* A valid entry is a candidate. *)
LEMMA VerifiedScan ==
  ASSUME NEW s \in Scan, NEW t, NEW c \in s.listed, ScanShape(s, "verify"), Valid(c.key),
         t.shards = s.shards, t.names = s.names, t.listed = {},
         t.candidates = s.candidates \cup {c}
  PROVE  ScanShape(t, "list") /\ (ScanCovers(s, "verify") => ScanCovers(t, "list"))
<1> USE ScanFields
<1>1. s.names = {} /\ s.listed = {c} /\ KeysOf(s.listed) = {c.key} /\ KeysOf(t.listed) = {}
  BY DEF ScanShape, KeysOf
<1>2. Unseen(s) = s.shards \cup {c.key} /\ Unseen(t) = s.shards
  BY <1>1 DEF Unseen
<1>3. c.key \notin s.shards /\ c.key \in Unseen(s)
  BY <1>1, <1>2 DEF ScanShape
<1>4. ScanShape(t, "list")
  <2>1. IsFiniteSet(t.candidates)
    BY FS_AddElement DEF ScanShape
  <2>2. \A d \in s.candidates : d.key \notin Unseen(s)
    BY DEF ScanShape, KeysOf
  <2>3. \A d, e \in t.candidates : d.key = e.key => d = e
    BY <1>3, <2>2 DEF ScanShape
  <2>4. \A d \in t.candidates : d.key \notin Unseen(t)
    BY <1>2, <1>3, <2>2
  <2> QED
    BY <1>1, <2>1, <2>3, <2>4 DEF ScanShape, KeysOf
<1>5. ASSUME ScanCovers(s, "verify") PROVE ScanCovers(t, "list")
  <2>1. ASSUME NEW k \in Present \ Unseen(t) PROVE Valid(k) /\ FileOf(k) \in t.candidates
    <3>1. CASE k = c.key
      BY <1>5, <3>1 DEF ScanCovers
    <3>2. CASE k # c.key
      BY <1>2, <1>5, <3>2 DEF ScanCovers
    <3> QED
      BY <3>1, <3>2
  <2> QED
    BY <2>1 DEF ScanCovers
<1> QED
  BY <1>4, <1>5

(* An entry that does not verify is to be removed; the last shard has been read. *)
LEMMA SameScan ==
  ASSUME NEW s \in Scan, NEW from, NEW to, ScanShape(s, from),
         \/ from = "verify" /\ to = "discard" /\ \A c \in s.listed : ~Valid(c.key)
         \/ from = "list" /\ to = "evict" /\ s.shards = {}
  PROVE  ScanShape(s, to) /\ (ScanCovers(s, from) => ScanCovers(s, to))
BY DEF ScanShape, ScanCovers

(* A step of a prune that removes the entry of a key. *)
LEMMA ScanRemoves ==
  ASSUME TypeOK, NEW p \in Procs, ScanHolds(p), Scanning(p), task' = task, Observe,
         NEW k \in Keys, Unlink(k), NEW t, t = scan'[p], NEW to, to = pc'[p],
         ScanShape(t, to), to # "discard",
         ScanCovers(scan[p], pc[p]) =>
           /\ \A j \in Present \ (Unseen(t) \cup {k}) : Valid(j) /\ FileOf(j) \in t.candidates
           /\ \A c \in t.listed : c.key \in Present \ {k} => c = FileOf(c.key)
  PROVE  ScanHolds(p)'
<1> SUFFICES ASSUME Scanning(p)', p \notin raced' PROVE ScanCovers(t, to)'
  <2>1. ScanShape(t, to)'
    OBVIOUS
  <2> QED
    BY <2>1 DEF ScanHolds
<1>1. /\ p \notin raced
      /\ \A j \in Keys : entry'[j] = entry[j] \/ entry'[j].value = Absent
  BY Unraced
<1>2. Present' \subseteq Present \ {k}
  <2>1. entry'[k].value = Absent
    BY DEF Unlink, SetEntry, TypeOK
  <2> QED
    BY <1>1, <2>1, LeftSame DEF Present
<1>3. \A j \in Present' : FileOf(j)' = FileOf(j) /\ (Valid(j)' <=> Valid(j))
  BY <1>1, LeftSame
<1>4. ScanCovers(scan[p], pc[p])
  BY <1>1 DEF ScanHolds
<1>5. Unseen(t)' = Unseen(t)
  BY DEF Unseen, KeysOf
<1>6. \A j \in Present' \ Unseen(t)' : Valid(j)' /\ FileOf(j)' \in t.candidates
  BY <1>2, <1>3, <1>4, <1>5
<1>7. \A c \in t.listed : c.key \in Present' => c = FileOf(c.key)'
  BY <1>2, <1>3, <1>4
<1> QED
  BY <1>6, <1>7 DEF ScanCovers

(* The entry that did not verify is removed. *)
LEMMA DiscardedScan ==
  ASSUME NEW s \in Scan, NEW t, NEW c \in s.listed, ScanShape(s, "discard"),
         t.shards = s.shards, t.names = s.names, t.listed = {}, t.candidates = s.candidates
  PROVE  /\ ScanShape(t, "list")
         /\ ScanCovers(s, "discard") =>
              \A j \in Present \ (Unseen(t) \cup {c.key}) : Valid(j) /\ FileOf(j) \in t.candidates
<1> USE ScanFields
<1>1. s.names = {} /\ KeysOf(s.listed) = {c.key} /\ KeysOf(t.listed) = {}
  BY DEF ScanShape, KeysOf
<1>2. Unseen(s) = s.shards \cup {c.key} /\ Unseen(t) = s.shards
  BY <1>1 DEF Unseen
<1>3. ScanShape(t, "list")
  BY <1>1, <1>2 DEF ScanShape
<1>4. ScanCovers(s, "discard") =>
        \A j \in Present \ (Unseen(t) \cup {c.key}) : Valid(j) /\ FileOf(j) \in t.candidates
  BY <1>2 DEF ScanCovers
<1> QED
  BY <1>3, <1>4

(* A candidate is evicted. *)
LEMMA EvictedScan ==
  ASSUME NEW s \in Scan, NEW t, NEW c \in s.candidates, ScanShape(s, "evict"),
         t.shards = s.shards, t.names = s.names, t.listed = s.listed,
         t.candidates = s.candidates \ {c}
  PROVE  /\ ScanShape(t, "evict")
         /\ ScanCovers(s, "evict") =>
              \A j \in Present \ (Unseen(t) \cup {c.key}) : Valid(j) /\ FileOf(j) \in t.candidates
<1> USE ScanFields
<1>1. Unseen(s) = {} /\ Unseen(t) = {}
  BY DEF ScanShape, Unseen, KeysOf
<1>2. IsFiniteSet(t.candidates)
  BY FS_RemoveElement DEF ScanShape
<1>3. ScanShape(t, "evict")
  BY <1>1, <1>2 DEF ScanShape
<1>4. ASSUME ScanCovers(s, "evict"), NEW j \in Present \ {c.key}
      PROVE  Valid(j) /\ FileOf(j) \in t.candidates
  <2>1. Valid(j) /\ FileOf(j) \in s.candidates
    BY <1>1, <1>4 DEF ScanCovers
  <2>2. FileOf(j).key = j
    BY DEF FileOf
  <2> QED
    BY <1>4, <2>1, <2>2
<1> QED
  BY <1>3, <1>4

(* One of the files is older than all others. *)
LEMMA OldestIn ==
  ASSUME NEW files, files \subseteq Candidate, files # {},
         \A c, d \in files : c.key = d.key => c = d
  PROVE  /\ OldestOf(files) \in files
         /\ \A d \in files \ {OldestOf(files)} : Older(OldestOf(files), d)
<1> DEFINE ages == {c.at : c \in files}
<1>1. \A c \in files : c.at \in Nat /\ c.key \in Nat
  BY KeysAssumption DEF Candidate
<1>2. PICK age \in ages : \A m \in ages : age <= m
  <2>1. ages \subseteq Nat /\ ages # {}
    BY <1>1
  <2> HIDE DEF ages
  <2> QED
    BY <2>1, LeastNumber
<1> DEFINE keys == {c.key : c \in {d \in files : d.at = age}}
<1>3. PICK key \in keys : \A m \in keys : key <= m
  <2>1. keys \subseteq Nat /\ keys # {}
    BY <1>1, <1>2
  <2> HIDE DEF keys
  <2> QED
    BY <2>1, LeastNumber
<1>4. PICK c \in files : c.at = age /\ c.key = key
  BY <1>3
<1>5. ASSUME NEW d \in files \ {c} PROVE Older(c, d)
  <2>1. c.at <= d.at /\ c.at \in Nat /\ d.at \in Nat /\ c.key \in Nat /\ d.key \in Nat
    BY <1>1, <1>2, <1>4
  <2>2. CASE c.at = d.at
    <3>1. c.key <= d.key /\ c.key # d.key
      BY <1>3, <1>4, <2>2
    <3> QED
      BY <2>1, <2>2, <3>1 DEF Older
  <2>3. CASE c.at # d.at
    BY <2>1, <2>3 DEF Older
  <2> QED
    BY <2>2, <2>3
<1>6. \E x \in files : \A d \in files \ {x} : Older(x, d)
  BY <1>5
<1> QED
  BY <1>6, Zenon DEF OldestOf

(* A limit is not exceeded by no file; what is evicted is a candidate. *)
LEMMA EvictsOldest ==
  ASSUME NEW s \in Scan, NEW at, ScanShape(s, at), TooMany(s.candidates)
  PROVE  /\ OldestOf(s.candidates) \in s.candidates /\ OldestOf(s.candidates).key \in Keys
         /\ \A d \in s.candidates \ {OldestOf(s.candidates)} : Older(OldestOf(s.candidates), d)
<1>1. s.candidates # {}
  <2>1. SUFFICES ASSUME s.candidates = {} PROVE FALSE
    OBVIOUS
  <2>2. Cardinality(s.candidates) = 0 /\ Bytes(s.candidates) = 0
    BY <2>1, FS_EmptySet, BytesAdds
  <2>3. MaxEntries \in Nat /\ MaxBytes \in Nat
    BY LimitsAssumption
  <2> QED
    BY <2>2, <2>3 DEF TooMany, LimitExceeded
<1>2. \A c, d \in s.candidates : c.key = d.key => c = d
  BY DEF ScanShape
<1>3. /\ OldestOf(s.candidates) \in s.candidates
      /\ \A d \in s.candidates \ {OldestOf(s.candidates)} : Older(OldestOf(s.candidates), d)
  BY <1>1, <1>2, ScanFields, OldestIn
<1> QED
  BY <1>3, ScanFields DEF Candidate

-----------------------------------------------------------------------------
(* The scan of a goroutine, step by step.                                   *)

(* A prune is at one of its own steps. *)
LEMMA AtPrune ==
  ASSUME CacheInv, NEW p \in Procs, pc[p] \in PruneSteps
  PROVE  Scanning(p) /\ TypeOK /\ scan[p] \in Scan /\ p \in DOMAIN scan
BY DEF CacheInv, Doing, PruneSteps, Scanning, Running, Steps, TypeOK

(* List. *)
LEMMA ListScans ==
  ASSUME CacheInv, NEW p \in Procs, ScanHolds(p), List(p) PROVE ScanHolds(p)'
<1> DEFINE k == LeastKey(scan[p].shards)
           names == Temporaries(k) \cup (IF entry[k].value = Absent THEN {} ELSE {k})
<1>1. /\ pc[p] = "list" /\ Goto(p, "list", "visit") /\ task' = task /\ entry' = entry /\ Observe
      /\ scan' = [scan EXCEPT ![p].shards = @ \ {k}, ![p].names = names] /\ scan[p].shards # {}
  BY DEF List, store
<1>2. Scanning(p) /\ TypeOK /\ scan[p] \in Scan /\ p \in DOMAIN scan
  BY <1>1, AtPrune DEF PruneSteps
<1>3. k \in scan[p].shards /\ scan[p].shards \subseteq Keys
  BY <1>1, <1>2, ScanFields, LeastIn
<1>4. names \cap Keys = IF entry[k].value = Absent THEN {} ELSE {k}
  BY <1>3, DistinctAssumption DEF Temporaries
<1> HIDE DEF k, names
<1>5. pc'[p] = "visit" /\ ScanShape(scan[p], "list")
  BY <1>1, <1>2 DEF Goto, TypeOK, ScanHolds
<1>6. PICK t : t = scan'[p]
  OBVIOUS
<1>7. /\ t.shards = scan[p].shards \ {k} /\ t.names = names
      /\ t.listed = scan[p].listed /\ t.candidates = scan[p].candidates
  BY <1>1, <1>2, <1>6 DEF Scan
<1>8. ScanShape(t, "visit") /\ (ScanCovers(scan[p], "list") => ScanCovers(t, "visit"))
  BY <1>2, <1>3, <1>4, <1>5, <1>7, ListedScan
<1> QED
  BY <1>1, <1>2, <1>5, <1>6, <1>8, ScanLooks

(* VisitTemporary, VisitEntry and NextShard. *)
LEMMA VisitScans ==
  ASSUME CacheInv, NEW p \in Procs, ScanHolds(p), VisitTemporary(p) \/ VisitEntry(p) \/ NextShard(p)
  PROVE  ScanHolds(p)'
<1>1. /\ pc[p] = "visit" /\ task' = task /\ entry' = entry /\ Observe
  BY DEF VisitTemporary, VisitEntry, NextShard, Goto, store
<1>2. Scanning(p) /\ TypeOK /\ scan[p] \in Scan /\ p \in DOMAIN scan
  BY <1>1, AtPrune DEF PruneSteps
<1>3. ScanShape(scan[p], "visit") /\ pc[p] = "visit"
  BY <1>1, <1>2 DEF ScanHolds
<1>4. PICK t, to : t = scan'[p] /\ to = pc'[p]
  OBVIOUS
<1>5. SUFFICES ScanShape(t, to) /\ (ScanCovers(scan[p], "visit") => ScanCovers(t, to))
  BY <1>1, <1>2, <1>4, ScanLooks
<1>6. CASE VisitTemporary(p)
  <2>1. PICK q \in scan[p].names \cap Procs : scan' = [scan EXCEPT ![p].names = @ \ {q}]
    BY <1>6 DEF VisitTemporary
  <2>2. /\ t.shards = scan[p].shards /\ t.names = scan[p].names \ {q}
        /\ t.listed = scan[p].listed /\ t.candidates = scan[p].candidates
    BY <1>2, <1>4, <2>1 DEF Scan
  <2>3. to = "visit" /\ q \notin Keys
    BY <1>1, <1>4, <1>6, DistinctAssumption DEF VisitTemporary
  <2> QED
    BY <1>2, <1>3, <2>2, <2>3, PassedScan
<1>7. CASE NextShard(p)
  <2>1. t = scan[p] /\ to = "list" /\ scan[p].names = {}
    BY <1>2, <1>4, <1>7 DEF NextShard, Goto, TypeOK
  <2> QED
    BY <1>2, <1>3, <2>1, PassedScan
<1>8. CASE VisitEntry(p)
  <2>1. PICK k \in scan[p].names :
          \/ /\ entry[k].value = Absent
             /\ Goto(p, "visit", "list")
             /\ scan' = [scan EXCEPT ![p].names = {}]
          \/ /\ entry[k].value # Absent
             /\ Goto(p, "visit", "verify")
             /\ scan' = [scan EXCEPT ![p].names = {}, ![p].listed = {FileOf(k)}]
    BY <1>8 DEF VisitEntry, FileOf
  <2>2. k \in Keys
    BY <1>2, <1>8, <2>1, ScanFields DEF VisitEntry
  <2>3. CASE /\ entry[k].value = Absent
             /\ Goto(p, "visit", "list")
             /\ scan' = [scan EXCEPT ![p].names = {}]
    <3>1. /\ t.shards = scan[p].shards /\ t.names = {} /\ to = "list"
          /\ t.listed = scan[p].listed /\ t.candidates = scan[p].candidates
      BY <1>2, <1>4, <2>3 DEF Scan, Goto, TypeOK
    <3>2. \A j \in scan[p].names \cap Keys : entry[j].value = Absent
      BY <1>3, <2>2, <2>3 DEF ScanShape
    <3> QED
      BY <1>2, <1>3, <3>1, <3>2, PassedScan
  <2>4. CASE /\ entry[k].value # Absent
             /\ Goto(p, "visit", "verify")
             /\ scan' = [scan EXCEPT ![p].names = {}, ![p].listed = {FileOf(k)}]
    <3>1. /\ t.shards = scan[p].shards /\ t.names = {} /\ to = "verify"
          /\ t.listed = {FileOf(k)} /\ t.candidates = scan[p].candidates
      BY <1>2, <1>4, <2>4 DEF Scan, Goto, TypeOK
    <3> QED
      BY <1>2, <1>3, <2>2, <3>1, FoundScan
  <2> QED
    BY <2>1, <2>3, <2>4
<1> QED
  BY <1>6, <1>7, <1>8

(* Verify and Scanned. *)
LEMMA VerifyScans ==
  ASSUME CacheInv, NEW p \in Procs, ScanHolds(p), Verify(p) \/ Scanned(p) PROVE ScanHolds(p)'
<1>1. pc[p] \in {"verify", "list"} /\ task' = task /\ entry' = entry /\ Observe
  BY DEF Verify, Scanned, Goto, store
<1>2. Scanning(p) /\ TypeOK /\ scan[p] \in Scan /\ p \in DOMAIN scan
  BY <1>1, AtPrune DEF PruneSteps
<1>3. ScanShape(scan[p], pc[p])
  BY <1>2 DEF ScanHolds
<1>4. PICK t, to : t = scan'[p] /\ to = pc'[p]
  OBVIOUS
<1>5. SUFFICES ScanShape(t, to) /\ (ScanCovers(scan[p], pc[p]) => ScanCovers(t, to))
  BY <1>1, <1>2, <1>4, ScanLooks
<1>6. CASE Scanned(p)
  <2>1. t = scan[p] /\ pc[p] = "list" /\ to = "evict" /\ scan[p].shards = {}
    BY <1>2, <1>4, <1>6 DEF Scanned, Goto, TypeOK
  <2> QED
    BY <1>2, <1>3, <2>1, SameScan
<1>7. CASE Verify(p)
  <2>1. PICK c \in scan[p].listed :
          \/ /\ Valid(c.key)
             /\ Goto(p, "verify", "list")
             /\ scan' = [scan EXCEPT ![p].candidates = @ \cup {c}, ![p].listed = {}]
          \/ /\ ~Valid(c.key)
             /\ Goto(p, "verify", "discard")
             /\ UNCHANGED scan
    BY <1>7 DEF Verify
  <2>2. CASE /\ Valid(c.key)
             /\ Goto(p, "verify", "list")
             /\ scan' = [scan EXCEPT ![p].candidates = @ \cup {c}, ![p].listed = {}]
    <3>1. /\ t.shards = scan[p].shards /\ t.names = scan[p].names /\ t.listed = {}
          /\ t.candidates = scan[p].candidates \cup {c} /\ to = "list" /\ pc[p] = "verify"
      BY <1>2, <1>4, <2>2 DEF Scan, Goto, TypeOK
    <3> QED
      BY <1>2, <1>3, <2>2, <3>1, VerifiedScan
  <2>3. CASE ~Valid(c.key) /\ Goto(p, "verify", "discard") /\ UNCHANGED scan
    <3>1. t = scan[p] /\ to = "discard" /\ pc[p] = "verify"
      BY <1>2, <1>4, <2>3 DEF Goto, TypeOK
    <3>2. \A d \in scan[p].listed : ~Valid(d.key)
      BY <1>3, <2>1, <2>3 DEF ScanShape
    <3> QED
      BY <1>2, <1>3, <3>1, <3>2, SameScan
  <2> QED
    BY <2>1, <2>2, <2>3
<1> QED
  BY <1>6, <1>7

(* Discard. *)
LEMMA DiscardScans ==
  ASSUME CacheInv, NEW p \in Procs, ScanHolds(p), Discard(p) PROVE ScanHolds(p)'
<1>1. pc[p] = "discard" /\ Goto(p, "discard", "list") /\ task' = task /\ Observe
  BY DEF Discard, Goto
<1>2. Scanning(p) /\ TypeOK /\ scan[p] \in Scan /\ p \in DOMAIN scan
  BY <1>1, AtPrune DEF PruneSteps
<1>3. ScanShape(scan[p], "discard") /\ pc'[p] = "list"
  BY <1>1, <1>2 DEF ScanHolds, Goto, TypeOK
<1>4. PICK c \in scan[p].listed : Unlink(c.key) /\ scan' = [scan EXCEPT ![p].listed = {}]
  BY DEF Discard
<1>5. c.key \in Keys
  BY <1>2, <1>4, ScanFields DEF Candidate
<1>6. PICK t : t = scan'[p]
  OBVIOUS
<1>7. /\ t.shards = scan[p].shards /\ t.names = scan[p].names
      /\ t.listed = {} /\ t.candidates = scan[p].candidates
  BY <1>2, <1>4, <1>6 DEF Scan
<1>8. /\ ScanShape(t, "list")
      /\ ScanCovers(scan[p], "discard") =>
           \A j \in Present \ (Unseen(t) \cup {c.key}) : Valid(j) /\ FileOf(j) \in t.candidates
  BY <1>2, <1>3, <1>7, DiscardedScan
<1> QED
  BY <1>1, <1>2, <1>3, <1>4, <1>5, <1>6, <1>7, <1>8, ScanRemoves

(* Evict. *)
LEMMA EvictScans ==
  ASSUME CacheInv, NEW p \in Procs, ScanHolds(p), Evict(p) PROVE ScanHolds(p)'
<1> DEFINE c == OldestOf(scan[p].candidates)
<1>1. /\ pc[p] = "evict" /\ pc' = pc /\ task' = task /\ Observe /\ Unlink(c.key)
      /\ scan' = [scan EXCEPT ![p].candidates = @ \ {c}] /\ TooMany(scan[p].candidates)
  BY DEF Evict
<1>2. Scanning(p) /\ TypeOK /\ scan[p] \in Scan /\ p \in DOMAIN scan
  BY <1>1, AtPrune DEF PruneSteps
<1>3. ScanShape(scan[p], "evict") /\ pc'[p] = "evict"
  BY <1>1, <1>2 DEF ScanHolds
<1>4. c \in scan[p].candidates /\ c.key \in Keys
  BY <1>1, <1>2, <1>3, EvictsOldest
<1> HIDE DEF c
<1>5. PICK t : t = scan'[p]
  OBVIOUS
<1>6. /\ t.shards = scan[p].shards /\ t.names = scan[p].names
      /\ t.listed = scan[p].listed /\ t.candidates = scan[p].candidates \ {c}
  BY <1>1, <1>2, <1>5 DEF Scan
<1>7. /\ ScanShape(t, "evict")
      /\ ScanCovers(scan[p], "evict") =>
           \A j \in Present \ (Unseen(t) \cup {c.key}) : Valid(j) /\ FileOf(j) \in t.candidates
  BY <1>2, <1>3, <1>4, <1>6, EvictedScan
<1>8. t.listed = {}
  BY <1>3, <1>6 DEF ScanShape
<1> QED
  BY <1>1, <1>2, <1>3, <1>4, <1>5, <1>7, <1>8, ScanRemoves

-----------------------------------------------------------------------------
(* What a prune has listed is an invariant.                                 *)

(* A step of p as the scans of the others see it. *)
LEMMA ScansApart ==
  ASSUME CacheInv, NEW p \in Procs, Operation(p)
  PROVE  /\ task' = task /\ Observe
         /\ \A q \in Procs \ {p} : pc'[q] = pc[q] /\ scan'[q] = scan[q]
<1>1. TypeOK
  BY DEF CacheInv
<1>2. CASE Begin(p) \/ Close(p) \/ CallFails(p)
  BY <1>1, <1>2 DEF Begin, Close, CallFails, Goto, Return, TypeOK
<1>3. CASE GetOrPut(p)
  BY <1>1, <1>3
  DEF GetOrPut, Load, Repair, WriteTemporary, Link, Reload, Cleanup, Goto, Return, TypeOK
<1>4. CASE Prune(p)
  BY <1>1, <1>4
  DEF Prune, List, VisitTemporary, VisitEntry, NextShard, Verify, Discard, Scanned, Evict, Pruned,
      Goto, Return, TypeOK
<1> QED
  BY <1>2, <1>3, <1>4 DEF Operation

(* A prune begins with every shard before it. *)
LEMMA BeginScans ==
  ASSUME CacheInv, NEW p \in Procs, ScanHolds(p), Begin(p) PROVE ScanHolds(p)'
<1>1. TypeOK /\ TempOwn(p) /\ pc[p] = "idle" /\ task' = task /\ Observe
  BY DEF CacheInv, Begin
<1>2. CASE /\ task[p].op = "prune" /\ Goto(p, "idle", "list")
           /\ \E c \in {0, clock} :
                scan' = [scan EXCEPT ![p] = [NoScan EXCEPT !.cutoff = c, !.shards = Keys]]
  <2>1. PICK c : scan' = [scan EXCEPT ![p] = [NoScan EXCEPT !.cutoff = c, !.shards = Keys]]
    BY <1>2
  <2>2. PICK t : t = scan'[p]
    OBVIOUS
  <2>3. t.shards = Keys /\ t.names = {} /\ t.listed = {} /\ t.candidates = {}
    BY <1>1, <2>1, <2>2 DEF NoScan, TypeOK
  <2>4. Unseen(t) = Keys /\ KeysOf(t.listed) = {} /\ KeysOf(t.candidates) = {}
    BY <2>3 DEF Unseen, KeysOf
  <2>5. ScanShape(t, "list")
    BY <2>3, <2>4, FS_EmptySet DEF ScanShape
  <2>6. ScanCovers(t, "list")'
    BY <2>3, <2>4 DEF ScanCovers, Present, Unseen, KeysOf
  <2>7. pc'[p] = "list"
    BY <1>1, <1>2 DEF Goto, TypeOK
  <2> QED
    BY <2>2, <2>5, <2>6, <2>7 DEF ScanHolds
<1>3. CASE ~Scanning(p)'
  BY <1>3 DEF ScanHolds
<1>4. CASE Return(p, "idle", "failed")
  <2>1. pc'[p] = "returned"
    BY <1>1, <1>4 DEF Return, TempOwn, TypeOK
  <2> QED
    BY <1>3, <2>1 DEF Scanning, Running, Steps
<1>5. CASE task[p].op # "prune"
  BY <1>1, <1>3, <1>5 DEF Scanning
<1> QED
  BY <1>2, <1>4, <1>5 DEF Begin

(* A prune has no temporary: when it returns, it scans no more. *)
LEMMA ReturnEnds ==
  ASSUME CacheInv, NEW p \in Procs, NEW from, NEW outcome, Return(p, from, outcome), task' = task
  PROVE  ~Scanning(p)'
<1>1. TypeOK /\ TempOwn(p)
  BY DEF CacheInv
<1>2. CASE temp[p] = NoTemporary
  <2>1. pc'[p] = "returned"
    BY <1>1, <1>2 DEF Return, TypeOK
  <2> QED
    BY <2>1 DEF Scanning, Running, Steps
<1>3. CASE temp[p] # NoTemporary
  BY <1>1, <1>3 DEF TempOwn, Scanning
<1> QED
  BY <1>2, <1>3

(* Every step of an operation keeps what holds of its own scan. *)
LEMMA OperationScans ==
  ASSUME CacheInv, NEW p \in Procs, ScanHolds(p), Operation(p) PROVE ScanHolds(p)'
<1>1. TypeOK /\ Doing(p) /\ task' = task
  BY ScansApart DEF CacheInv
<1>2. CASE ~Scanning(p)'
  BY <1>2 DEF ScanHolds
<1>3. CASE Close(p)
  BY <1>1, <1>2, <1>3, ReturnEnds DEF Close
<1>4. CASE GetOrPut(p)
  <2>1. task[p].op # "prune"
    BY <1>1, <1>4
    DEF GetOrPut, Load, Repair, WriteTemporary, Link, Reload, Cleanup, Goto, Return, Doing
  <2> QED
    BY <1>1, <1>2, <2>1 DEF Scanning
<1>5. CASE Prune(p)
  <2>1. CASE Pruned(p)
    BY <1>1, <1>2, <2>1, ReturnEnds DEF Pruned
  <2> QED
    BY <1>5, <2>1, ListScans, VisitScans, VerifyScans, DiscardScans, EvictScans DEF Prune
<1>6. CASE CallFails(p)
  <2>1. CASE \E from : Return(p, from, "failed")
    BY <1>1, <1>2, <2>1, ReturnEnds
  <2>2. CASE Goto(p, "link", "reload")
    BY <1>1, <1>2, <2>2 DEF Goto, Doing, Scanning
  <2> QED
    BY <1>6, <2>1, <2>2 DEF CallFails
<1> QED
  BY <1>3, <1>4, <1>5, <1>6, BeginScans DEF Operation

(* A killed process scans no more; a spoiled entry races all who scan. *)
LEMMA KillScans ==
  ASSUME CacheInv, NEW s \in Stores, Kill(s), NEW p \in Procs, ScanHolds(p) PROVE ScanHolds(p)'
<1>1. TypeOK /\ task' = task /\ Observe
  BY DEF CacheInv, Kill
<1>2. ASSUME Scanning(p)' PROVE Scanning(p) /\ pc'[p] = pc[p] /\ scan'[p] = scan[p]
  BY <1>1, <1>2 DEF Kill, Scanning, Running, Steps, TypeOK
<1> QED
  BY <1>1, <1>2, ScanStays

(* Every step keeps what holds of every scan. *)
LEMMA NextScans == CacheInv /\ ScanInv /\ [Next]_vars => ScanInv'
<1> SUFFICES ASSUME CacheInv, ScanInv, [Next]_vars, NEW p \in Procs PROVE ScanHolds(p)'
  BY DEF ScanInv
<1>1. TypeOK /\ ScanHolds(p)
  BY DEF CacheInv, ScanInv
<1>2. ASSUME NEW q \in Procs, Operation(q) PROVE ScanHolds(p)'
  <2>1. CASE p = q
    BY <1>1, <1>2, <2>1, OperationScans
  <2>2. CASE p # q
    <3>1. task' = task /\ Observe /\ pc'[p] = pc[p] /\ scan'[p] = scan[p]
      BY <1>2, <2>2, ScansApart
    <3>2. Scanning(p)' => Scanning(p)
      BY <3>1 DEF Scanning, Running
    <3> QED
      BY <1>1, <3>1, <3>2, ScanStays
  <2> QED
    BY <2>1, <2>2
<1>3. ASSUME NEW k \in Keys, Spoil(k) PROVE ScanHolds(p)'
  <2>1. task' = task /\ Observe /\ pc' = pc /\ scan' = scan
    BY <1>3 DEF Spoil
  <2>2. Scanning(p)' => Scanning(p)
    BY <2>1 DEF Scanning, Running
  <2> QED
    BY <1>1, <2>1, <2>2, ScanStays
<1>4. CASE UNCHANGED vars
  <2>1. entry' = entry /\ task' = task /\ pc' = pc /\ scan' = scan /\ raced' = raced
    BY <1>4 DEF vars, store, history
  <2> QED
    BY <1>1, <2>1
    DEF ScanHolds, Scanning, Running, ScanShape, ScanCovers, Unseen, KeysOf, Present, FileOf, Valid
<1> QED
  BY <1>1, <1>2, <1>3, <1>4, KillScans DEF Next

(* Nobody scans yet. *)
LEMMA InitScans == Init => ScanInv
BY DEF Init, ScanInv, ScanHolds, Scanning, Running, Steps

(* What a prune that nothing has raced holds in its locals is what the directory holds, *)
(* except for the shards it has yet to read.                                            *)
THEOREM ScanInvariant == Spec => []ScanInv
BY InitScans, NextScans, CacheInvariant, PTL DEF Spec

-----------------------------------------------------------------------------
(* What a prune evicts and what it leaves.                                  *)

(* The files of the directory, one of each key that names something. *)
LEMMA FilesAre == Files = {FileOf(k) : k \in Present}
BY DEF Files, FileOf, Present

(* Once all shards are read, the candidates are the directory. *)
LEMMA ScannedAll ==
  ASSUME CacheInv, ScanInv, NEW p \in Procs \ raced, pc[p] = "evict"
  PROVE  /\ scan[p] \in Scan /\ ScanShape(scan[p], "evict") /\ Files \subseteq scan[p].candidates
         /\ \A k \in Present : Valid(k)
<1>1. Scanning(p) /\ scan[p] \in Scan
  BY AtPrune DEF PruneSteps
<1>2. ScanShape(scan[p], "evict") /\ ScanCovers(scan[p], "evict")
  BY <1>1 DEF ScanInv, ScanHolds
<1>3. Unseen(scan[p]) = {}
  BY <1>2 DEF ScanShape, Unseen, KeysOf
<1> QED
  BY <1>1, <1>2, <1>3, FilesAre DEF ScanCovers

(* Only an eviction takes a candidate away and changes the directory. *)
LEMMA CandidatesChange ==
  ASSUME CacheInv, [Next]_vars, NEW p \in Procs, pc[p] = "evict",
         scan'[p].candidates # scan[p].candidates
  PROVE  Evict(p) \/ entry' = entry
<1>1. ASSUME NEW q \in Procs, Operation(q) PROVE Evict(p) \/ entry' = entry
  <2>1. p = q
    BY <1>1, ScansApart
  <2>2. CASE Begin(p) \/ Close(p) \/ CallFails(p)
    BY <2>2 DEF Begin, Close, CallFails, store
  <2>3. CASE GetOrPut(p)
    BY <2>3
    DEF GetOrPut, Load, Repair, WriteTemporary, Link, Reload, Cleanup, Goto, Return
  <2>4. CASE Prune(p)
    BY <2>4
    DEF Prune, List, VisitTemporary, VisitEntry, NextShard, Verify, Discard, Scanned, Pruned,
        Goto, store
  <2> QED
    BY <1>1, <2>1, <2>2, <2>3, <2>4 DEF Operation
<1>2. ASSUME NEW s \in Stores, Kill(s) PROVE entry' = entry
  BY <1>2 DEF Kill, store
<1>3. ASSUME NEW k \in Keys, Spoil(k) PROVE FALSE
  BY <1>3 DEF Spoil
<1>4. CASE UNCHANGED vars
  BY <1>4 DEF vars, store
<1> QED
  BY <1>1, <1>2, <1>3, <1>4 DEF Next

(* What an eviction removes is older than what it leaves. *)
LEMMA EvictsOlder ==
  ASSUME CacheInv, ScanInv, NEW p \in Procs \ raced, Evict(p)
  PROVE  \A c \in Files \ Files', d \in Files' : Older(c, d)
<1> DEFINE oldest == OldestOf(scan[p].candidates)
<1>1. pc[p] = "evict" /\ TooMany(scan[p].candidates) /\ Unlink(oldest.key)
  BY DEF Evict
<1>2. /\ scan[p] \in Scan /\ ScanShape(scan[p], "evict") /\ Files \subseteq scan[p].candidates
  BY <1>1, ScannedAll
<1>3. /\ oldest \in scan[p].candidates /\ oldest.key \in Keys
      /\ \A d \in scan[p].candidates \ {oldest} : Older(oldest, d)
  BY <1>1, <1>2, EvictsOldest
<1> HIDE DEF oldest
<1>4. /\ \A k \in Keys \ {oldest.key} : entry'[k] = entry[k]
      /\ entry'[oldest.key].value = Absent
  BY <1>1, <1>3 DEF Unlink, SetEntry, CacheInv, TypeOK
<1>5. \A k \in Keys \ {oldest.key} : FileOf(k)' = FileOf(k) /\ (k \in Present' <=> k \in Present)
  BY <1>4 DEF FileOf, Present
<1>6. oldest.key \notin Present' /\ Present \subseteq Keys /\ Present' \subseteq Keys
  BY <1>4 DEF Present
<1>7. \A k : FileOf(k).key = k
  BY DEF FileOf
<1>8. ASSUME NEW c \in Files \ Files' PROVE c = oldest
  <2>1. PICK k \in Present : c = FileOf(k)
    BY FilesAre
  <2>2. k = oldest.key
    <3>1. Files' = {FileOf(j)' : j \in Present'}
      BY DEF Files, FileOf, Present
    <3> QED
      BY <1>5, <1>6, <2>1, <3>1
  <2>3. c \in scan[p].candidates /\ c.key = oldest.key
    BY <1>2, <1>7, <2>1, <2>2
  <2> QED
    BY <1>2, <1>3, <2>3 DEF ScanShape
<1>9. ASSUME NEW d \in Files' PROVE d \in scan[p].candidates \ {oldest}
  <2>1. Files' = {FileOf(j)' : j \in Present'}
    BY DEF Files, FileOf, Present
  <2>2. PICK k \in Present' : d = FileOf(k)'
    BY <2>1
  <2>3. k # oldest.key /\ k \in Present /\ d = FileOf(k)
    BY <1>5, <1>6, <2>2
  <2>4. d \in scan[p].candidates /\ d.key # oldest.key
    BY <1>2, <1>7, <2>3, FilesAre
  <2> QED
    BY <2>4
<1> QED
  BY <1>3, <1>8, <1>9

(* Only the end of a prune reports that. *)
LEMMA ReportsPruned ==
  ASSUME CacheInv, [Next]_vars, NEW p \in Procs, Reports(p, "pruned")
  PROVE  pc[p] = "evict" /\ ~TooMany(scan[p].candidates)
<1>1. TypeOK /\ result'[p] = "pruned" /\ result'[p] # result[p]
  BY DEF CacheInv, Reports
<1>2. ASSUME NEW from, NEW outcome, NEW q \in Procs, Return(q, from, outcome), outcome # "pruned"
      PROVE  FALSE
  BY <1>1, <1>2, ReturnTells
<1>3. ASSUME NEW q \in Procs, Operation(q) PROVE Pruned(p)
  <2>1. CASE Begin(q) \/ Close(q) \/ CallFails(q)
    BY <1>1, <1>2, <2>1 DEF Begin, Close, CallFails, Goto
  <2>2. CASE Load(q)
    <3>1. \A value : LoadOutcome(q, value) # "pruned"
      BY DEF LoadOutcome
    <3> QED
      BY <1>1, <1>2, <2>2, <3>1 DEF Load, Goto
  <2>3. CASE Reload(q)
    <3>1. \A value : Rival(q, value) # "pruned"
      BY DEF Rival
    <3> QED
      BY <1>1, <1>2, <2>3, <3>1 DEF Reload
  <2>4. CASE Repair(q) \/ WriteTemporary(q) \/ Link(q) \/ Cleanup(q)
    BY <1>1, <1>2, <2>4 DEF Repair, WriteTemporary, Link, Cleanup, Goto, TypeOK
  <2>5. CASE Prune(q)
    <3>1. CASE Pruned(q)
      <4>1. q = p
        BY <1>1, <3>1, ReturnTells DEF Pruned
      <4> QED
        BY <3>1, <4>1
    <3> QED
      BY <1>1, <2>5, <3>1
      DEF Prune, List, VisitTemporary, VisitEntry, NextShard, Verify, Discard, Scanned, Evict, Goto
  <2> QED
    BY <1>3, <2>1, <2>2, <2>3, <2>4, <2>5 DEF Operation, GetOrPut
<1>4. ASSUME NEW s \in Stores, Kill(s) PROVE FALSE
  BY <1>1, <1>4 DEF Kill
<1>5. ASSUME NEW k \in Keys, Spoil(k) PROVE FALSE
  BY <1>1, <1>5 DEF Spoil
<1>6. ~UNCHANGED vars
  BY <1>1 DEF vars
<1>7. Pruned(p)
  BY <1>3, <1>4, <1>5, <1>6 DEF Next
<1> QED
  BY <1>7 DEF Pruned, Return

(* The files are no more, and no larger, than the candidates. *)
LEMMA WithinLimits ==
  ASSUME NEW s \in Scan, ScanShape(s, "evict"), NEW files, files \subseteq s.candidates,
         ~TooMany(s.candidates)
  PROVE  /\ MaxEntries > 0 => Cardinality(files) <= MaxEntries
         /\ MaxBytes > 0 => Bytes(files) <= MaxBytes
<1>1. Sized(s.candidates) /\ IsFiniteSet(s.candidates)
  BY ScanFields DEF ScanShape, Sized, Candidate
<1>2. IsFiniteSet(files) /\ Sized(files)
  BY <1>1, FS_Subset DEF Sized
<1>3. /\ Cardinality(files) <= Cardinality(s.candidates)
      /\ Cardinality(files) \in Nat /\ Cardinality(s.candidates) \in Nat
  BY <1>1, <1>2, FS_Subset, FS_CardinalityType
<1>4. Bytes(files) <= Bytes(s.candidates) /\ Bytes(files) \in Nat /\ Bytes(s.candidates) \in Nat
  BY <1>1, <1>2, BytesNat, BytesMonotone
<1>5. MaxEntries \in Nat /\ MaxBytes \in Nat
  BY LimitsAssumption
<1>6. /\ MaxEntries > 0 => Cardinality(s.candidates) <= MaxEntries
      /\ MaxBytes > 0 => Bytes(s.candidates) <= MaxBytes
  BY <1>3, <1>4, <1>5 DEF TooMany, LimitExceeded
<1> QED
  BY <1>3, <1>4, <1>5, <1>6

(* What PruneKeepsNewest asks of a prune. *)
KeepsNewest(p) ==
  /\ pc[p] = "evict" /\ scan'[p].candidates # scan[p].candidates =>
       \A c \in Files \ Files', d \in Files' : Older(c, d)
  /\ Reports(p, "pruned") =>
       /\ MaxEntries > 0 => Cardinality(Files) <= MaxEntries
       /\ MaxBytes > 0 => Bytes(Files) <= MaxBytes
       /\ \A k \in Keys : entry[k].value # Corrupt

(* Every step is as PruneKeepsNewest asks. *)
LEMMA KeepsNewestStep ==
  ASSUME CacheInv, ScanInv, [Next]_vars, NEW p \in Procs \ raced
  PROVE  KeepsNewest(p)
<1>1. ASSUME pc[p] = "evict", scan'[p].candidates # scan[p].candidates
      PROVE  \A c \in Files \ Files', d \in Files' : Older(c, d)
  <2>1. CASE Evict(p)
    BY <2>1, EvictsOlder
  <2>2. CASE entry' = entry
    BY <2>2 DEF Files
  <2> QED
    BY <1>1, <2>1, <2>2, CandidatesChange
<1>2. ASSUME Reports(p, "pruned")
      PROVE  /\ MaxEntries > 0 => Cardinality(Files) <= MaxEntries
             /\ MaxBytes > 0 => Bytes(Files) <= MaxBytes
             /\ \A k \in Keys : entry[k].value # Corrupt
  <2>1. pc[p] = "evict" /\ ~TooMany(scan[p].candidates)
    BY <1>2, ReportsPruned
  <2>2. /\ scan[p] \in Scan /\ ScanShape(scan[p], "evict") /\ Files \subseteq scan[p].candidates
        /\ \A k \in Present : Valid(k)
    BY <2>1, ScannedAll
  <2>3. ASSUME NEW k \in Keys PROVE entry[k].value # Corrupt
    BY <2>2, DistinctAssumption DEF Present, Valid
  <2> QED
    BY <2>1, <2>2, <2>3, WithinLimits
<1> QED
  BY <1>1, <1>2 DEF KeepsNewest

(* docs/spec/cache.md: pruning removes invalid entries, and then the oldest until the      *)
(* limits hold. Whatever else the goroutines do, a prune during which nothing is published *)
(* or spoiled evicts only what is older than all it keeps, and when it returns the         *)
(* directory is within both limits and holds no corrupt entry.                             *)
THEOREM PrunesOldest == Spec => PruneKeepsNewest
<1>1. CacheInv /\ ScanInv /\ [Next]_vars => [\A p \in Procs \ raced : KeepsNewest(p)]_vars
  BY KeepsNewestStep
<1>2. [\A p \in Procs \ raced : KeepsNewest(p)]_vars <=>
      [\A p \in Procs \ raced :
         /\ pc[p] = "evict" /\ scan'[p].candidates # scan[p].candidates =>
              \A c \in Files \ Files', d \in Files' : Older(c, d)
         /\ Reports(p, "pruned") =>
              /\ MaxEntries > 0 => Cardinality(Files) <= MaxEntries
              /\ MaxBytes > 0 => Bytes(Files) <= MaxBytes
              /\ \A k \in Keys : entry[k].value # Corrupt]_vars
  BY DEF KeepsNewest
<1> QED
  BY <1>1, <1>2, CacheInvariant, ScanInvariant, PTL DEF Spec, PruneKeepsNewest
=============================================================================
