----------------------------- MODULE CacheStore -----------------------------
(***************************************************************************)
(* internal/cache: the persistent analysis cache. Goroutines of several     *)
(* processes use one directory, each process through a Store of its own:    *)
(* Get, Put, Prune and Close, call by call, while a call fails, a process   *)
(* is killed and a disk error or another program spoils an entry.           *)
(*                                                                         *)
(* The lock of a Store excludes the goroutines of its process only; between *)
(* processes there is nothing but the atomicity of link and unlink. A load  *)
(* reads the one file it opened and is one step; the header and the digest  *)
(* tell a whole value from a Corrupt one. Every key has a shard of its own. *)
(* A context that ends is a call that fails. The counters of PruneResult    *)
(* are left out, except what remains.                                       *)
(***************************************************************************)
EXTENDS Naturals, FiniteSets, FiniteSetsExt

CONSTANTS
  Procs,           \* goroutines, each with one operation
  Stores,          \* one Store of each process
  StoreOf,         \* the Store each goroutine uses
  Keys,            \* cache keys; their order is the order of their names
  Values,          \* encoded payloads
  Size,            \* the size of an entry
  Corrupt, Absent, \* an entry that does not verify, and none
  Workloads,       \* BOUND: what the goroutines do, and what the directory holds before
  MaxEntries,      \* PruneOptions, 0 for no limit
  MaxBytes,
  MaxDamage,       \* BOUND on entries that are spoiled
  MaxTime          \* BOUND on modification times

ASSUME StoreAssumption == StoreOf \in [Procs -> Stores]
ASSUME KeysAssumption == Keys \subseteq Nat /\ IsFiniteSet(Keys)
ASSUME SizeAssumption == Size \in [Values \cup {Corrupt} -> Nat]
ASSUME LimitsAssumption == {MaxEntries, MaxBytes, MaxDamage, MaxTime} \subseteq Nat /\ MaxTime > 0
ASSUME DistinctAssumption ==
  /\ Corrupt # Absent /\ {Corrupt, Absent} \cap Values = {}
  /\ Procs \cap Keys = {}

Task == [op : {"get"}, key : Keys] \cup [op : {"put"}, key : Keys, value : Values]
          \cup [op : {"prune", "close"}]
ASSUME WorkloadsAssumption ==
  Workloads \subseteq [task : [Procs -> Task], held : [Keys -> Values \cup {Corrupt, Absent}]]

(* The file a key names: what it holds, who published it, and when. *)
Publishers == Procs \cup {Absent}
Entry == [value : Values \cup {Corrupt, Absent}, by : Publishers, at : Nat]

(* A publication temporary: none, or a file of which the content and the time. *)
NoTemporary == [value |-> Absent, at |-> 0]
Temporary == [value : Values \cup {Corrupt}, at : Nat] \cup {NoTemporary}

(* pruneCandidate: what listing an entry said of it. *)
Candidate == [key : Keys, at : Nat, size : Nat]

(* The locals of Prune: StaleTemporaryBefore (0 when it is not set), the keys whose *)
(* shard is still to be listed, the names of the listed shard still to be visited,  *)
(* the entry that was listed last, and the valid entries that remain.               *)
Scan == [cutoff : 0..MaxTime, shards : SUBSET Keys, names : SUBSET (Procs \cup Keys),
         listed : SUBSET Candidate, candidates : SUBSET Candidate]
NoScan == [cutoff |-> 0, shards |-> {}, names |-> {}, listed |-> {}, candidates |-> {}]

Steps == {"load", "repair", "write", "link", "reload", "cleanup",
          "list", "visit", "verify", "discard", "evict"}
Outcomes == {"none", "hit", "miss", "stored", "conflict", "unpublished", "pruned", "closed",
             "failed"}

VARIABLES
  entry,   \* of each key
  clock,   \* the modification time of a file that is written now
  damage,  \* how many entries were spoiled
  closed,  \* Store.closed
  task,    \* what each goroutine does
  pc,      \* the call it makes next
  result,  \* what it returns
  temp,    \* its temporary file
  scan,    \* the locals of its Prune
  seen,    \* history: what the key held while its operation ran
  raced    \* history: prunes during which an entry was published or spoiled

store == <<entry, clock, damage, temp>>
history == <<seen, raced>>
vars == <<store, closed, task, pc, result, scan, history>>

(* Everything is what the code can hold: above all, the name of an entry never  *)
(* stands for a file that was not written to its end by a Put, except a spoiled *)
(* one.                                                                         *)
TypeOK ==
  /\ entry \in [Keys -> Entry]
  /\ clock \in 1..MaxTime /\ damage \in 0..MaxDamage
  /\ Cardinality({k \in Keys : entry[k].value = Corrupt /\ entry[k].by # Absent}) <= damage
  /\ closed \in [Stores -> BOOLEAN]
  /\ task \in [Procs -> Task]
  /\ pc \in [Procs -> Steps \cup {"idle", "returned", "killed"}]
  /\ result \in [Procs -> Outcomes]
  /\ temp \in [Procs -> Temporary]
  /\ scan \in [Procs -> Scan]
  /\ seen \in [Procs -> SUBSET (Values \cup {Corrupt, Absent})]
  /\ raced \in SUBSET Procs

(* What an earlier run left: entries of any age, whole or not. *)
Init ==
  /\ \E w \in Workloads :
       /\ task = w.task
       /\ entry = [k \in Keys |-> [value |-> w.held[k], by |-> Absent, at |-> 0]]
  /\ clock = 1 /\ damage = 0
  /\ closed = [s \in Stores |-> FALSE]
  /\ pc = [p \in Procs |-> "idle"]
  /\ result = [p \in Procs |-> "none"]
  /\ temp = [p \in Procs |-> NoTemporary]
  /\ scan = [p \in Procs |-> NoScan]
  /\ seen = [p \in Procs |-> {}]
  /\ raced = {}

-----------------------------------------------------------------------------
Running(p) == pc[p] \in Steps
Goto(p, from, to) == pc[p] = from /\ pc' = [pc EXCEPT ![p] = to] /\ UNCHANGED result

(* Returning releases the lock; a Put that has a temporary removes it first. *)
Return(p, from, outcome) ==
  /\ pc[p] = from
  /\ pc' = [pc EXCEPT ![p] = IF temp[p] # NoTemporary THEN "cleanup" ELSE "returned"]
  /\ result' = [result EXCEPT ![p] = outcome]

(* The key comes to name something else, or nothing. *)
SetEntry(k, value, by, at) ==
  entry' = [entry EXCEPT ![k] = [value |-> value, by |-> by, at |-> at]]
Unlink(k) == SetEntry(k, Absent, Absent, 0) /\ UNCHANGED <<clock, damage, temp>>

(* The history variables: what the key of a running Get or Put has held since it  *)
(* began, and the prunes that could not count an entry.                           *)
Appears(k) == entry'[k] # entry[k] /\ entry'[k].value # Absent
Observe ==
  /\ seen' = [p \in Procs |->
       IF pc'[p] \in Steps /\ task[p].op \in {"get", "put"}
       THEN seen[p] \cup {entry'[task[p].key].value} ELSE {}]
  /\ raced' = {p \in Procs : /\ pc'[p] \in Steps /\ task[p].op = "prune"
                             /\ p \in raced \/ \E k \in Keys : Appears(k)}

Valid(k) == entry[k].value \in Values

\* Mutant: Put takes the read lock.
ExcludesPrune(p, q) == {"prune", "close"} \cap {task[p].op, task[q].op} # {}

(* The RWMutex of the Store: Get shares it, everything else excludes all others. *)
Excludes(p, q) == {"put", "prune", "close"} \cap {task[p].op, task[q].op} # {}

Locked(p) == \E q \in Procs \ {p} : StoreOf[q] = StoreOf[p] /\ Running(q) /\ Excludes(p, q)

(* Every operation locks the store and looks at closed first. *)
Begin(p) ==
  /\ pc[p] = "idle" /\ task[p].op # "close" /\ ~Locked(p)
  /\ \/ closed[StoreOf[p]] /\ Return(p, "idle", "failed") /\ UNCHANGED scan
     \/ /\ ~closed[StoreOf[p]] /\ task[p].op # "prune"
        /\ Goto(p, "idle", "load")
        /\ UNCHANGED scan
     \/ /\ ~closed[StoreOf[p]] /\ task[p].op = "prune"
        /\ Goto(p, "idle", "list")
        /\ \E c \in {0, clock} :
             scan' = [scan EXCEPT ![p] = [NoScan EXCEPT !.cutoff = c, !.shards = Keys]]
  /\ UNCHANGED <<store, closed, task>>
  /\ Observe

Close(p) ==
  /\ pc[p] = "idle" /\ task[p].op = "close" /\ ~Locked(p)
  /\ Return(p, "idle", "closed")
  /\ closed' = [closed EXCEPT ![StoreOf[p]] = TRUE]
  /\ UNCHANGED <<store, task, scan>>
  /\ Observe

-----------------------------------------------------------------------------
(* Get and Put                                                              *)

(* What a load is enough for: a Get, and a Put of a key that holds a valid value. *)
LoadOutcome(p, value) ==
  CASE task[p].op = "get" -> IF value \in Values THEN "hit" ELSE "miss"
    [] OTHER -> IF value = task[p].value THEN "stored" ELSE "conflict"

Load(p) ==
  LET value == entry[task[p].key].value
  IN /\ pc[p] = "load"
     /\ \/ /\ task[p].op = "get" \/ value \in Values
           /\ Return(p, "load", LoadOutcome(p, value))
        \/ /\ task[p].op = "put" /\ value \notin Values
           /\ Goto(p, "load", IF value = Corrupt THEN "repair" ELSE "write")
     /\ UNCHANGED <<store, closed, task, scan>>
     /\ Observe

(* Put removes the entry it found corrupt: whatever the key names by now. *)
Repair(p) ==
  /\ Goto(p, "repair", "write")
  /\ Unlink(task[p].key)
  /\ UNCHANGED <<closed, task, scan>>
  /\ Observe

\* Mutant: a short write goes unnoticed.
WriteShort(p) ==
  /\ Goto(p, "write", "link")
  /\ temp' = [temp EXCEPT ![p] = [value |-> Corrupt, at |-> clock]]
  /\ UNCHANGED <<entry, clock, damage, closed, task, scan>>
  /\ Observe

(* Created, written, synced and closed. Only the name can be lost meanwhile, and a *)
(* part of the content is never linked: as if all were one call.                   *)
WriteTemporary(p) ==
  /\ Goto(p, "write", "link")
  /\ \E at \in {clock, clock + 1} \cap 1..MaxTime :
       /\ clock' = at
       /\ temp' = [temp EXCEPT ![p] = [value |-> task[p].value, at |-> at]]
  /\ UNCHANGED <<entry, damage, closed, task, scan>>
  /\ Observe

\* Mutant: the temporary is renamed over the entry.
NameFree(p) == temp[p] # NoTemporary

(* Link creates the name, or fails: the name exists, or the temporary is gone. *)
Linkable(p) == temp[p] # NoTemporary /\ entry[task[p].key].value = Absent

Link(p) ==
  /\ pc[p] = "link"
  /\ \/ /\ Linkable(p)
        /\ SetEntry(task[p].key, temp[p].value, p, temp[p].at)
        /\ Return(p, "link", "stored")
     \/ /\ ~Linkable(p)
        /\ Goto(p, "link", "reload")
        /\ UNCHANGED entry
  /\ UNCHANGED <<clock, damage, temp, closed, task, scan>>
  /\ Observe

\* Mutant: what made the link fail is taken for the same value.
RivalIsOwn(p, value) == IF value \in Values THEN "stored" ELSE "unpublished"

Rival(p, value) ==
  CASE value = task[p].value -> "stored"
    [] value \in Values \ {task[p].value} -> "conflict"
    [] OTHER -> "unpublished"

(* Put looks at what made the link fail. *)
Reload(p) ==
  /\ pc[p] = "reload"
  /\ Return(p, "reload", Rival(p, entry[task[p].key].value))
  /\ UNCHANGED <<store, closed, task, scan>>
  /\ Observe

(* The deferred Remove of the temporary; that it fails is an error of the Put. *)
Cleanup(p) ==
  /\ pc[p] = "cleanup"
  /\ pc' = [pc EXCEPT ![p] = "returned"]
  /\ \/ temp' = [temp EXCEPT ![p] = NoTemporary] /\ UNCHANGED result
     \/ /\ temp[p] # NoTemporary
        /\ result' = [result EXCEPT ![p] = "failed"]
        /\ UNCHANGED temp
  /\ UNCHANGED <<entry, clock, damage, closed, task, scan>>
  /\ Observe

-----------------------------------------------------------------------------
(* Prune                                                                    *)

LeastKey(keys) == CHOOSE k \in keys : \A other \in keys : k <= other

Temporaries(k) == {q \in Procs : temp[q] # NoTemporary /\ task[q].key = k}

(* One shard is read: its temporaries, and its entry. *)
List(p) ==
  /\ pc[p] = "list" /\ scan[p].shards # {}
  /\ LET k == LeastKey(scan[p].shards)
         present == IF entry[k].value = Absent THEN {} ELSE {k}
     IN scan' = [scan EXCEPT ![p].shards = @ \ {k}, ![p].names = Temporaries(k) \cup present]
  /\ Goto(p, "list", "visit")
  /\ UNCHANGED <<store, closed, task>>
  /\ Observe

Stale(p, q) == temp[q] # NoTemporary /\ temp[q].at < scan[p].cutoff

(* The temporaries of a shard come before its entry. *)
VisitTemporary(p) ==
  /\ pc[p] = "visit"
  /\ \E q \in scan[p].names \cap Procs :
       /\ scan' = [scan EXCEPT ![p].names = @ \ {q}]
       /\ temp' = [temp EXCEPT ![q] = IF Stale(p, q) THEN NoTemporary ELSE @]
  /\ UNCHANGED <<entry, clock, damage, closed, task, pc, result>>
  /\ Observe

(* An entry that is gone is passed over. *)
VisitEntry(p) ==
  /\ pc[p] = "visit" /\ scan[p].names \cap Procs = {}
  /\ \E k \in scan[p].names :
       \/ /\ entry[k].value = Absent
          /\ Goto(p, "visit", "list")
          /\ scan' = [scan EXCEPT ![p].names = {}]
       \/ /\ entry[k].value # Absent
          /\ Goto(p, "visit", "verify")
          /\ scan' = [scan EXCEPT ![p].names = {},
               ![p].listed = {[key |-> k, at |-> entry[k].at, size |-> Size[entry[k].value]]}]
  /\ UNCHANGED <<store, closed, task>>
  /\ Observe

NextShard(p) ==
  /\ Goto(p, "visit", "list")
  /\ scan[p].names = {}
  /\ UNCHANGED <<store, closed, task, scan>>
  /\ Observe

(* A valid entry becomes a candidate; one that is not, or not any more, is removed. *)
Verify(p) ==
  /\ pc[p] = "verify"
  /\ \E c \in scan[p].listed :
       \/ /\ Valid(c.key)
          /\ Goto(p, "verify", "list")
          /\ scan' = [scan EXCEPT ![p].candidates = @ \cup {c}, ![p].listed = {}]
       \/ /\ ~Valid(c.key)
          /\ Goto(p, "verify", "discard")
          /\ UNCHANGED scan
  /\ UNCHANGED <<store, closed, task>>
  /\ Observe

Discard(p) ==
  /\ Goto(p, "discard", "list")
  /\ \E c \in scan[p].listed : Unlink(c.key)
  /\ scan' = [scan EXCEPT ![p].listed = {}]
  /\ UNCHANGED <<closed, task>>
  /\ Observe

(* After the last shard the candidates are sorted and counted. *)
Scanned(p) ==
  /\ Goto(p, "list", "evict")
  /\ scan[p].shards = {}
  /\ UNCHANGED <<store, closed, task, scan>>
  /\ Observe

\* Mutant: one exceeded limit is not enough.
BothExceeded(count, bytes) ==
  (MaxEntries > 0 => count > MaxEntries) /\ (MaxBytes > 0 => bytes > MaxBytes)

LimitExceeded(count, bytes) ==
  \/ MaxEntries > 0 /\ count > MaxEntries
  \/ MaxBytes > 0 /\ bytes > MaxBytes

Bytes(files) == MapThenSumSet(LAMBDA file : file.size, files)
TooMany(files) == LimitExceeded(Cardinality(files), Bytes(files))

Older(c, d) == c.at < d.at \/ (c.at = d.at /\ c.key < d.key)

OldestOf(files) == CHOOSE c \in files : \A d \in files \ {c} : Older(c, d)

Evict(p) ==
  /\ pc[p] = "evict" /\ TooMany(scan[p].candidates)
  /\ LET oldest == OldestOf(scan[p].candidates)
     IN Unlink(oldest.key) /\ scan' = [scan EXCEPT ![p].candidates = @ \ {oldest}]
  /\ UNCHANGED <<closed, task, pc, result>>
  /\ Observe

Pruned(p) ==
  /\ Return(p, "evict", "pruned")
  /\ ~TooMany(scan[p].candidates)
  /\ scan' = [scan EXCEPT ![p] = NoScan]
  /\ UNCHANGED <<store, closed, task>>
  /\ Observe

-----------------------------------------------------------------------------
(* Failures                                                                 *)

(* A call fails, or the context has ended. An error of link itself is looked into. *)
CallFails(p) ==
  /\ \/ /\ \E from \in Steps \ {"cleanup"} : Return(p, from, "failed")
        /\ scan' = [scan EXCEPT ![p] = NoScan]
     \/ Goto(p, "link", "reload") /\ UNCHANGED scan
  /\ UNCHANGED <<store, closed, task>>
  /\ Observe

(* A process is killed: all its goroutines stop, their temporaries stay. *)
Kill(s) ==
  /\ \E p \in Procs : StoreOf[p] = s /\ Running(p)
  /\ pc' = [p \in Procs |->
       IF StoreOf[p] = s /\ pc[p] # "returned" THEN "killed" ELSE pc[p]]
  /\ scan' = [p \in Procs |-> IF StoreOf[p] = s THEN NoScan ELSE scan[p]]
  /\ UNCHANGED <<store, closed, task, result>>
  /\ Observe

(* A disk error or another program spoils an entry. *)
Spoil(k) ==
  /\ Valid(k)
  /\ damage < MaxDamage /\ damage' = damage + 1
  /\ SetEntry(k, Corrupt, entry[k].by, entry[k].at)
  /\ UNCHANGED <<clock, temp, closed, task, pc, result, scan>>
  /\ Observe

-----------------------------------------------------------------------------
GetOrPut(p) ==
  \/ Load(p) \/ Repair(p) \/ WriteTemporary(p) \/ Link(p) \/ Reload(p) \/ Cleanup(p)
Prune(p) ==
  \/ List(p) \/ VisitTemporary(p) \/ VisitEntry(p) \/ NextShard(p) \/ Verify(p)
  \/ Discard(p) \/ Scanned(p) \/ Evict(p) \/ Pruned(p)
Operation(p) == Begin(p) \/ Close(p) \/ GetOrPut(p) \/ Prune(p) \/ CallFails(p)

Next ==
  \/ \E p \in Procs : Operation(p)
  \/ \E s \in Stores : Kill(s)
  \/ \E k \in Keys : Spoil(k)

Spec == Init /\ [][Next]_vars

-----------------------------------------------------------------------------
(* Properties                                                               *)

Reports(p, outcome) == result'[p] = outcome /\ result[p] # outcome
Witnessed(p) == seen[p] \cup {entry'[task[p].key].value}

(* What an operation says of its key was so while it ran, whatever other processes *)
(* publish, repair and prune: a hit is a value the key held, a miss a moment at    *)
(* which it held none, a Put that succeeds had its value under the key, and one    *)
(* that reports a conflict had another valid value there.                          *)
OutcomesTrue ==
  [][\A p \in Procs :
       /\ Reports(p, "hit") => Witnessed(p) \cap Values # {}
       /\ Reports(p, "miss") => Witnessed(p) \cap {Corrupt, Absent} # {}
       /\ Reports(p, "stored") => task[p].value \in Witnessed(p)
       /\ Reports(p, "conflict") => Witnessed(p) \cap (Values \ {task[p].value}) # {}]_vars

(* A valid value is never overwritten by another one, however many processes     *)
(* publish and repair at once: the name has to be empty first.                   *)
NoOverwrite ==
  [][\A k \in Keys : Valid(k) /\ entry'[k].value \in Values => entry'[k] = entry[k]]_vars

(* A Put takes a valid value away only when another process published it after  *)
(* the Put had found the entry corrupt: the goroutines of one Store never do     *)
(* this to each other.                                                           *)
RepairSparesOwnStore ==
  [][\A p \in Procs, k \in Keys :
       task[p].op = "put" /\ pc[p] # pc'[p] /\ Valid(k) /\ entry'[k].value = Absent
         => entry[k].by \in Procs /\ StoreOf[entry[k].by] # StoreOf[p]]_vars

(* The files of the directory, as Prune counts them. *)
Files == {[key |-> k, at |-> entry[k].at, size |-> Size[entry[k].value]] :
            k \in {key \in Keys : entry[key].value # Absent}}

(* Unless another process publishes, or an entry is spoiled, while it runs, Prune *)
(* evicts only entries that are older than all it keeps, and when it returns the  *)
(* directory is within both limits and holds no corrupt entry.                    *)
PruneKeepsNewest ==
  [][\A p \in Procs \ raced :
       /\ pc[p] = "evict" /\ scan'[p].candidates # scan[p].candidates =>
            \A c \in Files \ Files', d \in Files' : Older(c, d)
       /\ Reports(p, "pruned") =>
            /\ MaxEntries > 0 => Cardinality(Files) <= MaxEntries
            /\ MaxBytes > 0 => Bytes(Files) <= MaxBytes
            /\ \A k \in Keys : entry[k].value # Corrupt]_vars

(* docs/spec/cache.md: "Different valid values for one key MUST produce a conflict *)
(* and MUST NOT overwrite the existing value." While nothing is pruned or spoiled, *)
(* no two Puts succeed with different values for one key.                          *)
DifferentValuesConflict ==
  \A p, q \in Procs :
    /\ damage = 0 /\ \A r \in Procs : task[r].op # "prune"
    /\ pc[p] = "returned" /\ result[p] = "stored"
    /\ pc[q] = "returned" /\ result[q] = "stored"
    /\ task[p].key = task[q].key
    => task[p].value = task[q].value
=============================================================================
