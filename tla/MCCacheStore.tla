--------------------------- MODULE MCCacheStore ---------------------------
(* CacheStore on two goroutines of one process and one of another, two keys, and *)
(* two values of different size.                                                  *)
EXTENDS CacheStore, TLC

CONSTANTS p1, p2, p3, one, other, small, large

MCProcs == {p1, p2, p3}
MCStores == {one, other}
MCStoreOf == p1 :> one @@ p2 :> one @@ p3 :> other
MCValues == {small, large}
MCSize == small :> 1 @@ large :> 2 @@ Corrupt :> 1
Get == [op |-> "get", key |-> 1]
PutSmall == [op |-> "put", key |-> 1, value |-> small]
Puts == {[op |-> "put", key |-> 1, value |-> v] : v \in MCValues}
Pruning == [op |-> "prune"]
Closing == [op |-> "close"]
States == MCValues \cup {Corrupt, Absent}

Jobs(ofP1, ofP2, ofP3) == {p1 :> a @@ p2 :> b @@ p3 :> c : a \in ofP1, b \in ofP2, c \in ofP3}
Finding(tasks, first, second) ==
  {[task |-> t, held |-> <<a, b>>] : t \in tasks, a \in first, b \in second}

(* Reads and writes of one key; and a prune that takes one of two entries, with a *)
(* write or another prune beside it.                                              *)
MCWorkloads ==
  Finding(Jobs({PutSmall}, Puts \cup {Get, Closing}, Puts \cup {Get}), States, {Absent})
    \cup Finding(Jobs({Pruning}, {PutSmall}, Puts \cup {Pruning}), States, {small, Corrupt})

(* Two processes write different values to one key. *)
ConflictWorkloads ==
  Finding(Jobs({PutSmall}, {Get}, Puts), States, {Absent})

MCSymmetry == Permutations({p1, p2})
=============================================================================
