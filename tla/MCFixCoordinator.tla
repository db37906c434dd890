-------------------------- MODULE MCFixCoordinator --------------------------
(***************************************************************************)
(* FixCoordinator on a file of four characters: up to three fixes that are   *)
(* one edit of any range, two edits, or must be refused.                     *)
(***************************************************************************)
EXTENDS FixCoordinator

Fix(list) ==
  [edits |-> list, imports |-> {}, identity |-> "current", offered |-> 1, safety |-> "safe"]
At(from, to) == [start |-> from, end |-> to, deletes |-> (from = 2)]

OneEdit == {Fix(<<At(p[1], p[2])>>) : p \in {q \in (0..4) \X (0..4) : q[1] <= q[2]}}
TwoEdits == {Fix(<<At(0, 1), At(2, 4)>>), Fix(<<At(1, 1), At(3, 3)>>),
             Fix(<<At(3, 4), At(0, 0)>>), Fix(<<At(1, 3), At(2, 2)>>)}
Importing == {[Fix(<<At(4, 4)>>) EXCEPT !.imports = {[name |-> "a", path |-> "p"]}],
              [Fix(<<At(0, 1)>>) EXCEPT !.imports = {[name |-> "b", path |-> "p"]}]}
Refused == {Fix(<<>>), Fix(<<At(3, 5)>>), Fix(<<At(3, 1)>>),
            [Fix(<<At(1, 2)>>) EXCEPT !.identity = "stale"],
            [Fix(<<At(1, 2)>>) EXCEPT !.offered = 2],
            [Fix(<<At(1, 2)>>) EXCEPT !.safety = "unsafe"],
            [Fix(<<At(1, 2)>>) EXCEPT !.safety = "suggestion"]}

MCShapes == OneEdit \cup TwoEdits \cup Importing \cup Refused
=============================================================================
