--------------------------- MODULE MCFileReplace ---------------------------
(* FileReplace on two operations, two contents that are rewritten and the one   *)
(* they become, one of the same size as an original, and two modes.             *)
EXTENDS FileReplace, TLC

CONSTANTS p1, p2, old, edited, formatted

MCProcs == {p1, p2}
MCContents == {old, edited, formatted}
MCSize == old :> 1 @@ edited :> 1 @@ formatted :> 2
MCRewrite == old :> formatted @@ edited :> formatted @@ formatted :> formatted
MCSymmetry == Permutations(MCProcs)
=============================================================================
