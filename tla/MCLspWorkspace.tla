-------------------------- MODULE MCLspWorkspace --------------------------
(* LspWorkspace on a package and one that imports it, a generated file of the *)
(* first, and one module file.                                                 *)
EXTENDS LspWorkspace, TLC

CONSTANTS lib, gen, app, mod, old, new, main

MCRootOf == 1 :> main @@ 2 :> main
MCCovers == main :> {1, 2}
MCImports == 1 :> {} @@ 2 :> {1}
MCGroupOf == lib :> 1 @@ gen :> 1 @@ app :> 2
MCOpened == lib :> {Absent, old, new} @@ gen :> {Absent} @@ app :> {Absent, new}
MCSaved == lib :> {Absent, new} @@ gen :> {Absent, old} @@ app :> {} @@ mod :> {new}
MCSize == old :> 1 @@ new :> 2
MCDisk == lib :> old @@ gen :> Absent @@ app :> old @@ mod :> old
=============================================================================
