----------------------------- MODULE MCDirCache -----------------------------
(* DirCache on two directories, a file and its backup name                 *)
EXTENDS DirCache, TLC

D == <<"d">>
E == <<"e">>
X == <<"d", "x">>
T == <<"d", "t">>
EX == <<"e", "x">>
MCPaths == {Root, D, E, X, T, EX}
MCBackup == X :> T
Disk(e, x) == (X :> x) @@ (E :> e) @@ [p \in MCPaths |-> IF p \in {Root, D} THEN Dir ELSE None]
MCStarts == {Disk(Dir, 1), Disk(None, Empty)}
MCRequests ==
  {Step("list", D, Root), Step("look", X, Root), Step("mkdir", E, Root), Step("remove", D, Root),
   Step("remove", X, Root), Step("rename", D, E), Step("move", X, E),
   Step("copy", X, E)}
Two == {"c1", "c2"}
=============================================================================
