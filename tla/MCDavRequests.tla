---------------------------- MODULE MCDavRequests ----------------------------
(* A small instance of DavRequests for TLC: "/" and "/d".                    *)
EXTENDS DavRequests, TLC

CONSTANTS root, dir, c1, c2

TwoNames == {root, dir}
TwoUp == (root :> {root}) @@ (dir :> {root, dir})

\* The user of c1 sees the whole tree, that of c2 has the base path /d.
OneAtRoot == (c1 :> [n \in TwoNames |-> n]) @@ (c2 :> (root :> dir))

\* Both names are in the directory "/".
ToRoot == [pair \in TwoNames \X TwoNames |-> pair[1]]

Finite == {1}
=============================================================================
