------------------------------- MODULE MCMemLS -------------------------------
(* A small instance of MemLS for TLC: "/", "/d" and "/d/f".                 *)
EXTENDS MemLS, TLC

CONSTANTS root, dir, file

ThreeNames == {root, dir, file}
ThreeUp == (root :> {root}) @@ (dir :> {root, dir}) @@ (file :> {root, dir, file})

FiniteAndInfinite == {-1, 1}
=============================================================================
