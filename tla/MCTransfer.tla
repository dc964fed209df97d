----------------------------- MODULE MCTransfer -----------------------------
(* A small instance of Transfer for TLC: a directory with a file, a file.   *)
EXTENDS Transfer, TLC

CONSTANTS d, x, z

ThreeItems == {d, x, z}
ThreeUp == (d :> {d}) @@ (x :> {d, x}) @@ (z :> {z})
=============================================================================
