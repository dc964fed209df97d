--------------------------- MODULE MCS3Replication ---------------------------
(* A small instance of S3Replication for TLC.                               *)
EXTENDS S3Replication

CONSTANTS p1, p2, o1, o2

TwoPaths == {p1, p2}
TwoObjects == {o1, o2}

\* One object's bucket has each policy.
OneOfEach == (o1 :> "any") @@ (o2 :> "all")
=============================================================================
