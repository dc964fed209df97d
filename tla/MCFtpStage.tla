----------------------------- MODULE MCFtpStage -----------------------------
(* A small instance of FtpStage for TLC.                                    *)
EXTENDS FtpStage, TLC

CONSTANTS f1, f2, r1, d1, d2, x, y

TwoFiles == {f1, f2}
OneReader == {r1}
Sym == Permutations({d1, d2}) \cup Permutations({x, y}) \cup Permutations({f1, f2})
=============================================================================
