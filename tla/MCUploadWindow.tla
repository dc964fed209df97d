--------------------------- MODULE MCUploadWindow ---------------------------
(* Instances of UploadWindow for TLC.                                      *)
EXTENDS UploadWindow, TLC

\* Writers and contents are interchangeable; sound for the safety runs only.
Symmetry == Permutations(Writers) \cup Permutations(Contents)

=============================================================================
