---------------------------- MODULE MCDownloader ----------------------------
(* An instance of Downloader for TLC: two workers.                         *)
EXTENDS Downloader

CONSTANTS w1, w2

TwoWorkers == {w1, w2}
\* Parts of 1, 2, 2 bytes, and of 2 and 3.
TwoRequests == {<<5, 2>>, <<5, 4>>}
=============================================================================
