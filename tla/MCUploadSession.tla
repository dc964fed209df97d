--------------------------- MODULE MCUploadSession ---------------------------
(* Instances of UploadSession for TLC.                                      *)
EXTENDS UploadSession, TLC

\* Interchangeable identities; sound for the safety runs only.
Symmetry == Permutations(Sessions) \cup Permutations(Handlers) \cup Permutations(Contents)

\* The chunk with index 0 is the one that starts attempts.
ZeroOnly == {0}

\* Bound: while two sessions live side by side one content is about, one of them
\* has received nothing yet and still waits, and neither is retried; a session
\* expires only alone, and while no Init is under way; a body stalls only while one
\* session with one content is about.
ContentsAbout ==
  UNION {{sess[s].hash, pipe[s][0].acc[0]} : s \in Sessions} \cup {req[h].body : h \in Handlers}

ExpiryAbout == gc.round > 0 \/ \E s \in Sessions : ~sess[s].fresh

Bounds ==
  /\ (\A s \in Sessions : sess[s].state # "unborn") =>
       /\ Cardinality(ContentsAbout \ {None}) <= 1
       /\ \A s \in Sessions : sess[s].attempt = 0
       /\ \E s \in Sessions : pipe[s][0].run = "putting" /\ pipe[s][0].acc = NoChunks
  /\ ExpiryAbout => /\ \E s \in Sessions : sess[s].state = "unborn"
                     /\ \A h \in Handlers : req[h].op # "init"
  /\ (\E h \in Handlers : At(h, "stalled")) =>
       /\ \E s \in Sessions : sess[s].state = "unborn"
       /\ Cardinality(ContentsAbout \ {None}) <= 1
==============================================================================
