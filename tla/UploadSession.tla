---------------------------- MODULE UploadSession ----------------------------
(***************************************************************************)
(* internal/multipart/session.go: the manager of multipart uploads.  A     *)
(* session lives in the manager's maps; each pipeline attempt has a window *)
(* (UploadWindow, here by what OrderedStream promises) and a goroutine     *)
(* that runs the driver's put and records its verdict.                     *)
(*                                                                         *)
(* One user, one destination path and one size: all sessions share one     *)
(* key.  Requests are Handlers; a critical section of m.mu or s.mu is one  *)
(* step, and what other goroutines may do between two of them interleaves. *)
(* Time is only "the TTL has passed since the last touch".                 *)
(***************************************************************************)
EXTENDS Integers, FiniteSets

CONSTANTS
  Sessions,     \* identities the manager may hand out (bound on Init)
  Handlers,     \* concurrent requests
  Chunks,       \* chunk indexes, 0 among them
  Contents,     \* what a chunk, and the file its hash is of, may hold
  None,         \* no content, no hash, no session
  MaxAttempts,  \* bound: pipeline attempts of a session
  GcRounds      \* bound: rounds of the expiry loop

ASSUME SessionAssumption ==
  /\ 0 \in Chunks /\ Chunks \subseteq Nat
  /\ None \notin Contents /\ None \notin Sessions
  /\ MaxAttempts \in Nat \ {0} /\ GcRounds \in Nat

Attempts == 0 .. MaxAttempts - 1
NoWin    == -1

VARIABLES
  sess,   \* session -> its mutable fields
  pipe,   \* session -> attempt -> window and goroutine of the attempt
  byID,   \* the manager's map of live sessions
  byKey,  \* the session of the one key, or None
  req,    \* handler -> the request it serves
  gc      \* the expiry loop: sessions still to terminate, rounds so far

vars == <<sess, pipe, byID, byKey, req, gc>>

States == {"unborn", "receiving", "completed", "failed_retriable",
           "failed_permanent", "aborted"}

\* win and done name the attempt whose window and done channel they point to;
\* prev is prevCRCs with None where prevSet is false; fresh: touched within TTL.
Session == [state : States, attempt : Nat, win : Attempts \cup {NoWin},
            done : Attempts \cup {NoWin}, prev : [Chunks -> Contents \cup {None}],
            hash : Contents \cup {None}, fresh : BOOLEAN]

\* acc: CRCs of the accepted chunks; read: chunks the driver has consumed;
\* run: where the goroutine is; result: what put returned; harvest: the CRC
\* table finishAttempt took.
Pipe == [acc : [Chunks -> Contents \cup {None}], read : SUBSET Chunks,
         closed : BOOLEAN, cancelled : BOOLEAN,
         run : {"none", "putting", "returned", "harvested", "closing", "recorded", "done"},
         result : {"none", "nil", "permanent", "transient"},
         harvest : [Chunks -> Contents \cup {None}]]

Request == [pc : {"idle", "init", "touch", "create", "register", "chunk", "write",
                  "stalled", "changed", "wait", "verdict", "complete", "await", "final",
                  "term", "remove"},
            op : {"none", "init", "chunk", "complete", "abort"},
            s : Sessions \cup {None}, idx : Chunks, body : Contents \cup {None},
            win : Attempts \cup {NoWin}, prev : Contents \cup {None},
            res : {"none", "ok"}]

TypeOK ==
  /\ sess \in [Sessions -> Session]
  /\ pipe \in [Sessions -> [Attempts -> Pipe]]
  /\ byID \subseteq Sessions
  /\ byKey \in Sessions \cup {None}
  /\ req \in [Handlers -> Request]
  /\ gc \in [todo : SUBSET Sessions, cut : SUBSET Sessions, round : 0 .. GcRounds]

NoChunks == [i \in Chunks |-> None]
Idle == [pc |-> "idle", op |-> "none", s |-> None, idx |-> 0, body |-> None,
         win |-> NoWin, prev |-> None, res |-> "none"]
Unborn == [state |-> "unborn", attempt |-> 0, win |-> NoWin, done |-> NoWin,
           prev |-> NoChunks, hash |-> None, fresh |-> TRUE]
NoPipe == [acc |-> NoChunks, read |-> {}, closed |-> FALSE, cancelled |-> FALSE,
           run |-> "none", result |-> "none", harvest |-> NoChunks]

Init ==
  /\ sess = [s \in Sessions |-> Unborn]
  /\ pipe = [s \in Sessions |-> [a \in Attempts |-> NoPipe]]
  /\ byID = {}
  /\ byKey = None
  /\ req = [h \in Handlers |-> Idle]
  /\ gc = [todo |-> {}, cut |-> {}, round |-> 0]

-----------------------------------------------------------------------------
(* Helpers                                                                 *)

At(h, label) == req[h].pc = label
Goto(h, label) == req' = [req EXCEPT ![h].pc = label]

\* Go on with the session and the index alone: the other locals are used up.
GoOn(h, label) ==
  req' = [req EXCEPT ![h] = [@ EXCEPT !.pc = label, !.body = None, !.win = NoWin, !.prev = None]]

\* The request is answered: its locals die, a success of Chunk or Complete stays
\* on record.
Answer(h, r) ==
  LET onRecord == r = "ok" /\ req[h].op \in {"chunk", "complete"} IN
  req' = [req EXCEPT ![h] =
            IF onRecord THEN [Idle EXCEPT !.op = req[h].op, !.s = req[h].s,
                                          !.idx = req[h].idx, !.res = "ok"]
                        ELSE Idle]

Touched(S, s) == [S EXCEPT ![s].fresh = TRUE]

\* Window.Snapshot: a closed window has dropped what the driver has not read.
Received(w) == IF w.closed THEN w.read ELSE {i \in Chunks : w.acc[i] # None}
CurrentWin(s) == pipe[s][sess[s].win]

\* startAttemptLocked: a fresh window and goroutine, the session is receiving.
Started(f) == [f EXCEPT !.state = "receiving", !.win = f.attempt, !.done = f.attempt]

StartAttempt(s) ==
  pipe' = [pipe EXCEPT ![s][sess[s].attempt] = [NoPipe EXCEPT !.run = "putting"]]

\* Bug: the window stays open.
BugKilledContextOnly(s) ==
  [a \in Attempts |-> [pipe[s][a] EXCEPT !.cancelled = @ \/ a = sess[s].done]]

\* killAttemptLocked: cancel the context of the latest attempt, close the
\* window the session still points to.
Killed(s) ==
  [a \in Attempts |->
     [pipe[s][a] EXCEPT !.cancelled = IF a = sess[s].done THEN TRUE ELSE @,
                        !.closed = IF a = sess[s].win THEN TRUE ELSE @]]

\* Bug: an aborted attempt is labelled as one to retry.
BugTerminateRetriable(s) ==
  /\ sess' = [sess EXCEPT ![s] =
       IF @.state = "receiving" THEN [@ EXCEPT !.state = "failed_retriable", !.attempt = @ + 1]
       ELSE @]
  /\ pipe' = [pipe EXCEPT ![s] = Killed(s)]

\* terminate, first critical section
Terminate(s) ==
  /\ sess' = [sess EXCEPT ![s].state = IF @ = "receiving" THEN "aborted" ELSE @]
  /\ pipe' = [pipe EXCEPT ![s] = Killed(s)]

\* Bug: the key is left behind.
BugRemoveKeepsKey(s) ==
  /\ byID' = byID \ {s}
  /\ UNCHANGED byKey

\* remove: byKey only if it still names this session
Remove(s) ==
  /\ byID' = byID \ {s}
  /\ byKey' = IF byKey = s THEN None ELSE byKey

\* get, and the touch that follows it
Get(h, op, s, label) ==
  /\ At(h, "idle")
  /\ s \in byID
  /\ req' = [req EXCEPT ![h] = [Idle EXCEPT !.pc = label, !.op = op, !.s = s]]

-----------------------------------------------------------------------------
(* Init                                                                    *)

\* Bound: a session identity is left for every Init that may still create one.
IdentityLeft ==
  Cardinality({s \in Sessions : sess[s].state = "unborn"}) >
  Cardinality({h \in Handlers : req[h].op = "init" /\ req[h].pc \in {"term", "remove", "create"}})

\* Look the key up: resume, supersede, or create.
InitLooksUp(h, hash) ==
  LET s == byKey
      resume == \/ sess[s].state = "failed_retriable"
                \/ /\ sess[s].state = "receiving"
                   /\ sess[s].hash # None /\ sess[s].hash = hash
  IN
  /\ At(h, "idle") /\ IdentityLeft
  /\ req' = [req EXCEPT ![h] =
       IF s = None \/ s \notin byID
         THEN [Idle EXCEPT !.op = "init", !.pc = "create", !.body = hash]
       ELSE IF resume
         THEN [Idle EXCEPT !.op = "init", !.pc = "touch", !.s = s]
       ELSE [Idle EXCEPT !.op = "init", !.pc = "term", !.s = s, !.body = hash]]
  /\ UNCHANGED <<sess, pipe, byID, byKey, gc>>

\* The resumed session is touched after m.mu is released.
InitResumes(h) ==
  /\ At(h, "touch")
  /\ sess' = Touched(sess, req[h].s)
  /\ Answer(h, "ok")
  /\ UNCHANGED <<pipe, byID, byKey, gc>>

\* A session of its own, not yet in the maps, with its first attempt running.
InitCreates(h, s) ==
  /\ At(h, "create")
  /\ sess[s].state = "unborn"
  /\ sess' = [sess EXCEPT ![s] = [Started(@) EXCEPT !.hash = req[h].body]]
  /\ StartAttempt(s)
  /\ req' = [req EXCEPT ![h] = [@ EXCEPT !.s = s, !.pc = "register"]]
  /\ UNCHANGED <<byID, byKey, gc>>

\* NewWindow fails (no space for the ring file): the session is dropped.
InitFails(h) ==
  /\ At(h, "create")
  /\ Answer(h, "error")
  /\ UNCHANGED <<sess, pipe, byID, byKey, gc>>

InitRegisters(h) ==
  /\ At(h, "register")
  /\ byID' = byID \cup {req[h].s}
  /\ byKey' = req[h].s
  /\ Answer(h, "ok")
  /\ UNCHANGED <<sess, pipe, gc>>

-----------------------------------------------------------------------------
(* Chunk                                                                   *)

ChunkGets(h, s, i, c) ==
  /\ At(h, "idle")
  /\ s \in byID
  /\ req' = [req EXCEPT ![h] = [Idle EXCEPT !.pc = "chunk", !.op = "chunk", !.s = s,
                                            !.idx = i, !.body = c]]
  /\ sess' = Touched(sess, s)
  /\ UNCHANGED <<pipe, byID, byKey, gc>>

\* The switch on s.state under s.mu: answer at once (a chunk 0 whose NewWindow
\* fails, too) ...
ChunkAnswers(h) ==
  LET s == req[h].s IN
  /\ At(h, "chunk")
  /\ \/ sess[s].state = "completed" /\ Answer(h, "ok")
     \/ /\ sess[s].state \in {"failed_retriable", "failed_permanent", "aborted"}
        /\ Answer(h, "error")
  /\ UNCHANGED <<sess, pipe, byID, byKey, gc>>

\* ... or go and write; chunk 0 of a failed attempt starts the next one.
ChunkGoesToWrite(h) ==
  LET s == req[h].s IN
  /\ At(h, "chunk")
  /\ \/ /\ sess[s].state = "receiving"
        /\ UNCHANGED <<sess, pipe>>
     \/ /\ sess[s].state = "failed_retriable" /\ req[h].idx = 0
        /\ sess' = [sess EXCEPT ![s] = Started(@)]
        /\ StartAttempt(s)
  /\ req' = [req EXCEPT ![h] = [@ EXCEPT !.pc = "write", !.win = sess'[s].win,
                                        !.prev = sess[s].prev[req[h].idx]]]
  /\ UNCHANGED <<byID, byKey, gc>>

\* WriteChunk on the window captured under s.mu (UploadWindow has the detail).
\* It answers the CRC of the accepted body, of this request or an earlier one ...
WriteAccepted(h) ==
  LET s == req[h].s  a == req[h].win  i == req[h].idx
      acc == IF pipe[s][a].acc[i] = None THEN req[h].body ELSE pipe[s][a].acc[i]
  IN
  /\ At(h, "write")
  /\ ~pipe[s][a].closed
  /\ pipe' = [pipe EXCEPT ![s][a].acc[i] = acc]
  /\ IF req[h].prev # None /\ acc # req[h].prev
       THEN GoOn(h, "changed")
       ELSE Answer(h, "ok")
  /\ UNCHANGED <<sess, byID, byKey, gc>>

\* ... or the sticky error of a closed window ...
WriteFindsClosed(h) ==
  /\ At(h, "write")
  /\ pipe[req[h].s][req[h].win].closed
  /\ GoOn(h, "wait")
  /\ UNCHANGED <<sess, pipe, byID, byKey, gc>>

\* ... or an error of this request alone: cut body, in flight, out of window.
WriteFails(h) ==
  /\ At(h, "write")
  /\ ~pipe[req[h].s][req[h].win].closed
  /\ GoOn(h, "verdict")
  /\ UNCHANGED <<sess, pipe, byID, byKey, gc>>

\* ... or, once it is admitted, it waits for a body whose client sends no more
\* but keeps the connection open.  A close of the window does not reach it ...
WriteStalls(h) ==
  LET p == pipe[req[h].s][req[h].win] IN
  /\ At(h, "write")
  /\ ~p.closed /\ p.acc[req[h].idx] = None
  /\ Goto(h, "stalled")
  /\ UNCHANGED <<sess, pipe, byID, byKey, gc>>

\* ... until the connection breaks.
StallBreaks(h) ==
  /\ At(h, "stalled")
  /\ GoOn(h, IF pipe[req[h].s][req[h].win].closed THEN "wait" ELSE "verdict")
  /\ UNCHANGED <<sess, pipe, byID, byKey, gc>>

\* The window was closed: wait for s.done, whose attempt is the current one by
\* now, or for ten seconds.
ChunkWaits(h) ==
  /\ At(h, "wait")
  /\ req' = [req EXCEPT ![h].pc = "verdict"]
  /\ UNCHANGED <<sess, pipe, byID, byKey, gc>>

\* An error is absorbed when the upload has succeeded meanwhile.
ChunkVerdict(h) ==
  /\ At(h, "verdict")
  /\ Answer(h, IF sess[req[h].s].state = "completed" THEN "ok" ELSE "error")
  /\ UNCHANGED <<sess, pipe, byID, byKey, gc>>

\* The CRC differs from the previous attempt's.
ChunkChanged(h) ==
  LET s == req[h].s IN
  /\ At(h, "changed")
  /\ sess' = [sess EXCEPT ![s].state = "failed_permanent"]
  /\ pipe' = [pipe EXCEPT ![s] = Killed(s)]
  /\ Answer(h, "error")
  /\ UNCHANGED <<byID, byKey, gc>>

-----------------------------------------------------------------------------
(* Complete, Status, Find and Abort                                        *)

CompleteGets(h, s) ==
  /\ Get(h, "complete", s, "complete")
  /\ sess' = Touched(sess, s)
  /\ UNCHANGED <<pipe, byID, byKey, gc>>

\* One turn of the loop: refuse while bytes are missing, wait for the attempt's
\* done channel, or go on to the final answer.
CompleteLooks(h) ==
  LET s == req[h].s IN
  /\ At(h, "complete")
  /\ \/ /\ sess[s].state = "receiving" /\ sess[s].win # NoWin
        /\ Received(CurrentWin(s)) # Chunks
        /\ Answer(h, "error")
     \/ /\ sess[s].state = "receiving"
        /\ sess[s].win = NoWin \/ Received(CurrentWin(s)) = Chunks
        /\ req' = [req EXCEPT ![h] = [@ EXCEPT !.pc = "await", !.win = sess[s].done]]
     \/ sess[s].state # "receiving" /\ Goto(h, "final")
  /\ UNCHANGED <<sess, pipe, byID, byKey, gc>>

CompleteWakes(h) ==
  /\ At(h, "await")
  /\ pipe[req[h].s][req[h].win].run = "done"
  /\ GoOn(h, "complete")
  /\ UNCHANGED <<sess, pipe, byID, byKey, gc>>

\* The client goes away: ctx.Done.
CompleteCancelled(h) ==
  /\ At(h, "await")
  /\ Answer(h, "error")
  /\ UNCHANGED <<sess, pipe, byID, byKey, gc>>

\* Bug: after the wait, anything but a retriable failure is a success.
BugCompleteTrustsDone(h) ==
  LET s == req[h].s IN
  /\ At(h, "final")
  /\ sess' = Touched(sess, s)
  /\ IF sess[s].state # "failed_retriable" THEN Goto(h, "remove") ELSE Answer(h, "error")
  /\ UNCHANGED <<pipe, byID, byKey, gc>>

CompleteAnswers(h) ==
  LET s == req[h].s IN
  /\ At(h, "final")
  /\ sess' = Touched(sess, s)
  /\ IF sess[s].state = "completed" THEN Goto(h, "remove") ELSE Answer(h, "error")
  /\ UNCHANGED <<pipe, byID, byKey, gc>>

\* Status, and Find after its lookup: nothing but the touch.
StatusTouches(s) ==
  /\ s \in byID
  /\ sess' = Touched(sess, s)
  /\ UNCHANGED <<pipe, byID, byKey, req, gc>>

AbortGets(h, s) ==
  /\ Get(h, "abort", s, "term")
  /\ UNCHANGED <<sess, pipe, byID, byKey, gc>>

\* terminate, for Abort and for the Init that supersedes
HandlerTerminates(h) ==
  /\ At(h, "term")
  /\ Terminate(req[h].s)
  /\ Goto(h, "remove")
  /\ UNCHANGED <<byID, byKey, gc>>

\* remove: the end of terminate, and of a Complete that reports success
HandlerRemoves(h) ==
  /\ At(h, "remove")
  /\ Remove(req[h].s)
  /\ IF req[h].op = "init" THEN req' = [req EXCEPT ![h] = [@ EXCEPT !.pc = "create", !.s = None]]
                           ELSE Answer(h, "ok")
  /\ UNCHANGED <<sess, pipe, gc>>

-----------------------------------------------------------------------------
(* The expiry loop                                                         *)

\* The TTL passes without a touch.
Expires(s) ==
  /\ gc.round < GcRounds
  /\ sess[s].fresh /\ s \in byID
  /\ sess' = [sess EXCEPT ![s].fresh = FALSE]
  /\ UNCHANGED <<pipe, byID, byKey, req, gc>>

\* Collect under m.mu ...
GcCollects ==
  /\ gc.round < GcRounds
  /\ gc.todo = {} /\ gc.cut = {}
  /\ \E s \in byID : ~sess[s].fresh
  /\ gc' = [todo |-> {s \in byID : ~sess[s].fresh}, cut |-> {}, round |-> gc.round + 1]
  /\ UNCHANGED <<sess, pipe, byID, byKey, req>>

\* ... and terminate each one afterwards, whatever happened to it since.
GcTerminates(s) ==
  /\ s \in gc.todo /\ gc.cut = {}
  /\ Terminate(s)
  /\ gc' = [gc EXCEPT !.todo = @ \ {s}, !.cut = {s}]
  /\ UNCHANGED <<byID, byKey, req>>

GcRemoves(s) ==
  /\ s \in gc.cut
  /\ Remove(s)
  /\ gc' = [gc EXCEPT !.cut = {}]
  /\ UNCHANGED <<sess, pipe, req>>

-----------------------------------------------------------------------------
(* The pipeline goroutine of attempt a                                     *)

\* The driver consumes the chunks in order.
DriverReads(s, a, i) ==
  /\ pipe[s][a].run = "putting" /\ ~pipe[s][a].closed
  /\ pipe[s][a].acc[i] # None /\ i \notin pipe[s][a].read
  /\ \A j \in Chunks : j < i => j \in pipe[s][a].read
  /\ pipe' = [pipe EXCEPT ![s][a].read = @ \cup {i}]
  /\ UNCHANGED <<sess, byID, byKey, req, gc>>

\* put returns: success after the whole stream, or off the hash alone (rapid
\* upload); a failure at any time.  op.Put closes the window; a put that fails
\* before op.Put leaves that to finishAttempt.  Bound: the last attempt that is
\* modelled does not fail retriably.
PutReturns(s, a, r) ==
  /\ pipe[s][a].run = "putting"
  /\ r = "nil" => pipe[s][a].read = Chunks \/ sess[s].hash # None
  /\ r = "transient" => a + 1 \in Attempts \/ sess[s].state # "receiving"
  /\ \E c \in IF r = "nil" THEN {TRUE} ELSE {TRUE, pipe[s][a].closed} :
       pipe' = [pipe EXCEPT ![s][a] = [@ EXCEPT !.run = "returned", !.result = r, !.closed = c]]
  /\ UNCHANGED <<sess, byID, byKey, req, gc>>

\* finishAttempt: the CRC table, then Close ...
FinishHarvests(s, a) ==
  /\ pipe[s][a].run = "returned"
  /\ pipe' = [pipe EXCEPT ![s][a] = [@ EXCEPT !.run = "harvested", !.harvest = pipe[s][a].acc]]
  /\ UNCHANGED <<sess, byID, byKey, req, gc>>

FinishCloses(s, a) ==
  /\ pipe[s][a].run = "harvested"
  /\ pipe' = [pipe EXCEPT ![s][a] = [@ EXCEPT !.run = "closing", !.closed = TRUE]]
  /\ UNCHANGED <<sess, byID, byKey, req, gc>>

\* ... then under s.mu the table, the window that is gone, and the verdict.
Settled(f, a, crcs) ==
  [f EXCEPT !.fresh = TRUE, !.prev = crcs, !.win = IF f.win = a THEN NoWin ELSE f.win]

Verdict(f, r) ==
  IF r = "nil" THEN [f EXCEPT !.state = "completed"]
  ELSE IF f.state # "receiving" THEN f
  ELSE IF r = "permanent" THEN [f EXCEPT !.state = "failed_permanent"]
  ELSE [f EXCEPT !.state = "failed_retriable", !.attempt = @ + 1]

FinishRecords(s, a) ==
  /\ pipe[s][a].run = "closing"
  /\ pipe' = [pipe EXCEPT ![s][a] = [@ EXCEPT !.run = "recorded", !.harvest = NoChunks]]
  /\ sess' = [sess EXCEPT ![s] =
                Verdict(Settled(@, a, pipe[s][a].harvest), pipe[s][a].result)]
  /\ UNCHANGED <<byID, byKey, req, gc>>

\* Bug: the goroutine of a cancelled attempt leaves without closing done.
BugDoneUnlessKilled(s, a) ==
  /\ pipe[s][a].run = "recorded" /\ ~pipe[s][a].cancelled
  /\ pipe' = [pipe EXCEPT ![s][a].run = "done"]
  /\ UNCHANGED <<sess, byID, byKey, req, gc>>

DoneCloses(s, a) ==
  /\ pipe[s][a].run = "recorded"
  /\ pipe' = [pipe EXCEPT ![s][a].run = "done"]
  /\ UNCHANGED <<sess, byID, byKey, req, gc>>

-----------------------------------------------------------------------------
HandlerStep(h) ==
  \/ InitResumes(h) \/ InitRegisters(h) \/ InitFails(h)
  \/ \E s \in Sessions : InitCreates(h, s)
  \/ ChunkAnswers(h) \/ ChunkGoesToWrite(h)
  \/ WriteAccepted(h) \/ WriteFindsClosed(h) \/ WriteFails(h)
  \/ ChunkWaits(h) \/ ChunkVerdict(h) \/ ChunkChanged(h)
  \/ CompleteLooks(h) \/ CompleteWakes(h) \/ CompleteAnswers(h)
  \/ HandlerTerminates(h) \/ HandlerRemoves(h)

NewRequest(h) ==
  \/ \E hash \in Contents \cup {None} : InitLooksUp(h, hash)
  \/ \E s \in Sessions : \/ CompleteGets(h, s) \/ AbortGets(h, s)
                         \/ \E i \in Chunks, c \in Contents : ChunkGets(h, s, i, c)

GcStep == GcCollects \/ \E s \in Sessions : GcTerminates(s) \/ GcRemoves(s)

Finish(s, a) ==
  FinishHarvests(s, a) \/ FinishCloses(s, a) \/ FinishRecords(s, a) \/ DoneCloses(s, a)

PipeStep(s, a) ==
  \/ \E i \in Chunks : DriverReads(s, a, i)
  \/ \E r \in {"nil", "permanent", "transient"} : PutReturns(s, a, r)
  \/ Finish(s, a)

Next ==
  \/ \E h \in Handlers : \/ HandlerStep(h) \/ NewRequest(h) \/ CompleteCancelled(h)
                          \/ WriteStalls(h) \/ StallBreaks(h)
  \/ \E s \in Sessions : StatusTouches(s) \/ Expires(s)
  \/ GcStep
  \/ \E s \in Sessions, a \in Attempts : PipeStep(s, a)

Spec == Init /\ [][Next]_vars

-----------------------------------------------------------------------------
(* Safety                                                                  *)

Undecided(s, a) == pipe[s][a].run \in {"putting", "returned", "harvested", "closing"}

\* Two attempts of a session never run at the same time, however requests,
\* aborts and failures interleave: the destination has one writer per session.
OneAttemptAtATime ==
  \A s \in Sessions, a, b \in Attempts : Undecided(s, a) /\ Undecided(s, b) => a = b

\* The key never leads to a session that is no longer in the map by ID.
KeyNamesLiveSession == byKey # None => byKey \in byID

\* Success answered by Complete is the driver's success, although the state is
\* read after the wait and may have been changed by an abort, by the expiry or by
\* a changed chunk meanwhile; ok for a chunk means some window accepted it or the
\* upload succeeded.
OkIsReal ==
  \A h \in Handlers : req[h].res = "ok" =>
    LET s == req[h].s IN
    /\ req[h].op = "complete" => \E a \in Attempts : pipe[s][a].result = "nil"
    /\ req[h].op = "chunk" =>
         \E a \in Attempts : \/ pipe[s][a].acc[req[h].idx] # None
                             \/ pipe[s][a].result = "nil"

\* What a comment says of resuming after a failure ("the re-fill CRC check catches
\* a changed file", session.go:318): when Complete reports success, no chunk that
\* the successful driver has read differs from what an earlier attempt accepted.
RefillCatchesChange ==
  \A h \in Handlers : req[h].op = "complete" /\ req[h].res = "ok" =>
    LET p == pipe[req[h].s] IN
    \A a \in {n \in Attempts : p[n].result = "nil"} : \A i \in p[a].read, b \in 0 .. a - 1 :
      p[b].acc[i] \in {None, p[a].acc[i]}

-----------------------------------------------------------------------------
(* Liveness                                                                *)

(* Goroutines that can run do run.  A driver returns once it has consumed the *)
(* stream, or once its context is cancelled (which interrupts network I/O)    *)
(* and its window closed (which interrupts Read); nothing is assumed of a     *)
(* driver that waits for chunks.  Of the client of a Chunk request nothing is *)
(* assumed either: its body may stall for ever (no HTTP server here sets a    *)
(* read deadline), so StallBreaks has no fairness.                            *)
DriverReturns(s, a) ==
  /\ pipe[s][a].read = Chunks \/ (pipe[s][a].closed /\ pipe[s][a].cancelled)
  /\ \E r \in {"nil", "permanent", "transient"} : PutReturns(s, a, r)

Fairness ==
  /\ \A h \in Handlers : WF_vars(HandlerStep(h))
  /\ WF_vars(GcStep)
  /\ \A s \in Sessions, a \in Attempts :
       /\ WF_vars(\E i \in Chunks : DriverReads(s, a, i))
       /\ WF_vars(DriverReturns(s, a))
       /\ WF_vars(Finish(s, a))

FairSpec == Spec /\ Fairness

\* Every request returns but a Chunk whose own client stalls in its body.
\* Complete returns in particular: it only waits when all bytes are in, so it
\* needs neither the client nor the expiry loop to be released; and a done channel
\* that a retry, an abort or the expiry has superseded strands nobody.
RequestsReturn ==
  \A h \in Handlers : ~At(h, "idle") ~> At(h, "idle") \/ At(h, "stalled")

\* A killed attempt ends: its goroutine does not stay behind.
KilledAttemptsEnd ==
  \A s \in Sessions, a \in Attempts :
    pipe[s][a].cancelled ~> pipe[s][a].run = "done"

=============================================================================
