------------------------- MODULE UploadSessionProofs -------------------------
(***************************************************************************)
(* Theorems about the sessions of UploadSession, for any number of         *)
(* sessions, requests, chunks, contents, attempts and expiry rounds.       *)
(***************************************************************************)
EXTENDS UploadSession, TLAPS

Over(s, a) == ~Undecided(s, a)
Succeeded(s) == \E a \in Attempts : pipe[s][a].result = "nil"
\* Attempts of session s from b on have not begun.
Untried(s, b) == \A a \in Attempts : a >= b => pipe[s][a] = NoPipe

\* A session and its attempts: the state, the attempt counter and what the
\* goroutines are doing belong together.
SessionInv(s) ==
  LET f == sess[s] IN
  /\ f.state = "unborn" => f = Unborn /\ Untried(s, 0)
  /\ f.state = "receiving" =>
       /\ f.attempt \in Attempts /\ f.done = f.attempt /\ f.win = f.attempt
       /\ Undecided(s, f.attempt) /\ Untried(s, f.attempt + 1)
  /\ f.state = "failed_retriable" =>
       /\ f.attempt \in Attempts /\ f.done < f.attempt /\ f.win = NoWin
       /\ Untried(s, f.attempt)
       /\ \A a \in Attempts : Over(s, a)
  /\ f.state = "completed" => Succeeded(s)
  /\ \A a \in Attempts :
       /\ Undecided(s, a) => a = f.done
       /\ pipe[s][a].run \in {"none", "putting"} <=> pipe[s][a].result = "none"
       /\ Undecided(s, a) /\ pipe[s][a].result = "transient" /\ f.state = "receiving" =>
            a + 1 \in Attempts

\* A request between two critical sections: what it may rely on when it goes on.
RequestInv(h) ==
  LET r == req[h] IN
  /\ r.pc \notin {"idle", "create"} => r.s \in Sessions /\ sess[r.s].state # "unborn"
  /\ r.pc \in {"chunk", "write", "stalled", "changed", "wait", "verdict"} => r.op = "chunk"
  /\ r.pc \in {"complete", "await", "final"} => r.op = "complete"
  /\ r.pc \in {"touch", "create", "register"} => r.op = "init"
  /\ r.pc = "term" => r.op \in {"init", "abort"}
  /\ r.pc \in {"chunk", "write"} => r.body \in Contents
  /\ r.pc \in {"write", "stalled"} => r.win \in Attempts /\ pipe[r.s][r.win].run # "none"
  /\ r.pc = "remove" => r.op # "chunk" /\ (r.op = "complete" => Succeeded(r.s))
  /\ r.pc \notin {"idle"} => r.res = "none"
  /\ r.res = "ok" =>
       /\ r.op \in {"chunk", "complete"} /\ r.s \in Sessions
       /\ sess[r.s].state # "unborn"
       /\ r.op = "complete" => Succeeded(r.s)
       /\ r.op = "chunk" => Succeeded(r.s) \/ \E a \in Attempts : pipe[r.s][a].acc[r.idx] # None

MapsInv == /\ \A s \in byID : sess[s].state # "unborn"
           /\ \A s \in gc.todo \cup gc.cut : sess[s].state # "unborn"
           /\ KeyNamesLiveSession

\* The inductive invariant.
IInv == /\ TypeOK
        /\ \A s \in Sessions : SessionInv(s)
        /\ \A h \in Handlers : RequestInv(h)
        /\ MapsInv

-----------------------------------------------------------------------------
(* Steps                                                                   *)

\* What a goroutine of the pipeline, or the expiry loop, does to one session.
LEMMA NextCases ==
  ASSUME Next
  PROVE  \/ \E h \in Handlers :
              \/ InitResumes(h) \/ InitRegisters(h) \/ InitFails(h)
              \/ ChunkAnswers(h) \/ ChunkGoesToWrite(h)
              \/ WriteAccepted(h) \/ WriteFindsClosed(h) \/ WriteFails(h)
              \/ ChunkWaits(h) \/ ChunkVerdict(h) \/ ChunkChanged(h)
              \/ CompleteLooks(h) \/ CompleteWakes(h) \/ CompleteAnswers(h)
              \/ HandlerTerminates(h) \/ HandlerRemoves(h) \/ CompleteCancelled(h)
              \/ WriteStalls(h) \/ StallBreaks(h)
         \/ \E h \in Handlers, hash \in Contents \cup {None} : InitLooksUp(h, hash)
         \/ \E h \in Handlers, s \in Sessions :
              InitCreates(h, s) \/ CompleteGets(h, s) \/ AbortGets(h, s)
         \/ \E h \in Handlers, s \in Sessions, i \in Chunks, c \in Contents : ChunkGets(h, s, i, c)
         \/ \E s \in Sessions : StatusTouches(s) \/ Expires(s) \/ GcTerminates(s) \/ GcRemoves(s)
         \/ GcCollects
         \/ \E s \in Sessions, a \in Attempts :
              \/ FinishHarvests(s, a) \/ FinishCloses(s, a) \/ FinishRecords(s, a) \/ DoneCloses(s, a)
              \/ \E i \in Chunks : DriverReads(s, a, i)
              \/ \E r \in {"nil", "permanent", "transient"} : PutReturns(s, a, r)
BY DEF Next, HandlerStep, NewRequest, GcStep, PipeStep, Finish

\* The defaults have their types.
LEMMA Defaults ==
  /\ NoChunks \in [Chunks -> Contents \cup {None}]
  /\ Idle \in Request /\ Unborn \in Session /\ NoPipe \in Pipe
BY SessionAssumption DEF NoChunks, Idle, Unborn, NoPipe, Request, Session, Pipe, States, NoWin

\* An answered request, and one that goes on, have their types.
LEMMA RequestType ==
  ASSUME req \in [Handlers -> Request], NEW h \in Handlers
  PROVE  /\ \A r : Answer(h, r) => req' \in [Handlers -> Request]
         /\ \A label \in {"stalled", "changed", "wait", "verdict", "complete", "final", "remove"} :
              Goto(h, label) \/ GoOn(h, label) => req' \in [Handlers -> Request]
<1>1. req[h] \in Request /\ Idle \in Request  BY Defaults
<1>2. ASSUME NEW r, Answer(h, r)  PROVE req' \in [Handlers -> Request]
  <2> DEFINE answered(o) == [Idle EXCEPT !.op = o, !.s = req[h].s, !.idx = req[h].idx, !.res = "ok"]
  <2>1. \A o \in {"chunk", "complete"} : answered(o) \in Request
    BY <1>1 DEF Request
  <2>2. answered(req[h].op) \in Request \/ req[h].op \notin {"chunk", "complete"}
    BY <2>1
  <2> HIDE DEF answered
  <2>3. \E v \in Request : req' = [req EXCEPT ![h] = v]
    <3>1. CASE r = "ok" /\ req[h].op \in {"chunk", "complete"}
      BY <1>2, <2>2, <3>1 DEF Answer, answered
    <3>2. CASE ~(r = "ok" /\ req[h].op \in {"chunk", "complete"})
      BY <1>1, <1>2, <3>2 DEF Answer
    <3> QED  BY <3>1, <3>2
  <2> QED  BY <2>3
<1>3. ASSUME NEW label \in {"stalled", "changed", "wait", "verdict", "complete", "final", "remove"}
      PROVE  Goto(h, label) \/ GoOn(h, label) => req' \in [Handlers -> Request]
  <2>1. [req[h] EXCEPT !.pc = label] \in Request
    BY <1>1 DEF Request
  <2>2. [req[h] EXCEPT !.pc = label, !.body = None, !.win = NoWin, !.prev = None] \in Request
    BY <1>1 DEF Request, NoWin
  <2> QED  BY <2>1, <2>2 DEF Goto, GoOn
<1> QED  BY <1>2, <1>3

\* The new attempt of a session, its killed attempts and a touch have their types.
LEMMA SessionType ==
  ASSUME TypeOK, NEW s \in Sessions
  PROVE  /\ Touched(sess, s) \in [Sessions -> Session]
         /\ [pipe EXCEPT ![s] = Killed(s)] \in [Sessions -> [Attempts -> Pipe]]
         /\ StartAttempt(s) /\ sess[s].attempt \in Attempts => pipe' \in [Sessions -> [Attempts -> Pipe]]
         /\ \A f \in Session : f.attempt \in Attempts => Started(f) \in Session
         /\ \A st \in States : [sess EXCEPT ![s].state = st] \in [Sessions -> Session]
<1>1. sess[s] \in Session /\ pipe[s] \in [Attempts -> Pipe]  BY DEF TypeOK
<1>2. Touched(sess, s) \in [Sessions -> Session]
  BY <1>1 DEF Touched, TypeOK, Session
<1>3. \A a \in Attempts : [pipe[s][a] EXCEPT !.cancelled = IF a = sess[s].done THEN TRUE ELSE @,
                                            !.closed = IF a = sess[s].win THEN TRUE ELSE @] \in Pipe
  BY <1>1 DEF Pipe
<1>4. [pipe EXCEPT ![s] = Killed(s)] \in [Sessions -> [Attempts -> Pipe]]
  BY <1>3 DEF Killed, TypeOK
<1>5. StartAttempt(s) /\ sess[s].attempt \in Attempts => pipe' \in [Sessions -> [Attempts -> Pipe]]
  <2>1. [NoPipe EXCEPT !.run = "putting"] \in Pipe  BY Defaults DEF Pipe
  <2> QED  BY <2>1 DEF StartAttempt, TypeOK
<1>6. \A f \in Session : f.attempt \in Attempts => Started(f) \in Session
  BY DEF Session, Started, States
<1>7. \A st \in States : [sess EXCEPT ![s].state = st] \in [Sessions -> Session]
  <2> TAKE st \in States
  <2>1. [sess[s] EXCEPT !.state = st] \in Session  BY <1>1 DEF Session
  <2> QED  BY <2>1 DEF TypeOK
<1> QED  BY <1>2, <1>4, <1>5, <1>6, <1>7

LEMMA TerminateType ==
  ASSUME TypeOK, NEW s \in Sessions, Terminate(s)
  PROVE  sess' \in [Sessions -> Session] /\ pipe' \in [Sessions -> [Attempts -> Pipe]]
<1>1. \E st \in States : sess' = [sess EXCEPT ![s].state = st]
  BY DEF Terminate, States, TypeOK, Session
<1> QED  BY <1>1, SessionType DEF Terminate

LEMMA TypeStep ==
  ASSUME IInv, Next
  PROVE  TypeOK'
<1> USE SessionAssumption
<1>1. /\ sess \in [Sessions -> Session] /\ pipe \in [Sessions -> [Attempts -> Pipe]]
      /\ byID \subseteq Sessions /\ byKey \in Sessions \cup {None}
      /\ req \in [Handlers -> Request]
      /\ gc \in [todo : SUBSET Sessions, cut : SUBSET Sessions, round : 0 .. GcRounds]
  BY DEF IInv, TypeOK
<1>2. \A h \in Handlers : RequestInv(h) /\ req[h] \in Request
  BY <1>1 DEF IInv
<1>3. \A s \in Sessions : SessionInv(s) /\ sess[s] \in Session
  BY <1>1 DEF IInv
<1>4. TypeOK  BY DEF IInv
<1>10. ASSUME NEW h \in Handlers, InitResumes(h)  PROVE TypeOK'
  BY <1>1, <1>2, <1>4, <1>10, RequestType, SessionType DEF InitResumes, RequestInv, At, TypeOK
<1>11. ASSUME NEW h \in Handlers, InitRegisters(h)  PROVE TypeOK'
  BY <1>1, <1>2, <1>11, RequestType DEF InitRegisters, RequestInv, At, TypeOK
<1>12. ASSUME NEW h \in Handlers, InitFails(h) \/ ChunkAnswers(h) \/ ChunkVerdict(h) \/ CompleteCancelled(h)
       PROVE  TypeOK'
  BY <1>1, <1>12, RequestType DEF InitFails, ChunkAnswers, ChunkVerdict, CompleteCancelled, TypeOK
<1>13. ASSUME NEW h \in Handlers, ChunkGoesToWrite(h)  PROVE TypeOK'
  <2> DEFINE s == req[h].s
  <2>1. s \in Sessions /\ req[h].idx \in Chunks
    BY <1>1, <1>2, <1>13 DEF ChunkGoesToWrite, RequestInv, At, Request
  <2>2. sess' \in [Sessions -> Session] /\ pipe' \in [Sessions -> [Attempts -> Pipe]]
    <3>1. CASE sess[s].state = "receiving" /\ UNCHANGED <<sess, pipe>>
      BY <1>1, <3>1
    <3>2. CASE /\ sess[s].state = "failed_retriable"
               /\ sess' = [sess EXCEPT ![s] = Started(@)] /\ StartAttempt(s)
      <4>1. sess[s].attempt \in Attempts  BY <1>3, <2>1, <3>2 DEF SessionInv
      <4> QED  BY <1>1, <1>4, <2>1, <3>2, <4>1, SessionType
    <3> QED  BY <1>13, <3>1, <3>2 DEF ChunkGoesToWrite
  <2>3. sess'[s].win \in Attempts \cup {NoWin} /\ sess[s].prev[req[h].idx] \in Contents \cup {None}
    <3>1. (sess')[s] \in Session /\ sess[s] \in Session  BY <1>1, <2>1, <2>2
    <3>2. sess[s].prev \in [Chunks -> Contents \cup {None}]  BY <3>1 DEF Session
    <3> QED  BY <2>1, <3>1, <3>2 DEF Session
  <2>4. [req[h] EXCEPT !.pc = "write", !.win = sess'[s].win, !.prev = sess[s].prev[req[h].idx]] \in Request
    BY <1>2, <2>3 DEF Request
  <2> QED  BY <1>1, <1>13, <2>2, <2>4 DEF ChunkGoesToWrite, TypeOK
<1>14. ASSUME NEW h \in Handlers, WriteAccepted(h)  PROVE TypeOK'
  <2> DEFINE s == req[h].s  a == req[h].win  i == req[h].idx
             c == IF pipe[s][a].acc[i] = None THEN req[h].body ELSE pipe[s][a].acc[i]
  <2>1. s \in Sessions /\ a \in Attempts /\ i \in Chunks /\ req[h].body \in Contents
    BY <1>1, <1>2, <1>14 DEF WriteAccepted, RequestInv, At, Request
  <2>2. pipe[s][a] \in Pipe /\ c \in Contents \cup {None}
    <3>1. pipe[s][a] \in Pipe  BY <1>1, <2>1
    <3>2. pipe[s][a].acc \in [Chunks -> Contents \cup {None}]  BY <3>1 DEF Pipe
    <3> QED  BY <2>1, <3>1, <3>2
  <2>3. pipe' = [pipe EXCEPT ![s][a].acc[i] = c]  BY <1>14 DEF WriteAccepted
  <2> HIDE DEF c
  <2>4. [pipe[s][a] EXCEPT !.acc = [pipe[s][a].acc EXCEPT ![i] = c]] \in Pipe
    <3>1. [pipe[s][a].acc EXCEPT ![i] = c] \in [Chunks -> Contents \cup {None}]
      BY <2>2 DEF Pipe
    <3> QED  BY <2>2, <3>1 DEF Pipe
  <2>5. pipe' \in [Sessions -> [Attempts -> Pipe]]  BY <1>1, <2>1, <2>3, <2>4
  <2>6. req' \in [Handlers -> Request]  BY <1>1, <1>14, RequestType DEF WriteAccepted
  <2> QED  BY <1>1, <1>14, <2>5, <2>6 DEF WriteAccepted, TypeOK
<1>15. ASSUME NEW h \in Handlers, WriteFindsClosed(h) \/ WriteFails(h) \/ ChunkWaits(h) \/ CompleteWakes(h)
                                   \/ WriteStalls(h) \/ StallBreaks(h)
       PROVE TypeOK'
  BY <1>1, <1>15, RequestType DEF WriteFindsClosed, WriteFails, ChunkWaits, CompleteWakes, WriteStalls,
     StallBreaks, Goto, TypeOK
<1>16. ASSUME NEW h \in Handlers, ChunkChanged(h)  PROVE TypeOK'
  BY <1>1, <1>2, <1>4, <1>16, RequestType, SessionType DEF ChunkChanged, RequestInv, At, TypeOK, States
<1>17. ASSUME NEW h \in Handlers, CompleteLooks(h)  PROVE TypeOK'
  <2>1. req[h].s \in Sessions  BY <1>2, <1>17 DEF CompleteLooks, RequestInv, At
  <2>2. sess[req[h].s].done \in Attempts \cup {NoWin}  BY <1>1, <2>1 DEF Session
  <2>3. [req[h] EXCEPT !.pc = "await", !.win = sess[req[h].s].done] \in Request
    BY <1>2, <2>2 DEF Request
  <2> QED  BY <1>1, <1>17, <2>3, RequestType DEF CompleteLooks, TypeOK
<1>18. ASSUME NEW h \in Handlers, CompleteAnswers(h)  PROVE TypeOK'
  BY <1>1, <1>2, <1>4, <1>18, RequestType, SessionType DEF CompleteAnswers, RequestInv, At, TypeOK
<1>19. ASSUME NEW h \in Handlers, HandlerTerminates(h)  PROVE TypeOK'
  BY <1>1, <1>2, <1>4, <1>19, RequestType, TerminateType DEF HandlerTerminates, RequestInv, At, TypeOK
<1>20. ASSUME NEW h \in Handlers, HandlerRemoves(h)  PROVE TypeOK'
  <2>1. [req[h] EXCEPT !.pc = "create", !.s = None] \in Request  BY <1>2 DEF Request
  <2> QED  BY <1>1, <1>20, <2>1, RequestType DEF HandlerRemoves, Remove, TypeOK
<1>21. ASSUME NEW h \in Handlers, NEW hash \in Contents \cup {None}, InitLooksUp(h, hash)  PROVE TypeOK'
  <2>1. Idle \in Request  BY Defaults
  <2>2. /\ [Idle EXCEPT !.op = "init", !.pc = "create", !.body = hash] \in Request
        /\ \A s \in Sessions : [Idle EXCEPT !.op = "init", !.pc = "touch", !.s = s] \in Request
        /\ \A s \in Sessions : [Idle EXCEPT !.op = "init", !.pc = "term", !.s = s, !.body = hash] \in Request
    BY <2>1 DEF Request
  <2> QED  BY <1>1, <1>21, <2>2 DEF InitLooksUp, TypeOK
<1>22. ASSUME NEW h \in Handlers, NEW s \in Sessions, InitCreates(h, s)  PROVE TypeOK'
  <2>1. sess[s] = Unborn /\ Unborn.attempt = 0 /\ 0 \in Attempts
    <3>1. sess[s].state = "unborn"  BY <1>22 DEF InitCreates
    <3>2. SessionInv(s)  BY <1>3
    <3> QED  BY <3>1, <3>2 DEF SessionInv, Unborn, Attempts
  <2>2. Started(sess[s]) \in Session  BY <1>3, <1>4, <2>1, SessionType
  <2>3. [Started(sess[s]) EXCEPT !.hash = req[h].body] \in Session
    BY <1>2, <2>2 DEF Session, Request
  <2>4. [req[h] EXCEPT !.s = s, !.pc = "register"] \in Request  BY <1>2 DEF Request
  <2> QED  BY <1>1, <1>4, <1>22, <2>1, <2>3, <2>4, SessionType DEF InitCreates, TypeOK
<1>23. ASSUME NEW h \in Handlers, NEW s \in Sessions, CompleteGets(h, s) \/ AbortGets(h, s)  PROVE TypeOK'
  <2>1. Idle \in Request  BY Defaults
  <2>2. /\ [Idle EXCEPT !.pc = "complete", !.op = "complete", !.s = s] \in Request
        /\ [Idle EXCEPT !.pc = "term", !.op = "abort", !.s = s] \in Request
    BY <2>1 DEF Request
  <2> QED  BY <1>1, <1>4, <1>23, <2>2, SessionType DEF CompleteGets, AbortGets, Get, TypeOK
<1>24. ASSUME NEW h \in Handlers, NEW s \in Sessions, NEW i \in Chunks, NEW c \in Contents, ChunkGets(h, s, i, c)
       PROVE  TypeOK'
  <2>1. Idle \in Request  BY Defaults
  <2>2. [Idle EXCEPT !.pc = "chunk", !.op = "chunk", !.s = s, !.idx = i, !.body = c] \in Request
    BY <2>1 DEF Request
  <2> QED  BY <1>1, <1>4, <1>24, <2>2, SessionType DEF ChunkGets, TypeOK
<1>25. ASSUME NEW s \in Sessions, StatusTouches(s) \/ Expires(s)  PROVE TypeOK'
  <2>1. [sess[s] EXCEPT !.fresh = FALSE] \in Session  BY <1>3 DEF Session
  <2>2. sess' \in [Sessions -> Session]
    <3>1. CASE StatusTouches(s)  BY <1>4, <3>1, SessionType DEF StatusTouches
    <3>2. CASE Expires(s)  BY <1>1, <2>1, <3>2 DEF Expires
    <3> QED  BY <1>25, <3>1, <3>2
  <2> QED  BY <1>1, <1>25, <2>2 DEF StatusTouches, Expires, TypeOK
<1>26. ASSUME NEW s \in Sessions, GcTerminates(s)  PROVE TypeOK'
  <2>1. gc' \in [todo : SUBSET Sessions, cut : SUBSET Sessions, round : 0 .. GcRounds]
    BY <1>1, <1>26 DEF GcTerminates
  <2> QED  BY <1>1, <1>4, <1>26, <2>1, TerminateType DEF GcTerminates, TypeOK
<1>27. ASSUME NEW s \in Sessions, GcRemoves(s)  PROVE TypeOK'
  BY <1>1, <1>27 DEF GcRemoves, Remove, TypeOK
<1>28. CASE GcCollects
  BY <1>1, <1>28 DEF GcCollects, TypeOK
<1>29. ASSUME NEW s \in Sessions, NEW a \in Attempts, FinishRecords(s, a)  PROVE TypeOK'
  <2> DEFINE p == pipe[s][a]
             f == Settled(sess[s], a, p.harvest)
  <2>1. p \in Pipe /\ sess[s] \in Session  BY <1>1
  <2>2. [p EXCEPT !.run = "recorded", !.harvest = NoChunks] \in Pipe
    BY <2>1, Defaults DEF Pipe
  <2>3. f \in Session  BY <2>1 DEF Session, Pipe, Settled
  <2>4. sess' = [sess EXCEPT ![s] = Verdict(f, p.result)]  BY <1>29 DEF FinishRecords
  <2> HIDE DEF f
  <2>5. Verdict(f, p.result) \in Session
    <3>1. \A st \in States : [f EXCEPT !.state = st] \in Session
      BY <2>3 DEF Session
    <3>2. f.attempt + 1 \in Nat /\ "failed_retriable" \in States  BY <2>3 DEF Session, States
    <3>3. [f EXCEPT !.state = "failed_retriable", !.attempt = f.attempt + 1] \in Session
      BY <2>3, <3>2 DEF Session
    <3> QED  BY <2>3, <3>1, <3>3 DEF Verdict, States
  <2> QED  BY <1>1, <1>29, <2>2, <2>4, <2>5 DEF FinishRecords, TypeOK
<1>30. ASSUME NEW s \in Sessions, NEW a \in Attempts,
              FinishHarvests(s, a) \/ FinishCloses(s, a) \/ DoneCloses(s, a)
       PROVE  TypeOK'
  <2>1. pipe[s][a] \in Pipe  BY <1>1
  <2>2. /\ [pipe[s][a] EXCEPT !.run = "harvested", !.harvest = pipe[s][a].acc] \in Pipe
        /\ [pipe[s][a] EXCEPT !.run = "closing", !.closed = TRUE] \in Pipe
        /\ [pipe[s][a] EXCEPT !.run = "done"] \in Pipe
    BY <2>1 DEF Pipe
  <2>3. PICK p \in Pipe : pipe' = [pipe EXCEPT ![s][a] = p]
    <3>1. CASE FinishHarvests(s, a)  BY <2>2, <3>1 DEF FinishHarvests
    <3>2. CASE FinishCloses(s, a)  BY <2>2, <3>2 DEF FinishCloses
    <3>3. CASE DoneCloses(s, a)  BY <2>2, <3>3 DEF DoneCloses
    <3> QED  BY <1>30, <3>1, <3>2, <3>3
  <2>4. UNCHANGED <<sess, byID, byKey, req, gc>>
    BY <1>30 DEF FinishHarvests, FinishCloses, DoneCloses
  <2>5. pipe' \in [Sessions -> [Attempts -> Pipe]]  BY <1>1, <2>3
  <2> QED  BY <1>1, <2>4, <2>5 DEF TypeOK
<1>31. ASSUME NEW s \in Sessions, NEW a \in Attempts, NEW i \in Chunks, DriverReads(s, a, i)  PROVE TypeOK'
  <2>1. pipe[s][a] \in Pipe  BY <1>1
  <2>2. [pipe[s][a] EXCEPT !.read = @ \cup {i}] \in Pipe  BY <2>1 DEF Pipe
  <2> QED  BY <1>1, <1>31, <2>2 DEF DriverReads, TypeOK
<1>32. ASSUME NEW s \in Sessions, NEW a \in Attempts, NEW r \in {"nil", "permanent", "transient"},
              PutReturns(s, a, r)
       PROVE  TypeOK'
  <2>1. pipe[s][a] \in Pipe  BY <1>1
  <2>2. \A c \in BOOLEAN : [pipe[s][a] EXCEPT !.run = "returned", !.result = r, !.closed = c] \in Pipe
    BY <2>1 DEF Pipe
  <2>3. PICK c \in BOOLEAN :
          pipe' = [pipe EXCEPT ![s][a] = [@ EXCEPT !.run = "returned", !.result = r, !.closed = c]]
    BY <1>32, <2>1 DEF PutReturns, Pipe
  <2> QED  BY <1>1, <1>32, <2>2, <2>3 DEF PutReturns, TypeOK
<1> QED
  BY <1>10, <1>11, <1>12, <1>13, <1>14, <1>15, <1>16, <1>17, <1>18, <1>19, <1>20, <1>21, <1>22,
     <1>23, <1>24, <1>25, <1>26, <1>27, <1>28, <1>29, <1>30, <1>31, <1>32, NextCases
-----------------------------------------------------------------------------
(* What a step does to the sessions                                        *)

\* What stays once it is there, whatever step is taken.
Grown(s) ==
  /\ sess[s].state # "unborn" => sess'[s].state # "unborn"
  /\ \A a \in Attempts :
       /\ pipe[s][a].run # "none" => pipe'[s][a].run # "none"
       /\ pipe[s][a].result = "nil" => pipe'[s][a].result = "nil"
       /\ \A i \in Chunks : pipe[s][a].acc[i] # None => pipe'[s][a].acc[i] # None

Good(s) == SessionInv(s)' /\ Grown(s)

\* A session whose state and attempts stay as they are, touched or not.
LEMMA SameSession ==
  ASSUME NEW s \in Sessions, SessionInv(s),
         pipe'[s] = pipe[s],
         sess'[s].state = sess[s].state, sess'[s].attempt = sess[s].attempt,
         sess'[s].win = sess[s].win, sess'[s].done = sess[s].done,
         sess[s].state # "unborn" \/ sess'[s] = sess[s]
  PROVE  Good(s)
BY DEF Good, SessionInv, Grown, Undecided, Over, Untried, Succeeded

\* A touch changes nothing that counts.
LEMMA TouchStep ==
  ASSUME IInv, UNCHANGED pipe, NEW s \in Sessions, sess[s].state # "unborn",
         NEW b \in BOOLEAN, sess' = [sess EXCEPT ![s].fresh = b]
  PROVE  \A t \in Sessions : Good(t)
<1> TAKE t \in Sessions
<1>1. sess[t] \in Session /\ sess[s] \in Session /\ DOMAIN sess = Sessions  BY DEF IInv, TypeOK
<1>2. SessionInv(t)  BY DEF IInv
<1>3. t # s => sess'[t] = sess[t]  BY <1>1
<1>4. sess'[s] = [sess[s] EXCEPT !.fresh = b]  BY <1>1
<1>5. /\ sess'[s].state = sess[s].state /\ sess'[s].attempt = sess[s].attempt
      /\ sess'[s].win = sess[s].win /\ sess'[s].done = sess[s].done
  BY <1>1, <1>4 DEF Session
<1> QED  BY <1>2, <1>3, <1>5, SameSession

\* A step of one attempt that neither starts nor decides it.
LEMMA AttemptStep ==
  ASSUME IInv, UNCHANGED sess, NEW s \in Sessions, NEW a \in Attempts, NEW q \in Pipe,
         pipe' = [pipe EXCEPT ![s][a] = q],
         pipe[s][a].run # "none", q.run # "none",
         Undecided(s, a) <=> q.run \in {"putting", "returned", "harvested", "closing"},
         q.run = "putting" <=> q.result = "none",
         pipe[s][a].result = "nil" => q.result = "nil",
         q.result = "transient" /\ Undecided(s, a) /\ sess[s].state = "receiving" => a + 1 \in Attempts,
         \A i \in Chunks : pipe[s][a].acc[i] # None => q.acc[i] # None
  PROVE  \A t \in Sessions : Good(t)
<1> TAKE t \in Sessions
<1>1. pipe \in [Sessions -> [Attempts -> Pipe]] /\ SessionInv(t)  BY DEF IInv, TypeOK
<1>2. CASE t # s
  BY <1>1, <1>2, SameSession
<1>3. CASE t = s
  <2>1. /\ pipe'[s] = [pipe[s] EXCEPT ![a] = q]
        /\ pipe'[s][a] = q
        /\ \A b \in Attempts : b # a => pipe'[s][b] = pipe[s][b]
    BY <1>1
  <2>2. pipe[s][a] # NoPipe  BY DEF NoPipe
  <2>3. \A b \in Attempts : Undecided(s, b)' <=> Undecided(s, b)
    BY <2>1 DEF Undecided
  <2>4. \A b : Untried(s, b) => Untried(s, b)'
    BY <2>1, <2>2 DEF Untried
  <2>5. Succeeded(s) => Succeeded(s)'
    BY <2>1 DEF Succeeded
  <2>6. Grown(s)  BY <2>1 DEF Grown
  <2>7. \A b \in Attempts : pipe'[s][b].run \in {"none", "putting"} <=> pipe'[s][b].result = "none"
    BY <1>1, <1>3, <2>1 DEF SessionInv
  <2>8. \A b \in Attempts : Undecided(s, b)' /\ pipe'[s][b].result = "transient" /\ sess[s].state = "receiving"
                              => b + 1 \in Attempts
    BY <1>1, <1>3, <2>1, <2>3 DEF SessionInv
  <2> QED
    BY <1>1, <1>3, <2>3, <2>4, <2>5, <2>6, <2>7, <2>8 DEF Good, SessionInv, Over
<1> QED  BY <1>2, <1>3

\* A session's first attempt, or the next one after a failure, starts.
LEMMA StartStep ==
  ASSUME IInv, NEW s \in Sessions, sess[s].state \in {"unborn", "failed_retriable"},
         StartAttempt(s), NEW f \in Session, sess' = [sess EXCEPT ![s] = f],
         f.state = "receiving", f.attempt = sess[s].attempt,
         f.win = sess[s].attempt, f.done = sess[s].attempt
  PROVE  \A t \in Sessions : Good(t)
<1> USE SessionAssumption
<1> TAKE t \in Sessions
<1>1. /\ pipe \in [Sessions -> [Attempts -> Pipe]] /\ sess \in [Sessions -> Session]
      /\ SessionInv(t) /\ SessionInv(s)
  BY DEF IInv, TypeOK
<1>2. CASE t # s
  BY <1>1, <1>2, SameSession DEF StartAttempt
<1>3. CASE t = s
  <2> DEFINE b == sess[s].attempt
  <2>1. b \in Attempts /\ Untried(s, b) /\ \A a \in Attempts : ~Undecided(s, a)
    <3>1. CASE sess[s].state = "unborn"
      <4>1. sess[s] = Unborn /\ Untried(s, 0)  BY <1>1, <3>1 DEF SessionInv
      <4>2. b = 0 /\ 0 \in Attempts  BY <4>1 DEF Unborn, Attempts
      <4>3. \A a \in Attempts : pipe[s][a] = NoPipe  BY <4>1 DEF Untried, Attempts
      <4> QED  BY <4>1, <4>2, <4>3 DEF Undecided, NoPipe
    <3>2. CASE sess[s].state = "failed_retriable"
      BY <1>1, <3>2 DEF SessionInv, Over
    <3> QED  BY <3>1, <3>2
  <2>2. /\ pipe'[s][b] = [NoPipe EXCEPT !.run = "putting"]
        /\ \A a \in Attempts : a # b => pipe'[s][a] = pipe[s][a]
        /\ sess'[s] = f
    BY <1>1, <2>1 DEF StartAttempt
  <2>3. pipe'[s][b].run = "putting" /\ pipe'[s][b].result = "none"
    BY <2>2 DEF NoPipe
  <2>4. \A a \in Attempts : Undecided(s, a)' <=> a = b
    BY <2>1, <2>2, <2>3 DEF Undecided
  <2>5. Untried(s, b + 1)'
    BY <2>1, <2>2 DEF Untried, Attempts
  <2>6. pipe[s][b] = NoPipe  BY <2>1 DEF Untried, Attempts
  <2>7. Grown(s)
    <3>1. \A i \in Chunks : pipe[s][b].acc[i] = None  BY <2>6 DEF NoPipe, NoChunks
    <3>2. pipe[s][b].run = "none" /\ pipe[s][b].result = "none"  BY <2>6 DEF NoPipe
    <3>3. sess'[s].state # "unborn"  BY <2>2
    <3> HIDE DEF b
    <3> QED  BY <2>2, <3>1, <3>2, <3>3 DEF Grown
  <2>8. \A a \in Attempts : /\ pipe'[s][a].run \in {"none", "putting"} <=> pipe'[s][a].result = "none"
                            /\ Undecided(s, a)' => pipe'[s][a].result # "transient"
    <3> TAKE a \in Attempts
    <3> HIDE DEF b
    <3>1. CASE a = b  BY <2>3, <3>1
    <3>2. CASE a # b
      <4>1. pipe'[s][a] = pipe[s][a] /\ ~Undecided(s, a)'  BY <2>2, <2>4, <3>2
      <4>2. pipe[s][a].run \in {"none", "putting"} <=> pipe[s][a].result = "none"
        BY <1>1 DEF SessionInv
      <4> QED  BY <4>1, <4>2
    <3> QED  BY <3>1, <3>2
  <2> QED  BY <1>3, <2>1, <2>2, <2>4, <2>5, <2>7, <2>8 DEF Good, SessionInv
<1> QED  BY <1>2, <1>3

\* The latest attempt is killed; the session may lose it, but does not gain one.
LEMMA KillStep ==
  ASSUME IInv, NEW s \in Sessions, sess[s].state # "unborn",
         pipe' = [pipe EXCEPT ![s] = Killed(s)],
         NEW f \in Session, sess' = [sess EXCEPT ![s] = f],
         (f.state = sess[s].state /\ f.state # "receiving") \/ f.state \in {"aborted", "failed_permanent"},
         f.attempt = sess[s].attempt, f.win = sess[s].win, f.done = sess[s].done
  PROVE  \A t \in Sessions : Good(t)
<1> USE SessionAssumption
<1> TAKE t \in Sessions
<1>1. /\ pipe \in [Sessions -> [Attempts -> Pipe]] /\ sess \in [Sessions -> Session]
      /\ SessionInv(t) /\ SessionInv(s)
  BY DEF IInv, TypeOK
<1>2. CASE t # s
  BY <1>1, <1>2, SameSession
<1>3. CASE t = s
  <2>1. /\ pipe'[s] = Killed(s) /\ sess'[s] = f
        /\ \A a \in Attempts :
             pipe'[s][a] = [pipe[s][a] EXCEPT !.cancelled = IF a = sess[s].done THEN TRUE ELSE @,
                                              !.closed = IF a = sess[s].win THEN TRUE ELSE @]
    BY <1>1 DEF Killed
  <2>2. \A a \in Attempts : /\ pipe'[s][a].run = pipe[s][a].run
                            /\ pipe'[s][a].result = pipe[s][a].result
                            /\ pipe'[s][a].acc = pipe[s][a].acc
    <3> TAKE a \in Attempts
    <3>1. pipe[s][a] \in Pipe  BY <1>1
    <3> DEFINE p == pipe[s][a]  q == pipe'[s][a]
    <3>2. q = [p EXCEPT !.cancelled = IF a = sess[s].done THEN TRUE ELSE @,
                        !.closed = IF a = sess[s].win THEN TRUE ELSE @]
      BY <2>1
    <3> HIDE DEF p, q
    <3>3. p \in Pipe  BY <3>1 DEF p
    <3>4. q.run = p.run /\ q.result = p.result /\ q.acc = p.acc
      BY <3>2, <3>3 DEF Pipe
    <3> QED  BY <3>4 DEF p, q
  <2>3. \A a \in Attempts : Undecided(s, a)' <=> Undecided(s, a)  BY <2>2 DEF Undecided
  <2>4. Succeeded(s) => Succeeded(s)'  BY <2>2 DEF Succeeded
  <2>5. Grown(s)
    <3>1. f.state # "unborn"  OBVIOUS
    <3> QED  BY <2>1, <2>2, <3>1 DEF Grown
  <2>6. f.state = "failed_retriable" => Untried(s, f.attempt)'
    <3> SUFFICES ASSUME f.state = "failed_retriable", NEW a \in Attempts, a >= f.attempt
                 PROVE  pipe'[s][a] = NoPipe
      BY DEF Untried
    <3>1. /\ sess[s].state = "failed_retriable" /\ f.attempt \in Attempts
          /\ sess[s].done < f.attempt /\ sess[s].win = NoWin /\ Untried(s, f.attempt)
      BY <1>1 DEF SessionInv
    <3>2. pipe[s][a] = NoPipe  BY <3>1 DEF Untried
    <3>3. sess[s].done \in Int  BY <1>1 DEF Session, Attempts, NoWin
    <3>4. a # sess[s].done /\ a # sess[s].win  BY <3>1, <3>3 DEF Attempts, NoWin
    <3>5. pipe[s][a] \in Pipe  BY <1>1
    <3>6. pipe'[s][a] = pipe[s][a]  BY <2>1, <3>4, <3>5 DEF Pipe
    <3> QED  BY <3>2, <3>6
  <2>7. \A a \in Attempts :
          /\ Undecided(s, a)' => a = f.done
          /\ pipe'[s][a].run \in {"none", "putting"} <=> pipe'[s][a].result = "none"
    BY <1>1, <2>2, <2>3 DEF SessionInv
  <2>8. SessionInv(s)'
    <3>1. CASE f.state \in {"aborted", "failed_permanent"}
      BY <2>1, <2>7, <3>1 DEF SessionInv
    <3>2. CASE f.state = sess[s].state /\ f.state = "failed_retriable"
      BY <1>1, <2>1, <2>3, <2>6, <2>7, <3>2 DEF SessionInv, Over
    <3>3. CASE f.state = sess[s].state /\ f.state = "completed"
      BY <1>1, <2>1, <2>4, <2>7, <3>3 DEF SessionInv
    <3> QED  BY <3>1, <3>2, <3>3 DEF Session, States
  <2> QED  BY <1>3, <2>5, <2>8 DEF Good
<1> QED  BY <1>2, <1>3

\* The verdict on an attempt: the session it leaves.
LEMMA VerdictOf ==
  ASSUME NEW f \in Session, NEW a \in Attempts, NEW crcs, NEW r
  PROVE  LET g == Verdict(Settled(f, a, crcs), r) IN
         /\ g.done = f.done
         /\ g.win = IF f.win = a THEN NoWin ELSE f.win
         /\ r = "nil" => g.state = "completed" /\ g.attempt = f.attempt
         /\ r # "nil" /\ f.state # "receiving" => g.state = f.state /\ g.attempt = f.attempt
         /\ r = "permanent" /\ f.state = "receiving" =>
              g.state = "failed_permanent" /\ g.attempt = f.attempt
         /\ r = "transient" /\ f.state = "receiving" =>
              g.state = "failed_retriable" /\ g.attempt = f.attempt + 1
<1>1. /\ Settled(f, a, crcs).state = f.state /\ Settled(f, a, crcs).attempt = f.attempt
      /\ Settled(f, a, crcs).done = f.done
      /\ Settled(f, a, crcs).win = IF f.win = a THEN NoWin ELSE f.win
      /\ Settled(f, a, crcs) = [f EXCEPT !.fresh = TRUE, !.prev = crcs, !.win = IF f.win = a THEN NoWin ELSE f.win]
  BY DEF Session, Settled
<1> DEFINE e == Settled(f, a, crcs)
<1>2. {"state", "attempt", "done", "win"} \subseteq DOMAIN e
  BY <1>1 DEF Session
<1> HIDE DEF e
<1>3. \A st : LET g == [e EXCEPT !.state = st] IN
        g.state = st /\ g.attempt = e.attempt /\ g.done = e.done /\ g.win = e.win
  BY <1>2
<1>4. \A n : LET g == [e EXCEPT !.state = "failed_retriable", !.attempt = n] IN
        g.state = "failed_retriable" /\ g.attempt = n /\ g.done = e.done /\ g.win = e.win
  BY <1>2
<1>5. e.state = f.state /\ e.attempt = f.attempt /\ e.done = f.done
      /\ e.win = IF f.win = a THEN NoWin ELSE f.win
  BY <1>1 DEF e
<1>6. LET g == Verdict(e, r) IN
         /\ g.done = e.done /\ g.win = e.win
         /\ r = "nil" => g.state = "completed" /\ g.attempt = e.attempt
         /\ r # "nil" /\ e.state # "receiving" => g.state = e.state /\ g.attempt = e.attempt
         /\ r = "permanent" /\ e.state = "receiving" =>
              g.state = "failed_permanent" /\ g.attempt = e.attempt
         /\ r = "transient" /\ e.state = "receiving" =>
              g.state = "failed_retriable" /\ g.attempt = e.attempt + 1
  BY <1>3, <1>4 DEF Verdict
<1> QED  BY <1>5, <1>6 DEF e

\* The verdict of an attempt is recorded.
LEMMA RecordStep ==
  ASSUME IInv, NEW s \in Sessions, NEW a \in Attempts, FinishRecords(s, a)
  PROVE  \A t \in Sessions : Good(t)
<1> USE SessionAssumption
<1> TAKE t \in Sessions
<1> DEFINE p == pipe[s][a]  f == sess[s]  g == Verdict(Settled(f, a, p.harvest), p.result)
<1>1. /\ pipe \in [Sessions -> [Attempts -> Pipe]] /\ sess \in [Sessions -> Session]
      /\ SessionInv(t) /\ SessionInv(s)
  BY DEF IInv, TypeOK
<1>2. /\ p.run = "closing" /\ sess' = [sess EXCEPT ![s] = g]
      /\ pipe' = [pipe EXCEPT ![s][a] = [@ EXCEPT !.run = "recorded", !.harvest = NoChunks]]
  BY DEF FinishRecords
<1>3. CASE t # s
  BY <1>1, <1>2, <1>3, SameSession
<1>4. CASE t = s
  <2>1. p \in Pipe /\ f \in Session /\ Undecided(s, a)
    BY <1>1, <1>2 DEF Undecided
  <2>2. f.done = a /\ f.state \notin {"unborn", "failed_retriable"} /\ p.result # "none"
    <3>1. f.done = a /\ p.result # "none"  BY <1>1, <1>2, <2>1 DEF SessionInv
    <3>2. f.state # "unborn"
      <4>1. Untried(s, 0) => p = NoPipe  BY DEF Untried, Attempts
      <4> QED  BY <1>1, <1>2, <4>1 DEF SessionInv, NoPipe
    <3>3. f.state # "failed_retriable"  BY <1>1, <2>1 DEF SessionInv, Over
    <3> QED  BY <3>1, <3>2, <3>3
  <2>3. /\ sess'[s] = g
        /\ pipe'[s][a] = [p EXCEPT !.run = "recorded", !.harvest = NoChunks]
        /\ \A b \in Attempts : b # a => pipe'[s][b] = pipe[s][b]
    BY <1>1, <1>2
  <2>4. pipe'[s][a].run = "recorded" /\ pipe'[s][a].result = p.result /\ pipe'[s][a].acc = p.acc
    BY <2>1, <2>3 DEF Pipe
  <2>5. \A b \in Attempts : ~Undecided(s, b)'
    <3> TAKE b \in Attempts
    <3>1. Undecided(s, b) => b = a  BY <1>1, <2>2 DEF SessionInv
    <3> QED  BY <2>3, <2>4, <3>1 DEF Undecided
  <2>6. Succeeded(s) \/ p.result = "nil" => Succeeded(s)'
    BY <2>3, <2>4 DEF Succeeded
  <2>7. \A b \in Attempts : pipe'[s][b].run \in {"none", "putting"} <=> pipe'[s][b].result = "none"
    <3> TAKE b \in Attempts
    <3>1. CASE b = a  BY <2>2, <2>4, <3>1
    <3>2. CASE b # a  BY <1>1, <2>3, <3>2 DEF SessionInv
    <3> QED  BY <3>1, <3>2
  <2>8. /\ g.done = f.done
        /\ g.win = IF f.win = a THEN NoWin ELSE f.win
        /\ p.result = "nil" => g.state = "completed" /\ g.attempt = f.attempt
        /\ p.result # "nil" /\ f.state # "receiving" => g.state = f.state /\ g.attempt = f.attempt
        /\ p.result = "permanent" /\ f.state = "receiving" =>
             g.state = "failed_permanent" /\ g.attempt = f.attempt
        /\ p.result = "transient" /\ f.state = "receiving" =>
             g.state = "failed_retriable" /\ g.attempt = f.attempt + 1
    BY <2>1, VerdictOf
  <2>9. p.result \in {"nil", "permanent", "transient"}
    BY <2>1, <2>2 DEF Pipe
  <2> HIDE DEF g, f, p
  <2>10. Grown(s)
    <3>1. g.state # "unborn"  BY <2>2, <2>8, <2>9
    <3>2. \A b \in Attempts : b = a \/ pipe'[s][b] = pipe[s][b]  BY <2>3
    <3> QED  BY <2>3, <2>4, <3>1, <3>2 DEF Grown, p
  <2>11. SessionInv(s)'
    <3>1. CASE p.result = "nil"
      BY <2>3, <2>5, <2>6, <2>7, <2>8, <3>1 DEF SessionInv
    <3>2. CASE p.result # "nil" /\ f.state # "receiving"
      <4>1. g.state \notin {"unborn", "receiving", "failed_retriable"}  BY <2>2, <2>8, <3>2
      <4>2. g.state = "completed" => Succeeded(s)'
        BY <1>1, <2>6, <2>8, <3>2 DEF SessionInv, f
      <4> QED  BY <2>3, <2>5, <2>7, <4>1, <4>2 DEF SessionInv
    <3>3. CASE p.result = "permanent" /\ f.state = "receiving"
      BY <2>3, <2>5, <2>7, <2>8, <3>3 DEF SessionInv
    <3>4. CASE p.result = "transient" /\ f.state = "receiving"
      <4>1. /\ f.attempt = a /\ f.win = a /\ Untried(s, a + 1) /\ a + 1 \in Attempts
        BY <1>1, <2>1, <2>2, <3>4 DEF SessionInv, f, p
      <4>2. g.state = "failed_retriable" /\ g.attempt = a + 1 /\ g.win = NoWin /\ g.done = a
        BY <2>2, <2>8, <3>4, <4>1
      <4>3. Untried(s, a + 1)'
        <5> SUFFICES ASSUME NEW b \in Attempts, b >= a + 1  PROVE pipe'[s][b] = NoPipe
          BY DEF Untried
        <5>1. pipe[s][b] = NoPipe /\ b # a  BY <4>1 DEF Untried, Attempts
        <5> QED  BY <2>3, <5>1
      <4>4. a < a + 1  BY DEF Attempts
      <4> QED  BY <2>3, <2>5, <2>7, <4>1, <4>2, <4>3, <4>4 DEF SessionInv, Over
    <3> QED  BY <2>9, <3>1, <3>2, <3>3, <3>4
  <2> QED  BY <1>4, <2>10, <2>11 DEF Good
<1> QED  BY <1>3, <1>4

\* Every step leaves every session in a state it may be in, and only adds to it.
LEMMA SessionStep ==
  ASSUME IInv, Next
  PROVE  \A t \in Sessions : Good(t)
<1> USE SessionAssumption
<1>1. /\ sess \in [Sessions -> Session] /\ pipe \in [Sessions -> [Attempts -> Pipe]]
      /\ req \in [Handlers -> Request]
      /\ \A s \in Sessions : SessionInv(s) /\ sess[s] \in Session
      /\ \A h \in Handlers : RequestInv(h) /\ req[h] \in Request
      /\ MapsInv
  BY DEF IInv, TypeOK
<1>2. ASSUME UNCHANGED <<sess, pipe>>  PROVE \A t \in Sessions : Good(t)
  <2>1. \A t \in Sessions : sess[t].state # "unborn" \/ sess'[t] = sess[t]  BY <1>2
  <2> QED  BY <1>1, <1>2, <2>1, SameSession
<1>3. ASSUME NEW h \in Handlers, NEW l \in {"touch", "chunk", "write", "changed", "complete", "await",
                                             "final", "term", "remove"}, At(h, l)
      PROVE  req[h].s \in Sessions /\ sess[req[h].s].state # "unborn"
  BY <1>1, <1>3 DEF RequestInv, At
<1>4. \A s \in byID \cup gc.todo \cup gc.cut : s \in Sessions /\ sess[s].state # "unborn"
  BY <1>1 DEF MapsInv, IInv, TypeOK
<1>5. ASSUME UNCHANGED pipe, NEW s \in Sessions, sess[s].state # "unborn", sess' = Touched(sess, s)
      PROVE  \A t \in Sessions : Good(t)
  BY <1>5, TouchStep DEF Touched
<1>6. ASSUME NEW s \in Sessions, sess[s].state # "unborn", Terminate(s)
      PROVE  \A t \in Sessions : Good(t)
  <2> DEFINE st == IF sess[s].state = "receiving" THEN "aborted" ELSE sess[s].state
             f == [sess[s] EXCEPT !.state = st]
  <2>1. sess[s] \in Session /\ st \in States  BY <1>1 DEF Session, States
  <2>2. sess' = [sess EXCEPT ![s] = f]  BY <1>6 DEF Terminate
  <2>3. /\ f \in Session /\ f.state = st /\ f.attempt = sess[s].attempt
        /\ f.win = sess[s].win /\ f.done = sess[s].done
    BY <2>1 DEF Session
  <2>4. pipe' = [pipe EXCEPT ![s] = Killed(s)]  BY <1>6 DEF Terminate
  <2>5. (st = sess[s].state /\ st # "receiving") \/ st = "aborted"  OBVIOUS
  <2> HIDE DEF f, st
  <2> QED  BY <1>6, <2>2, <2>3, <2>4, <2>5, KillStep
<1>10. ASSUME NEW h \in Handlers, InitResumes(h) \/ CompleteAnswers(h)  PROVE \A t \in Sessions : Good(t)
  BY <1>3, <1>5, <1>10 DEF InitResumes, CompleteAnswers
<1>11. ASSUME NEW h \in Handlers,
              \/ InitRegisters(h) \/ InitFails(h) \/ ChunkAnswers(h) \/ WriteFindsClosed(h) \/ WriteFails(h)
              \/ ChunkWaits(h) \/ ChunkVerdict(h) \/ CompleteLooks(h) \/ CompleteWakes(h)
              \/ HandlerRemoves(h) \/ CompleteCancelled(h) \/ WriteStalls(h) \/ StallBreaks(h)
       PROVE  \A t \in Sessions : Good(t)
  BY <1>2, <1>11 DEF InitRegisters, InitFails, ChunkAnswers, WriteFindsClosed, WriteFails, ChunkWaits,
     ChunkVerdict, CompleteLooks, CompleteWakes, HandlerRemoves, CompleteCancelled, WriteStalls, StallBreaks
<1>12. ASSUME NEW h \in Handlers, ChunkGoesToWrite(h)  PROVE \A t \in Sessions : Good(t)
  <2> DEFINE s == req[h].s  f == Started(sess[s])
  <2>1. s \in Sessions /\ sess[s] \in Session  BY <1>1, <1>3, <1>12 DEF ChunkGoesToWrite
  <2>2. CASE UNCHANGED <<sess, pipe>>  BY <1>2, <2>2
  <2>3. CASE sess[s].state = "failed_retriable" /\ sess' = [sess EXCEPT ![s] = f] /\ StartAttempt(s)
    <3>1. sess[s].attempt \in Attempts  BY <1>1, <2>1, <2>3 DEF SessionInv
    <3>2. f \in Session  BY <2>1, <3>1, SessionType DEF IInv
    <3>3. f.state = "receiving" /\ f.attempt = sess[s].attempt /\ f.win = sess[s].attempt
          /\ f.done = sess[s].attempt
      BY <2>1 DEF Started, Session
    <3> HIDE DEF f
    <3> QED  BY <2>1, <2>3, <3>2, <3>3, StartStep
  <2> QED  BY <1>12, <2>2, <2>3 DEF ChunkGoesToWrite
<1>13. ASSUME NEW h \in Handlers, WriteAccepted(h)  PROVE \A t \in Sessions : Good(t)
  <2> DEFINE s == req[h].s  a == req[h].win  i == req[h].idx  p == pipe[s][a]
             c == IF p.acc[i] = None THEN req[h].body ELSE p.acc[i]
             q == [p EXCEPT !.acc = [p.acc EXCEPT ![i] = c]]
  <2>1. /\ s \in Sessions /\ a \in Attempts /\ i \in Chunks /\ req[h].body \in Contents
        /\ p.run # "none" /\ p \in Pipe
    BY <1>1, <1>13 DEF WriteAccepted, RequestInv, At, Request
  <2>2. pipe' = [pipe EXCEPT ![s][a].acc[i] = c] /\ UNCHANGED sess
    BY <1>13 DEF WriteAccepted
  <2>3. pipe' = [pipe EXCEPT ![s][a] = q]
    <3> HIDE DEF c
    <3> QED  BY <1>1, <2>1, <2>2
  <2>4. c \in Contents \cup {None}  BY <2>1 DEF Pipe
  <2>5. \A j \in Chunks : p.acc[j] # None => [p.acc EXCEPT ![i] = c][j] # None
    BY <2>1 DEF Pipe
  <2>6. q \in Pipe /\ q.run = p.run /\ q.result = p.result /\ q.acc = [p.acc EXCEPT ![i] = c]
    <3>1. [p.acc EXCEPT ![i] = c] \in [Chunks -> Contents \cup {None}]  BY <2>1, <2>4 DEF Pipe
    <3> HIDE DEF c, p
    <3> QED  BY <2>1, <3>1 DEF Pipe
  <2>7. p.run = "putting" <=> p.result = "none"  BY <1>1, <2>1 DEF SessionInv
  <2>8. p.result = "transient" /\ Undecided(s, a) /\ sess[s].state = "receiving" => a + 1 \in Attempts
    BY <1>1, <2>1 DEF SessionInv
  <2> HIDE DEF q, c, s, a, i
  <2>9. /\ p.run # "none" /\ q.run # "none"
        /\ Undecided(s, a) <=> q.run \in {"putting", "returned", "harvested", "closing"}
        /\ q.run = "putting" <=> q.result = "none"
        /\ p.result = "nil" => q.result = "nil"
        /\ q.result = "transient" /\ Undecided(s, a) /\ sess[s].state = "receiving" => a + 1 \in Attempts
        /\ \A j \in Chunks : p.acc[j] # None => q.acc[j] # None
    BY <2>1, <2>5, <2>6, <2>7, <2>8 DEF Undecided
  <2>10. UNCHANGED sess /\ s \in Sessions /\ a \in Attempts /\ q \in Pipe
    BY <2>1, <2>2, <2>6
  <2> QED  BY <2>3, <2>9, <2>10, AttemptStep
<1>14. ASSUME NEW h \in Handlers, ChunkChanged(h)  PROVE \A t \in Sessions : Good(t)
  <2> DEFINE s == req[h].s  f == [sess[s] EXCEPT !.state = "failed_permanent"]
  <2>1. s \in Sessions /\ sess[s] \in Session /\ sess[s].state # "unborn"
    BY <1>1, <1>3, <1>14 DEF ChunkChanged
  <2>2. /\ f \in Session /\ f.state = "failed_permanent" /\ f.attempt = sess[s].attempt
        /\ f.win = sess[s].win /\ f.done = sess[s].done
    BY <2>1 DEF Session, States
  <2>3. sess' = [sess EXCEPT ![s] = f] /\ pipe' = [pipe EXCEPT ![s] = Killed(s)]
    BY <1>14 DEF ChunkChanged
  <2> HIDE DEF f
  <2> QED  BY <2>1, <2>2, <2>3, KillStep
<1>15. ASSUME NEW h \in Handlers, HandlerTerminates(h)  PROVE \A t \in Sessions : Good(t)
  BY <1>3, <1>6, <1>15 DEF HandlerTerminates
<1>16. ASSUME NEW h \in Handlers, NEW hash, InitLooksUp(h, hash)  PROVE \A t \in Sessions : Good(t)
  BY <1>2, <1>16 DEF InitLooksUp
<1>17. ASSUME NEW h \in Handlers, NEW s \in Sessions, InitCreates(h, s)  PROVE \A t \in Sessions : Good(t)
  <2> DEFINE f == [Started(sess[s]) EXCEPT !.hash = req[h].body]
  <2>1. sess[s] = Unborn /\ Unborn.attempt = 0 /\ 0 \in Attempts
    <3>1. sess[s].state = "unborn"  BY <1>17 DEF InitCreates
    <3> QED  BY <1>1, <3>1 DEF SessionInv, Unborn, Attempts
  <2>2. Started(sess[s]) \in Session  BY <1>1, <2>1, SessionType DEF IInv
  <2>3. /\ Started(sess[s]).state = "receiving" /\ Started(sess[s]).attempt = sess[s].attempt
        /\ Started(sess[s]).win = sess[s].attempt /\ Started(sess[s]).done = sess[s].attempt
    BY <1>1 DEF Started, Session
  <2>4. /\ f \in Session /\ f.state = "receiving" /\ f.attempt = sess[s].attempt
        /\ f.win = sess[s].attempt /\ f.done = sess[s].attempt
    BY <1>1, <2>2, <2>3 DEF Session, Request
  <2>5. sess' = [sess EXCEPT ![s] = f] /\ StartAttempt(s) /\ sess[s].state = "unborn"
    BY <1>17 DEF InitCreates
  <2> HIDE DEF f
  <2> QED  BY <2>4, <2>5, StartStep
<1>18. ASSUME NEW h \in Handlers, NEW s \in Sessions, CompleteGets(h, s)
       PROVE  \A t \in Sessions : Good(t)
  BY <1>4, <1>5, <1>18 DEF CompleteGets, Get
<1>19. ASSUME NEW h \in Handlers, NEW s \in Sessions, AbortGets(h, s)
       PROVE  \A t \in Sessions : Good(t)
  BY <1>2, <1>19 DEF AbortGets
<1>20. ASSUME NEW h \in Handlers, NEW s \in Sessions, NEW i \in Chunks, NEW c \in Contents, ChunkGets(h, s, i, c)
       PROVE  \A t \in Sessions : Good(t)
  BY <1>4, <1>5, <1>20 DEF ChunkGets
<1>21. ASSUME NEW s \in Sessions, StatusTouches(s)  PROVE \A t \in Sessions : Good(t)
  BY <1>4, <1>5, <1>21 DEF StatusTouches
<1>22. ASSUME NEW s \in Sessions, Expires(s)  PROVE \A t \in Sessions : Good(t)
  BY <1>4, <1>22, TouchStep DEF Expires
<1>23. ASSUME NEW s \in Sessions, GcTerminates(s)  PROVE \A t \in Sessions : Good(t)
  BY <1>4, <1>6, <1>23 DEF GcTerminates
<1>24. ASSUME NEW s \in Sessions, GcRemoves(s) \/ GcCollects  PROVE \A t \in Sessions : Good(t)
  BY <1>2, <1>24 DEF GcRemoves, GcCollects
<1>25. ASSUME NEW s \in Sessions, NEW a \in Attempts, FinishRecords(s, a)  PROVE \A t \in Sessions : Good(t)
  BY <1>25, RecordStep
<1>26. ASSUME NEW s \in Sessions, NEW a \in Attempts,
              FinishHarvests(s, a) \/ FinishCloses(s, a) \/ DoneCloses(s, a)
       PROVE  \A t \in Sessions : Good(t)
  <2> DEFINE p == pipe[s][a]
  <2>1. p \in Pipe /\ p.run \in {"returned", "harvested", "recorded"}
    BY <1>1, <1>26 DEF FinishHarvests, FinishCloses, DoneCloses
  <2>2. /\ p.run = "putting" <=> p.result = "none"
        /\ p.result = "transient" /\ Undecided(s, a) /\ sess[s].state = "receiving" => a + 1 \in Attempts
    BY <1>1, <2>1 DEF SessionInv
  <2>3. PICK q \in Pipe :
          /\ pipe' = [pipe EXCEPT ![s][a] = q] /\ q.result = p.result /\ q.acc = p.acc
          /\ \/ p.run = "recorded" /\ q.run = "done"
             \/ p.run # "recorded" /\ q.run \in {"harvested", "closing"}
    <3>1. CASE FinishHarvests(s, a)
      <4>1. pipe' = [pipe EXCEPT ![s][a] = [p EXCEPT !.run = "harvested", !.harvest = p.acc]]
            /\ p.run = "returned"
        BY <3>1 DEF FinishHarvests
      <4>2. [p EXCEPT !.run = "harvested", !.harvest = p.acc] \in Pipe  BY <2>1 DEF Pipe
      <4>3. LET q == [p EXCEPT !.run = "harvested", !.harvest = p.acc] IN
            q.result = p.result /\ q.acc = p.acc /\ q.run = "harvested"
        BY <2>1 DEF Pipe
      <4> QED  BY <4>1, <4>2, <4>3
    <3>2. CASE FinishCloses(s, a)
      <4>1. pipe' = [pipe EXCEPT ![s][a] = [p EXCEPT !.run = "closing", !.closed = TRUE]]
            /\ p.run = "harvested"
        BY <3>2 DEF FinishCloses
      <4>2. [p EXCEPT !.run = "closing", !.closed = TRUE] \in Pipe  BY <2>1 DEF Pipe
      <4>3. LET q == [p EXCEPT !.run = "closing", !.closed = TRUE] IN
            q.result = p.result /\ q.acc = p.acc /\ q.run = "closing"
        BY <2>1 DEF Pipe
      <4> QED  BY <4>1, <4>2, <4>3
    <3>3. CASE DoneCloses(s, a)
      <4>1. pipe' = [pipe EXCEPT ![s][a] = [p EXCEPT !.run = "done"]] /\ p.run = "recorded"
        BY <1>1, <3>3 DEF DoneCloses
      <4>2. [p EXCEPT !.run = "done"] \in Pipe  BY <2>1 DEF Pipe
      <4>3. LET q == [p EXCEPT !.run = "done"] IN q.result = p.result /\ q.acc = p.acc /\ q.run = "done"
        BY <2>1 DEF Pipe
      <4> QED  BY <4>1, <4>2, <4>3
    <3> QED  BY <1>26, <3>1, <3>2, <3>3
  <2>4. UNCHANGED sess  BY <1>26 DEF FinishHarvests, FinishCloses, DoneCloses
  <2>5. /\ pipe[s][a].run # "none" /\ q.run # "none"
        /\ Undecided(s, a) <=> q.run \in {"putting", "returned", "harvested", "closing"}
        /\ q.run = "putting" <=> q.result = "none"
        /\ pipe[s][a].result = "nil" => q.result = "nil"
        /\ q.result = "transient" /\ Undecided(s, a) /\ sess[s].state = "receiving" => a + 1 \in Attempts
        /\ \A i \in Chunks : pipe[s][a].acc[i] # None => q.acc[i] # None
    BY <2>1, <2>2, <2>3 DEF Undecided
  <2> QED  BY <2>3, <2>4, <2>5, AttemptStep
<1>27. ASSUME NEW s \in Sessions, NEW a \in Attempts, NEW i \in Chunks, DriverReads(s, a, i)
       PROVE  \A t \in Sessions : Good(t)
  <2> DEFINE p == pipe[s][a]  q == [p EXCEPT !.read = p.read \cup {i}]
  <2>1. p \in Pipe /\ p.run = "putting" /\ UNCHANGED sess /\ pipe' = [pipe EXCEPT ![s][a] = q]
    BY <1>1, <1>27 DEF DriverReads
  <2>2. q \in Pipe /\ q.run = p.run /\ q.result = p.result /\ q.acc = p.acc
    BY <2>1 DEF Pipe
  <2>3. p.result = "none"  BY <1>1, <2>1 DEF SessionInv
  <2> HIDE DEF q
  <2>4. /\ p.run # "none" /\ q.run # "none"
        /\ Undecided(s, a) <=> q.run \in {"putting", "returned", "harvested", "closing"}
        /\ q.run = "putting" <=> q.result = "none"
        /\ p.result = "nil" => q.result = "nil"
        /\ q.result = "transient" /\ Undecided(s, a) /\ sess[s].state = "receiving" => a + 1 \in Attempts
        /\ \A j \in Chunks : p.acc[j] # None => q.acc[j] # None
    BY <2>1, <2>2, <2>3 DEF Undecided
  <2> QED  BY <2>1, <2>2, <2>4, AttemptStep
<1>28. ASSUME NEW s \in Sessions, NEW a \in Attempts, NEW r \in {"nil", "permanent", "transient"},
              PutReturns(s, a, r)
       PROVE  \A t \in Sessions : Good(t)
  <2> DEFINE p == pipe[s][a]
  <2>1. p \in Pipe /\ p.run = "putting"  BY <1>1, <1>28 DEF PutReturns
  <2>2. PICK c \in BOOLEAN :
          pipe' = [pipe EXCEPT ![s][a] = [@ EXCEPT !.run = "returned", !.result = r, !.closed = c]]
    BY <1>28, <2>1 DEF PutReturns, Pipe
  <2> DEFINE q == [p EXCEPT !.run = "returned", !.result = r, !.closed = c]
  <2>3. q \in Pipe /\ q.run = "returned" /\ q.result = r /\ q.acc = p.acc
    BY <2>1 DEF Pipe
  <2>4. p.result = "none"  BY <1>1, <2>1 DEF SessionInv
  <2>5. r = "transient" => a + 1 \in Attempts \/ sess[s].state # "receiving"
    BY <1>28 DEF PutReturns
  <2>6. pipe' = [pipe EXCEPT ![s][a] = q] /\ UNCHANGED sess  BY <1>28, <2>2 DEF PutReturns
  <2> HIDE DEF q
  <2>7. /\ p.run # "none" /\ q.run # "none"
        /\ Undecided(s, a) <=> q.run \in {"putting", "returned", "harvested", "closing"}
        /\ q.run = "putting" <=> q.result = "none"
        /\ p.result = "nil" => q.result = "nil"
        /\ q.result = "transient" /\ Undecided(s, a) /\ sess[s].state = "receiving" => a + 1 \in Attempts
        /\ \A j \in Chunks : p.acc[j] # None => q.acc[j] # None
    BY <2>1, <2>3, <2>4, <2>5 DEF Undecided
  <2> QED  BY <2>3, <2>6, <2>7, AttemptStep
<1> QED
  BY <1>10, <1>11, <1>12, <1>13, <1>14, <1>15, <1>16, <1>17, <1>18, <1>19, <1>20, <1>21, <1>22,
     <1>23, <1>24, <1>25, <1>26, <1>27, <1>28, NextCases

-----------------------------------------------------------------------------
(* What a step does to the requests                                        *)

\* A request that does not move keeps what it relies on.
LEMMA RequestKept ==
  ASSUME IInv, \A s \in Sessions : Grown(s), NEW h \in Handlers, req'[h] = req[h]
  PROVE  RequestInv(h)'
<1> DEFINE r == req[h]
<1>1. r \in Request /\ RequestInv(h)  BY DEF IInv, TypeOK
<1>2. r.s \in Sessions => Grown(r.s)  OBVIOUS
<1>3. r.win \in Attempts \cup {NoWin} /\ r.idx \in Chunks  BY <1>1 DEF Request
<1>4. r.s \in Sessions /\ Succeeded(r.s) => Succeeded(r.s)'
  BY <1>2 DEF Succeeded, Grown
<1>5. r.s \in Sessions /\ (\E a \in Attempts : pipe[r.s][a].acc[r.idx] # None) =>
        \E a \in Attempts : pipe'[r.s][a].acc[r.idx] # None
  BY <1>2, <1>3 DEF Grown
<1>6. r.s \in Sessions /\ sess[r.s].state # "unborn" => sess'[r.s].state # "unborn"
  BY <1>2 DEF Grown
<1>7. r.s \in Sessions /\ r.win \in Attempts /\ pipe[r.s][r.win].run # "none" =>
        pipe'[r.s][r.win].run # "none"
  BY <1>2 DEF Grown
<1>8. req'[h] = r  OBVIOUS
<1> HIDE DEF r
<1> QED
  BY <1>1, <1>4, <1>5, <1>6, <1>7, <1>8 DEF RequestInv, r

\* A request is answered.
LEMMA AnswerStep ==
  ASSUME IInv, NEW h \in Handlers, NEW r, Answer(h, r), NEW s, s = req[h].s,
         r = "ok" /\ req[h].op = "complete" => Succeeded(s)',
         r = "ok" /\ req[h].op = "chunk" =>
           Succeeded(s)' \/ \E a \in Attempts : pipe'[s][a].acc[req[h].idx] # None,
         r = "ok" => s \in Sessions /\ sess'[s].state # "unborn"
  PROVE  RequestInv(h)'
<1> DEFINE q == req[h]  ok == [Idle EXCEPT !.op = q.op, !.s = q.s, !.idx = q.idx, !.res = "ok"]
<1>1. req \in [Handlers -> Request]  BY DEF IInv, TypeOK
<1>2. /\ ok.pc = "idle" /\ ok.op = q.op /\ ok.s = q.s /\ ok.idx = q.idx /\ ok.res = "ok"
      /\ Idle.pc = "idle" /\ Idle.res = "none"
  BY DEF Idle
<1>3. req'[h] = IF r = "ok" /\ q.op \in {"chunk", "complete"} THEN ok ELSE Idle
  BY <1>1 DEF Answer
<1> HIDE DEF ok
<1>4. CASE r = "ok" /\ q.op \in {"chunk", "complete"}
  <2>1. req'[h] = ok  BY <1>3, <1>4
  <2>2. s = (req[h].s)'  BY <1>2, <2>1
  <2>3. q.op = "complete" => Succeeded(req[h].s)'  BY <1>4, <2>2 DEF Succeeded
  <2>4. q.op = "chunk" =>
          Succeeded(req[h].s)' \/ \E a \in Attempts : pipe'[req'[h].s][a].acc[req'[h].idx] # None
    BY <1>2, <1>4, <2>1, <2>2 DEF Succeeded
  <2> QED  BY <1>2, <1>4, <2>1, <2>2, <2>3, <2>4 DEF RequestInv
<1>5. CASE ~(r = "ok" /\ q.op \in {"chunk", "complete"})
  <2>1. req'[h] = Idle  BY <1>3, <1>5
  <2> QED  BY <1>2, <2>1 DEF RequestInv
<1> QED  BY <1>4, <1>5

\* What Answer, Goto and GoOn leave alone.
LEMMA Moves ==
  ASSUME IInv, NEW h \in Handlers
  PROVE  /\ \A r : Answer(h, r) => \A g \in Handlers : g # h => req'[g] = req[g]
         /\ \A l : Goto(h, l) \/ GoOn(h, l) =>
              /\ \A g \in Handlers : g # h => req'[g] = req[g]
              /\ req'[h].pc = l /\ req'[h].op = req[h].op /\ req'[h].s = req[h].s
              /\ req'[h].idx = req[h].idx /\ req'[h].res = req[h].res
<1>1. req \in [Handlers -> Request] /\ req[h] \in Request  BY DEF IInv, TypeOK
<1>2. ASSUME NEW l
      PROVE  LET q == [req[h] EXCEPT !.pc = l]
                 w == [req[h] EXCEPT !.pc = l, !.body = None, !.win = NoWin, !.prev = None]
             IN /\ q.pc = l /\ q.op = req[h].op /\ q.s = req[h].s /\ q.idx = req[h].idx /\ q.res = req[h].res
                /\ w.pc = l /\ w.op = req[h].op /\ w.s = req[h].s /\ w.idx = req[h].idx /\ w.res = req[h].res
  BY <1>1 DEF Request
<1>3. ASSUME NEW l
      PROVE  /\ Goto(h, l) => req' = [req EXCEPT ![h] = [req[h] EXCEPT !.pc = l]]
             /\ GoOn(h, l) => req' = [req EXCEPT ![h] =
                   [req[h] EXCEPT !.pc = l, !.body = None, !.win = NoWin, !.prev = None]]
  BY <1>1 DEF Goto, GoOn
<1>4. \A r : Answer(h, r) => \A g \in Handlers : g # h => req'[g] = req[g]
  BY <1>1 DEF Answer
<1>5. ASSUME NEW l, Goto(h, l) \/ GoOn(h, l)
      PROVE  /\ \A g \in Handlers : g # h => req'[g] = req[g]
             /\ req'[h].pc = l /\ req'[h].op = req[h].op /\ req'[h].s = req[h].s
             /\ req'[h].idx = req[h].idx /\ req'[h].res = req[h].res
  <2>1. PICK q : /\ req' = [req EXCEPT ![h] = q]
                 /\ q.pc = l /\ q.op = req[h].op /\ q.s = req[h].s /\ q.idx = req[h].idx /\ q.res = req[h].res
    <3>1. CASE Goto(h, l)
      <4> DEFINE w == [req[h] EXCEPT !.pc = l]
      <4>1. /\ w.pc = l /\ w.op = req[h].op /\ w.s = req[h].s /\ w.idx = req[h].idx
            /\ w.res = req[h].res
        BY <1>2
      <4>2. req' = [req EXCEPT ![h] = w]  BY <1>3, <3>1
      <4> HIDE DEF w
      <4> QED  BY <4>1, <4>2
    <3>2. CASE GoOn(h, l)
      <4> DEFINE w == [req[h] EXCEPT !.pc = l, !.body = None, !.win = NoWin, !.prev = None]
      <4>1. /\ w.pc = l /\ w.op = req[h].op /\ w.s = req[h].s /\ w.idx = req[h].idx
            /\ w.res = req[h].res
        BY <1>2
      <4>2. req' = [req EXCEPT ![h] = w]  BY <1>3, <3>2
      <4> HIDE DEF w
      <4> QED  BY <4>1, <4>2
    <3> QED  BY <1>5, <3>1, <3>2
  <2> QED  BY <1>1, <2>1
<1> QED  BY <1>4, <1>5

\* A request that goes on to a place where it relies on its session alone.
LEMMA GoesOn ==
  ASSUME IInv, NEW h \in Handlers, NEW l, Goto(h, l) \/ GoOn(h, l),
         req[h].pc # "idle", NEW s \in Sessions, s = req[h].s, sess'[s].state # "unborn",
         \/ l \in {"changed", "wait", "verdict"} /\ req[h].op = "chunk"
         \/ l \in {"complete", "final"} /\ req[h].op = "complete"
         \/ /\ l = "remove" /\ req[h].op # "chunk"
            /\ req[h].op = "complete" => Succeeded(s)'
  PROVE  RequestInv(h)'
<1>1. /\ req'[h].pc = l /\ req'[h].op = req[h].op /\ req'[h].s = req[h].s /\ req'[h].res = req[h].res
  BY Moves
<1>2. req[h].res = "none"  BY DEF IInv, RequestInv
<1>3. Succeeded(s)' => Succeeded(req[h].s)'  BY <1>1 DEF Succeeded
<1> QED  BY <1>1, <1>2, <1>3 DEF RequestInv

LEMMA RequestStep ==
  ASSUME IInv, Next
  PROVE  \A h \in Handlers : RequestInv(h)'
<1> USE SessionAssumption
<1>1. /\ sess \in [Sessions -> Session] /\ pipe \in [Sessions -> [Attempts -> Pipe]]
      /\ req \in [Handlers -> Request]
      /\ \A s \in Sessions : SessionInv(s) /\ sess[s] \in Session
      /\ \A h \in Handlers : RequestInv(h) /\ req[h] \in Request
      /\ MapsInv
  BY DEF IInv, TypeOK
<1>2. \A s \in Sessions : Grown(s) /\ SessionInv(s)'  BY SessionStep DEF Good
<1>3. ASSUME NEW h \in Handlers, \A g \in Handlers : g # h => req'[g] = req[g], RequestInv(h)'
      PROVE  \A g \in Handlers : RequestInv(g)'
  BY <1>2, <1>3, RequestKept
<1>4. ASSUME UNCHANGED req  PROVE \A g \in Handlers : RequestInv(g)'
  BY <1>2, <1>4, RequestKept
<1>5. ASSUME NEW h \in Handlers, NEW l \in {"touch", "chunk", "write", "stalled", "changed", "wait", "verdict",
                                             "complete", "await", "final", "term", "remove"}, At(h, l)
      PROVE  req[h].s \in Sessions /\ sess'[req[h].s].state # "unborn" /\ req[h].pc = l
  BY <1>1, <1>2, <1>5 DEF RequestInv, At, Grown
<1>6. \A s \in Sessions : Succeeded(s) => Succeeded(s)'
  BY <1>2 DEF Grown, Succeeded
<1>7. \A s \in byID \cup {byKey} : s # None => s \in Sessions /\ sess'[s].state # "unborn"
  BY <1>1, <1>2 DEF MapsInv, KeyNamesLiveSession, IInv, TypeOK, Grown
<1>10. ASSUME NEW h \in Handlers, InitResumes(h) \/ InitRegisters(h)  PROVE \A g \in Handlers : RequestInv(g)'
  <2>1. req[h].s \in Sessions /\ sess'[req[h].s].state # "unborn" /\ req[h].op = "init" /\ Answer(h, "ok")
    BY <1>1, <1>2, <1>10 DEF InitResumes, InitRegisters, RequestInv, At, Grown
  <2> QED  BY <1>3, <2>1, AnswerStep, Moves
<1>11. ASSUME NEW h \in Handlers, Answer(h, "error")  PROVE \A g \in Handlers : RequestInv(g)'
  BY <1>3, <1>11, AnswerStep, Moves
<1>12. ASSUME NEW h \in Handlers, ChunkAnswers(h) \/ ChunkVerdict(h)  PROVE \A g \in Handlers : RequestInv(g)'
  <2>1. CASE Answer(h, "error")  BY <1>11, <2>1
  <2>2. CASE Answer(h, "ok") /\ sess[req[h].s].state = "completed"
    <3>1. req[h].s \in Sessions /\ sess'[req[h].s].state # "unborn" /\ req[h].op = "chunk"
      BY <1>1, <1>5, <1>12 DEF ChunkAnswers, ChunkVerdict, RequestInv, At
    <3>2. PICK s \in Sessions : s = req[h].s  BY <3>1
    <3>3. Succeeded(s)'  BY <1>1, <1>6, <2>2, <3>2 DEF SessionInv
    <3> QED  BY <1>3, <2>2, <3>1, <3>2, <3>3, AnswerStep, Moves
  <2> QED  BY <1>12, <2>1, <2>2 DEF ChunkAnswers, ChunkVerdict
<1>13. ASSUME NEW h \in Handlers, ChunkGoesToWrite(h)  PROVE \A g \in Handlers : RequestInv(g)'
  <2> DEFINE s == req[h].s
  <2>1. /\ s \in Sessions /\ req[h].op = "chunk" /\ req[h].body \in Contents /\ req[h].res = "none"
        /\ sess'[s].state # "unborn"
    BY <1>1, <1>5, <1>13 DEF ChunkGoesToWrite, RequestInv, At
  <2>2. sess'[s].state = "receiving"
    <3>1. Started(sess[s]).state = "receiving"  BY <1>1, <2>1 DEF Started, Session
    <3> QED  BY <1>1, <1>13, <2>1, <3>1 DEF ChunkGoesToWrite
  <2>3. sess'[s].win \in Attempts /\ pipe'[s][sess'[s].win].run # "none"
    BY <1>2, <2>1, <2>2 DEF SessionInv, Undecided
  <2>4. req' = [req EXCEPT ![h] = [req[h] EXCEPT !.pc = "write", !.win = sess'[s].win,
                                                 !.prev = sess[s].prev[req[h].idx]]]
    BY <1>13 DEF ChunkGoesToWrite
  <2>5. /\ req'[h].pc = "write" /\ req'[h].win = sess'[s].win /\ req'[h].op = req[h].op
        /\ req'[h].s = s /\ req'[h].body = req[h].body /\ req'[h].res = req[h].res
        /\ \A g \in Handlers : g # h => req'[g] = req[g]
    BY <1>1, <2>4 DEF Request
  <2>6. RequestInv(h)'  BY <2>1, <2>3, <2>5 DEF RequestInv
  <2> QED  BY <1>3, <2>5, <2>6
<1>14. ASSUME NEW h \in Handlers, WriteAccepted(h)  PROVE \A g \in Handlers : RequestInv(g)'
  <2> DEFINE s == req[h].s  a == req[h].win  i == req[h].idx
             c == IF pipe[s][a].acc[i] = None THEN req[h].body ELSE pipe[s][a].acc[i]
  <2>1. /\ s \in Sessions /\ a \in Attempts /\ i \in Chunks /\ c # None /\ req[h].op = "chunk"
        /\ sess'[s].state # "unborn" /\ req[h].pc = "write"
    BY <1>1, <1>5, <1>14 DEF WriteAccepted, RequestInv, At, Request
  <2>2. CASE GoOn(h, "changed")
    <3>1. RequestInv(h)'  BY <2>1, <2>2, GoesOn
    <3> QED  BY <1>3, <2>2, <3>1, Moves
  <2>3. CASE Answer(h, "ok")
    <3>1. pipe' = [pipe EXCEPT ![s][a].acc[i] = c]  BY <1>14 DEF WriteAccepted
    <3>2. pipe[s][a] \in Pipe  BY <1>1, <2>1
    <3> HIDE DEF c
    <3>3. pipe'[s][a].acc[i] = c  BY <1>1, <2>1, <3>1, <3>2 DEF Pipe
    <3> QED  BY <1>3, <2>1, <2>3, <3>3, AnswerStep, Moves
  <2> QED  BY <1>14, <2>2, <2>3 DEF WriteAccepted
<1>15. ASSUME NEW h \in Handlers, WriteFindsClosed(h) \/ WriteFails(h) \/ ChunkWaits(h) \/ StallBreaks(h)
       PROVE  \A g \in Handlers : RequestInv(g)'
  <2>1. req[h].op = "chunk" /\ req[h].s \in Sessions /\ sess'[req[h].s].state # "unborn" /\ req[h].pc # "idle"
    BY <1>1, <1>5, <1>15 DEF WriteFindsClosed, WriteFails, ChunkWaits, StallBreaks, RequestInv, At
  <2>2. GoOn(h, "wait") \/ GoOn(h, "verdict") \/ Goto(h, "verdict")
    BY <1>15 DEF WriteFindsClosed, WriteFails, ChunkWaits, StallBreaks, Goto
  <2> QED  BY <1>3, <2>1, <2>2, GoesOn, Moves
<1>30. ASSUME NEW h \in Handlers, WriteStalls(h)  PROVE \A g \in Handlers : RequestInv(g)'
  <2>1. /\ req[h].s \in Sessions /\ sess'[req[h].s].state # "unborn" /\ req[h].pc = "write"
        /\ req[h].op = "chunk" /\ req[h].res = "none" /\ req[h].win \in Attempts
        /\ pipe[req[h].s][req[h].win].run # "none" /\ UNCHANGED pipe
    BY <1>1, <1>5, <1>30 DEF WriteStalls, RequestInv, At
  <2>2. /\ req'[h].pc = "stalled" /\ req'[h].op = req[h].op /\ req'[h].s = req[h].s
        /\ req'[h].win = req[h].win /\ req'[h].res = req[h].res
        /\ \A g \in Handlers : g # h => req'[g] = req[g]
    <3>1. req[h] \in Request /\ req' = [req EXCEPT ![h].pc = "stalled"]
      BY <1>1, <1>30 DEF WriteStalls, Goto
    <3> QED  BY <1>1, <3>1 DEF Request
  <2>3. RequestInv(h)'  BY <2>1, <2>2 DEF RequestInv
  <2> QED  BY <1>3, <2>2, <2>3
<1>16. ASSUME NEW h \in Handlers, InitFails(h) \/ ChunkChanged(h) \/ CompleteCancelled(h)
       PROVE  \A g \in Handlers : RequestInv(g)'
  BY <1>11, <1>16 DEF InitFails, ChunkChanged, CompleteCancelled
<1>17. ASSUME NEW h \in Handlers, CompleteLooks(h)  PROVE \A g \in Handlers : RequestInv(g)'
  <2>1. /\ req[h].op = "complete" /\ req[h].s \in Sessions /\ sess'[req[h].s].state # "unborn"
        /\ req[h].pc = "complete" /\ req[h].res = "none"
    BY <1>1, <1>5, <1>17 DEF CompleteLooks, RequestInv, At
  <2>2. CASE Answer(h, "error")  BY <1>11, <2>2
  <2>3. CASE req' = [req EXCEPT ![h] = [@ EXCEPT !.pc = "await", !.win = sess[req[h].s].done]]
    <3>1. /\ req'[h].pc = "await" /\ req'[h].op = "complete" /\ req'[h].s = req[h].s
          /\ req'[h].res = "none" /\ \A g \in Handlers : g # h => req'[g] = req[g]
      BY <1>1, <2>1, <2>3 DEF Request
    <3>2. RequestInv(h)'  BY <2>1, <3>1 DEF RequestInv
    <3> QED  BY <1>3, <3>1, <3>2
  <2>4. CASE Goto(h, "final")  BY <1>3, <2>1, <2>4, GoesOn, Moves
  <2> QED  BY <1>17, <2>2, <2>3, <2>4 DEF CompleteLooks
<1>18. ASSUME NEW h \in Handlers, CompleteWakes(h)  PROVE \A g \in Handlers : RequestInv(g)'
  <2>1. /\ req[h].op = "complete" /\ req[h].s \in Sessions /\ sess'[req[h].s].state # "unborn"
        /\ req[h].pc # "idle" /\ GoOn(h, "complete")
    BY <1>1, <1>5, <1>18 DEF CompleteWakes, RequestInv, At
  <2> QED  BY <1>3, <2>1, GoesOn, Moves
<1>19. ASSUME NEW h \in Handlers, CompleteAnswers(h)  PROVE \A g \in Handlers : RequestInv(g)'
  <2>1. CASE Answer(h, "error")  BY <1>11, <2>1
  <2>2. CASE Goto(h, "remove") /\ sess[req[h].s].state = "completed"
    <3>1. /\ req[h].op = "complete" /\ req[h].s \in Sessions /\ sess'[req[h].s].state # "unborn"
          /\ req[h].pc # "idle"
      BY <1>1, <1>5, <1>19 DEF CompleteAnswers, RequestInv, At
    <3>2. PICK s \in Sessions : s = req[h].s  BY <3>1
    <3>3. Succeeded(s)'  BY <1>1, <1>6, <2>2, <3>2 DEF SessionInv
    <3> QED  BY <1>3, <2>2, <3>1, <3>2, <3>3, GoesOn, Moves
  <2> QED  BY <1>19, <2>1, <2>2 DEF CompleteAnswers
<1>20. ASSUME NEW h \in Handlers, HandlerTerminates(h)  PROVE \A g \in Handlers : RequestInv(g)'
  <2>1. /\ req[h].op \in {"init", "abort"} /\ req[h].s \in Sessions /\ sess'[req[h].s].state # "unborn"
        /\ req[h].pc # "idle" /\ Goto(h, "remove")
    BY <1>1, <1>5, <1>20 DEF HandlerTerminates, RequestInv, At
  <2> QED  BY <1>3, <2>1, GoesOn, Moves
<1>21. ASSUME NEW h \in Handlers, HandlerRemoves(h)  PROVE \A g \in Handlers : RequestInv(g)'
  <2>1. /\ req[h].s \in Sessions /\ sess'[req[h].s].state # "unborn" /\ req[h].op # "chunk"
        /\ req[h].op = "complete" => Succeeded(req[h].s)
        /\ req[h].res = "none"
    BY <1>1, <1>5, <1>21 DEF HandlerRemoves, RequestInv, At
  <2>2. CASE Answer(h, "ok")
    <3>1. PICK s \in Sessions : s = req[h].s  BY <2>1
    <3>2. req[h].op = "complete" => Succeeded(s)'  BY <1>6, <2>1, <3>1
    <3> QED  BY <1>3, <2>1, <2>2, <3>1, <3>2, AnswerStep, Moves
  <2>3. CASE req[h].op = "init" /\ req' = [req EXCEPT ![h] = [@ EXCEPT !.pc = "create", !.s = None]]
    <3>1. /\ req'[h].pc = "create" /\ req'[h].op = "init" /\ req'[h].res = "none"
          /\ \A g \in Handlers : g # h => req'[g] = req[g]
      BY <1>1, <2>1, <2>3 DEF Request
    <3>2. RequestInv(h)'  BY <3>1 DEF RequestInv
    <3> QED  BY <1>3, <3>1, <3>2
  <2> QED  BY <1>21, <2>2, <2>3 DEF HandlerRemoves
<1>22. ASSUME NEW h \in Handlers, NEW hash, InitLooksUp(h, hash)  PROVE \A g \in Handlers : RequestInv(g)'
  <2> DEFINE s == byKey
  <2>1. PICK q : /\ req' = [req EXCEPT ![h] = q]
                 /\ \/ q = [Idle EXCEPT !.op = "init", !.pc = "create", !.body = hash]
                    \/ s \in byID /\ q = [Idle EXCEPT !.op = "init", !.pc = "touch", !.s = s]
                    \/ s \in byID /\ q = [Idle EXCEPT !.op = "init", !.pc = "term", !.s = s, !.body = hash]
    BY <1>22 DEF InitLooksUp
  <2>2. /\ q.op = "init" /\ q.res = "none"
        /\ q.pc = "create" \/ (q.pc \in {"touch", "term"} /\ s \in byID /\ q.s = s)
    BY <2>1 DEF Idle
  <2>3. s \in byID => s \in Sessions /\ sess'[s].state # "unborn"
    BY <1>1, <1>7 DEF IInv, TypeOK
  <2>4. req'[h] = q /\ \A g \in Handlers : g # h => req'[g] = req[g]  BY <1>1, <2>1
  <2>5. RequestInv(h)'  BY <2>2, <2>3, <2>4 DEF RequestInv
  <2> QED  BY <1>3, <2>4, <2>5
<1>23. ASSUME NEW h \in Handlers, NEW s \in Sessions, InitCreates(h, s)  PROVE \A g \in Handlers : RequestInv(g)'
  <2>1. req[h].op = "init" /\ req[h].res = "none"
    BY <1>1, <1>23 DEF InitCreates, RequestInv, At
  <2>2. req' = [req EXCEPT ![h] = [req[h] EXCEPT !.s = s, !.pc = "register"]]
    BY <1>23 DEF InitCreates
  <2>3. /\ req'[h].pc = "register" /\ req'[h].op = "init" /\ req'[h].res = "none" /\ req'[h].s = s
        /\ \A g \in Handlers : g # h => req'[g] = req[g]
    BY <1>1, <2>1, <2>2 DEF Request
  <2>4. sess'[s].state = "receiving"
    <3>1. Started(sess[s]).state = "receiving" /\ {"state", "hash"} \subseteq DOMAIN Started(sess[s])
      BY <1>1 DEF Started, Session
    <3>2. sess'[s] = [Started(sess[s]) EXCEPT !.hash = req[h].body]  BY <1>1, <1>23 DEF InitCreates
    <3> QED  BY <3>1, <3>2
  <2>5. RequestInv(h)'  BY <2>3, <2>4 DEF RequestInv
  <2> QED  BY <1>3, <2>3, <2>5
<1>24. ASSUME NEW h \in Handlers, NEW s \in Sessions, CompleteGets(h, s) \/ AbortGets(h, s)
       PROVE  \A g \in Handlers : RequestInv(g)'
  <2>1. /\ s \in byID
        /\ \/ req' = [req EXCEPT ![h] = [Idle EXCEPT !.pc = "complete", !.op = "complete", !.s = s]]
           \/ req' = [req EXCEPT ![h] = [Idle EXCEPT !.pc = "term", !.op = "abort", !.s = s]]
    BY <1>24 DEF CompleteGets, AbortGets, Get
  <2>2. PICK q : /\ req' = [req EXCEPT ![h] = q]
                 /\ \/ q = [Idle EXCEPT !.pc = "complete", !.op = "complete", !.s = s]
                    \/ q = [Idle EXCEPT !.pc = "term", !.op = "abort", !.s = s]
    BY <2>1
  <2>5. /\ q.res = "none" /\ q.s = s
        /\ (q.pc = "complete" /\ q.op = "complete") \/ (q.pc = "term" /\ q.op = "abort")
    BY <2>2 DEF Idle
  <2>6. req'[h] = q /\ \A g \in Handlers : g # h => req'[g] = req[g]  BY <1>1, <2>2
  <2>3. sess'[s].state # "unborn"  BY <1>7, <2>1
  <2>4. RequestInv(h)'  BY <2>3, <2>5, <2>6 DEF RequestInv
  <2> QED  BY <1>3, <2>4, <2>6
<1>25. ASSUME NEW h \in Handlers, NEW s \in Sessions, NEW i \in Chunks, NEW c \in Contents, ChunkGets(h, s, i, c)
       PROVE  \A g \in Handlers : RequestInv(g)'
  <2>1. s \in byID /\ req' = [req EXCEPT ![h] = [Idle EXCEPT !.pc = "chunk", !.op = "chunk", !.s = s,
                                                               !.idx = i, !.body = c]]
    BY <1>25 DEF ChunkGets
  <2>2. /\ req'[h].res = "none" /\ req'[h].s = s /\ req'[h].pc = "chunk" /\ req'[h].op = "chunk"
        /\ req'[h].body = c /\ \A g \in Handlers : g # h => req'[g] = req[g]
    BY <1>1, <2>1 DEF Idle
  <2>3. sess'[s].state # "unborn"  BY <1>7, <2>1
  <2>4. RequestInv(h)'  BY <2>2, <2>3 DEF RequestInv
  <2> QED  BY <1>3, <2>2, <2>4
<1>26. ASSUME NEW s \in Sessions, StatusTouches(s) \/ Expires(s) \/ GcTerminates(s) \/ GcRemoves(s)
       PROVE  \A g \in Handlers : RequestInv(g)'
  BY <1>4, <1>26 DEF StatusTouches, Expires, GcTerminates, GcRemoves
<1>29. CASE GcCollects
  BY <1>4, <1>29 DEF GcCollects
<1>27. ASSUME NEW s \in Sessions, NEW a \in Attempts,
              FinishHarvests(s, a) \/ FinishCloses(s, a) \/ FinishRecords(s, a) \/ DoneCloses(s, a)
       PROVE  \A g \in Handlers : RequestInv(g)'
  BY <1>4, <1>27 DEF FinishHarvests, FinishCloses, FinishRecords, DoneCloses
<1>28. ASSUME NEW s \in Sessions, NEW a \in Attempts,
              (\E i \in Chunks : DriverReads(s, a, i)) \/ (\E r \in {"nil", "permanent", "transient"} : PutReturns(s, a, r))
       PROVE  \A g \in Handlers : RequestInv(g)'
  BY <1>4, <1>28 DEF DriverReads, PutReturns
<1> QED
  BY <1>10, <1>12, <1>13, <1>14, <1>15, <1>16, <1>17, <1>18, <1>19, <1>20, <1>21, <1>22,
     <1>23, <1>24, <1>25, <1>26, <1>27, <1>28, <1>29, <1>30, NextCases

-----------------------------------------------------------------------------
(* The maps, and the theorems                                              *)

LEMMA MapsStep ==
  ASSUME IInv, Next
  PROVE  MapsInv'
<1> USE SessionAssumption
<1>1. /\ byID \subseteq Sessions /\ byKey \in Sessions \cup {None} /\ MapsInv
      /\ gc.todo \subseteq Sessions /\ gc.cut \subseteq Sessions
      /\ gc \in [todo : SUBSET Sessions, cut : SUBSET Sessions, round : 0 .. GcRounds]
      /\ \A h \in Handlers : RequestInv(h)
  BY DEF IInv, TypeOK
<1>2. \A s \in Sessions : sess[s].state # "unborn" => sess'[s].state # "unborn"
  BY SessionStep DEF Good, Grown
<1>3. ASSUME UNCHANGED <<byID, byKey, gc>>  PROVE MapsInv'
  BY <1>1, <1>2, <1>3 DEF MapsInv, KeyNamesLiveSession
<1>4. ASSUME NEW s, Remove(s), gc'.todo = gc.todo, gc'.cut \subseteq gc.cut  PROVE MapsInv'
  <2>1. byID' \subseteq byID  BY <1>4 DEF Remove
  <2>2. byKey' # None => byKey' \in byID'
    BY <1>1, <1>4 DEF Remove, MapsInv, KeyNamesLiveSession
  <2> QED  BY <1>1, <1>2, <1>4, <2>1, <2>2 DEF MapsInv, KeyNamesLiveSession
<1>5. ASSUME NEW h \in Handlers, InitRegisters(h)  PROVE MapsInv'
  <2>1. req[h].s \in Sessions /\ sess[req[h].s].state # "unborn"
    BY <1>1, <1>5 DEF InitRegisters, RequestInv, At
  <2> QED  BY <1>1, <1>2, <1>5, <2>1 DEF InitRegisters, MapsInv, KeyNamesLiveSession
<1>6. ASSUME NEW h \in Handlers, HandlerRemoves(h)  PROVE MapsInv'
  BY <1>4, <1>6 DEF HandlerRemoves
<1>7. ASSUME NEW s \in Sessions, GcRemoves(s)  PROVE MapsInv'
  <2>1. gc'.todo = gc.todo /\ gc'.cut = {}  BY <1>1, <1>7 DEF GcRemoves
  <2> QED  BY <1>4, <1>7, <2>1 DEF GcRemoves
<1>8. ASSUME NEW s \in Sessions, GcTerminates(s)  PROVE MapsInv'
  <2>1. gc'.todo = gc.todo \ {s} /\ gc'.cut = {s} /\ s \in gc.todo /\ UNCHANGED <<byID, byKey>>
    BY <1>1, <1>8 DEF GcTerminates
  <2> QED  BY <1>1, <1>2, <2>1 DEF MapsInv, KeyNamesLiveSession
<1>9. CASE GcCollects
  <2>1. gc'.todo \subseteq byID /\ gc'.cut = {} /\ UNCHANGED <<byID, byKey>>
    BY <1>9 DEF GcCollects
  <2> QED  BY <1>1, <1>2, <2>1 DEF MapsInv, KeyNamesLiveSession
<1>10. ASSUME NEW h \in Handlers,
              \/ InitResumes(h) \/ InitFails(h)
              \/ ChunkAnswers(h) \/ ChunkGoesToWrite(h)
              \/ WriteAccepted(h) \/ WriteFindsClosed(h) \/ WriteFails(h)
              \/ ChunkWaits(h) \/ ChunkVerdict(h) \/ ChunkChanged(h)
              \/ CompleteLooks(h) \/ CompleteWakes(h) \/ CompleteAnswers(h)
              \/ HandlerTerminates(h) \/ CompleteCancelled(h)
              \/ WriteStalls(h) \/ StallBreaks(h)
       PROVE  MapsInv'
  BY <1>3, <1>10 DEF InitResumes, InitFails, ChunkAnswers, ChunkGoesToWrite, WriteAccepted,
     WriteFindsClosed, WriteFails, ChunkWaits, ChunkVerdict, ChunkChanged, CompleteLooks,
     CompleteWakes, CompleteAnswers, HandlerTerminates, CompleteCancelled, WriteStalls,
     StallBreaks
<1>11. ASSUME NEW h \in Handlers, NEW hash, InitLooksUp(h, hash)  PROVE MapsInv'
  BY <1>3, <1>11 DEF InitLooksUp
<1>12. ASSUME NEW h \in Handlers, NEW s \in Sessions,
              \/ InitCreates(h, s) \/ CompleteGets(h, s) \/ AbortGets(h, s)
              \/ \E i \in Chunks, c \in Contents : ChunkGets(h, s, i, c)
       PROVE  MapsInv'
  BY <1>3, <1>12 DEF InitCreates, CompleteGets, AbortGets, ChunkGets
<1>13. ASSUME NEW s \in Sessions, StatusTouches(s) \/ Expires(s)  PROVE MapsInv'
  BY <1>3, <1>13 DEF StatusTouches, Expires
<1>14. ASSUME NEW s \in Sessions, NEW a \in Attempts,
              \/ FinishHarvests(s, a) \/ FinishCloses(s, a) \/ FinishRecords(s, a) \/ DoneCloses(s, a)
              \/ \E i \in Chunks : DriverReads(s, a, i)
              \/ \E r \in {"nil", "permanent", "transient"} : PutReturns(s, a, r)
       PROVE  MapsInv'
  BY <1>3, <1>14 DEF FinishHarvests, FinishCloses, FinishRecords, DoneCloses, DriverReads, PutReturns
<1> QED
  BY <1>5, <1>6, <1>7, <1>8, <1>9, <1>10, <1>11, <1>12, <1>13, <1>14, NextCases

LEMMA InitInv == Init => IInv
<1> SUFFICES ASSUME Init  PROVE IInv
  OBVIOUS
<1> USE SessionAssumption
<1>1. TypeOK
  BY Defaults DEF Init, TypeOK
<1>2. \A s \in Sessions : sess[s] = Unborn /\ \A a \in Attempts : pipe[s][a] = NoPipe
  BY DEF Init
<1>3. \A s \in Sessions : SessionInv(s)
  <2> TAKE s \in Sessions
  <2>3. \A a \in Attempts : pipe[s][a].run = "none" /\ pipe[s][a].result = "none"
    BY <1>2 DEF NoPipe
  <2>1. sess[s] = Unborn /\ Untried(s, 0) /\ \A a \in Attempts : ~Undecided(s, a)
    BY <1>2, <2>3 DEF Untried, Undecided
  <2>2. sess[s].state = "unborn"  BY <2>1 DEF Unborn
  <2> QED  BY <2>1, <2>2, <2>3 DEF SessionInv
<1>4. \A h \in Handlers : RequestInv(h)
  BY DEF Init, RequestInv, Idle
<1>5. MapsInv
  BY DEF Init, MapsInv, KeyNamesLiveSession
<1> QED  BY <1>1, <1>3, <1>4, <1>5 DEF IInv

LEMMA StutterInv ==
  ASSUME IInv, UNCHANGED vars
  PROVE  IInv'
BY DEF vars, IInv, TypeOK, SessionInv, RequestInv, MapsInv, KeyNamesLiveSession, Over, Undecided,
       Untried, Succeeded

\* Sessions, attempts, requests and maps stay in the states the manager relies on.
THEOREM Invariance == Spec => []IInv
<1>1. IInv /\ [Next]_vars => IInv'
  BY TypeStep, SessionStep, RequestStep, MapsStep, StutterInv DEF IInv, Good
<1> QED  BY <1>1, InitInv, PTL DEF Spec

\* Every variable keeps its type.
THEOREM TypeCorrect == Spec => []TypeOK
<1>1. IInv => TypeOK  BY DEF IInv
<1> QED  BY <1>1, Invariance, PTL

\* startAttemptLocked never runs while an attempt of the session has no verdict.
THEOREM AttemptsAreSerial == Spec => []OneAttemptAtATime
<1>1. IInv => OneAttemptAtATime
  BY DEF IInv, SessionInv, OneAttemptAtATime
<1> QED  BY <1>1, Invariance, PTL

\* m.byKey never names a session that m.byID has lost.
THEOREM KeyIsLive == Spec => []KeyNamesLiveSession
<1>1. IInv => KeyNamesLiveSession
  BY DEF IInv, MapsInv
<1> QED  BY <1>1, Invariance, PTL

\* Complete's success is the driver's, a chunk's ok an accepted chunk or a finished upload.
THEOREM SuccessIsReal == Spec => []OkIsReal
<1>1. IInv => OkIsReal
  BY DEF IInv, RequestInv, OkIsReal, Succeeded
<1> QED  BY <1>1, Invariance, PTL
=============================================================================
