---------------------------- MODULE S3Replication ----------------------------
(***************************************************************************)
(* server/s3: a bucket of the S3 gateway is kept on several paths.  A PUT  *)
(* writes to all of them at once (backend.go, PutObject and fanOutPut); if *)
(* the policy is "any" it is over when one has the object, and the paths   *)
(* that have not are left to a worker with a queue (replication.go).       *)
(* DELETE drains the object's items from the queue (Cancel) and removes it *)
(* from the paths.  A copy is a PUT whose body comes from another object.  *)
(* The body waits in a temp file, which whoever writes next owns.          *)
(***************************************************************************)
EXTENDS Integers, Sequences, FiniteSets, SequencesExt

CONSTANTS
  Paths,
  Objects,     \* a bucket and a key each
  Policy,      \* object -> the policy of its bucket, "any" or "all"
  QueueCap,    \* cap of the worker's channel
  MaxPuts,     \* bound: PUT requests, numbered in the order they begin
  MaxDeletes   \* bound: DELETE requests, one at a time

Puts == 1 .. MaxPuts

ASSUME S3Assumption ==
  /\ Policy \in [Objects -> {"any", "all"}]
  /\ QueueCap \in Nat \ {0} /\ MaxPuts \in Nat /\ MaxDeletes \in Nat
  /\ IsFiniteSet(Paths) /\ Paths # {}

VARIABLES
  puts,     \* PUT -> its request; res: how each path's goroutine stands; pending:
            \* the paths for the worker; after: the PUTs that were over when it began
  store,    \* path -> object -> the PUT it is from, 0 for none
  files,    \* the PUTs whose temp file exists
  queue,    \* w.queue
  worker,   \* the worker's goroutine and p.targets of its item
  del,      \* the DELETE request
  deletes,  \* bound counter
  settled   \* history: what was written, reported as lost, or deleted

vars == <<puts, store, files, queue, worker, del, deletes, settled>>

NoPut == [obj |-> "none", pc |-> "new", res |-> [p \in Paths |-> "none"],
          pending |-> {}, after |-> {}]
NoItem == [id |-> 0, targets |-> {}]
NoDelete == [pc |-> "idle", obj |-> "none", n |-> 0, hand |-> NoItem, left |-> {}]


Init ==
  /\ puts = [i \in Puts |-> NoPut]
  /\ store = [p \in Paths |-> [o \in Objects |-> 0]]
  /\ files = {}
  /\ queue = << >>
  /\ worker = [pc |-> "off", id |-> 0, targets |-> {}, todo |-> {}]
  /\ del = NoDelete
  /\ deletes = 0
  /\ settled = {}

Write(i, p) == store' = [store EXCEPT ![p][puts[i].obj] = i]

-----------------------------------------------------------------------------
(* PutObject                                                               *)

\* The body is cached, and splitUnhealthyPaths sets paths aside.
PutBegins(i, o, skipped) ==
  /\ puts[i].pc = "new" /\ \A j \in 1 .. i - 1 : puts[j].pc # "new"
  /\ skipped # Paths /\ (Policy[o] = "all" => skipped = {})
  /\ puts' = [puts EXCEPT ![i] =
       [obj |-> o, pc |-> "fan",
        res |-> [p \in Paths |-> IF p \in skipped THEN "skipped" ELSE "run"],
        pending |-> {}, after |-> {j \in Puts : puts[j].pc = "ok"}]]
  /\ files' = files \cup {i}
  /\ UNCHANGED <<store, queue, worker, del, deletes, settled>>

PathOpens(i, p) ==
  /\ puts[i].res[p] = "run" /\ i \in files
  /\ puts' = [puts EXCEPT ![i].res[p] = "open"]
  /\ UNCHANGED <<store, files, queue, worker, del, deletes, settled>>

\* Also of a PUT that is over: some drivers ignore that it is cancelled.
PathWrites(i, p) ==
  /\ puts[i].res[p] = "open"
  /\ Write(i, p)
  /\ settled' = settled \cup {<<i, p>>}
  /\ puts' = [puts EXCEPT ![i].res[p] = "ok"]
  /\ UNCHANGED <<files, queue, worker, del, deletes>>

PathFails(i, p) ==
  /\ puts[i].res[p] \in {"run", "open"}
  /\ puts' = [puts EXCEPT ![i].res[p] = "err"]
  /\ UNCHANGED <<store, files, queue, worker, del, deletes, settled>>

\* What fanOutPut reports as failed, unfinished paths included, and what it skipped.
Pending(i) == {p \in Paths : puts[i].res[p] # "ok"}

AllFailed(i) == \A p \in Paths : puts[i].res[p] # "ok"

\* fanOutPut returns: every path is done, one has succeeded (policy "any"), or the
\* overall wait is over, which it may be at any time.
FanReturns(i) ==
  /\ puts[i].pc = "fan"
  /\ puts' = [puts EXCEPT ![i].pc =
       IF AllFailed(i) \/ (Policy[puts[i].obj] = "all" /\ Pending(i) # {}) THEN "failed"
       ELSE IF Pending(i) # {} THEN "enqueue" ELSE "ok",
                             ![i].pending = Pending(i)]
  /\ files' = IF puts'[i].pc = "enqueue" THEN files ELSE files \ {i}
  /\ UNCHANGED <<store, queue, worker, del, deletes, settled>>

\* Bug: the deferred removal of the temp file is not suppressed.
BugEnqueue(i) ==
  /\ puts[i].pc = "enqueue"
  /\ worker' = IF worker.pc = "off" THEN [worker EXCEPT !.pc = "idle"] ELSE worker
  /\ Len(queue) < QueueCap /\ queue' = Append(queue, [id |-> i, targets |-> puts[i].pending])
  /\ files' = files \ {i}
  /\ puts' = [puts EXCEPT ![i].pc = "ok"]
  /\ UNCHANGED <<store, del, deletes, settled>>

\* Enqueue starts the worker the first time.
Enqueue(i) ==
  /\ puts[i].pc = "enqueue"
  /\ worker' = IF worker.pc = "off" THEN [worker EXCEPT !.pc = "idle"] ELSE worker
  /\ Len(queue) < QueueCap /\ queue' = Append(queue, [id |-> i, targets |-> puts[i].pending])
  /\ puts' = [puts EXCEPT ![i].pc = "ok"]
  /\ UNCHANGED <<store, files, del, deletes, settled>>

-----------------------------------------------------------------------------
(* The worker: run, processWithGrace                                       *)

WorkerTakes ==
  /\ worker.pc = "idle" /\ queue # << >>
  /\ worker' = [pc |-> "loop", id |-> Head(queue).id, targets |-> Head(queue).targets, todo |-> {}]
  /\ queue' = Tail(queue)
  /\ UNCHANGED <<puts, store, files, del, deletes, settled>>

RoundBegins ==
  /\ worker.pc = "loop"
  /\ worker' = IF worker.targets = {} THEN [worker EXCEPT !.pc = "clean"]
               ELSE [worker EXCEPT !.pc = "round", !.todo = worker.targets, !.targets = {}]
  /\ UNCHANGED <<puts, store, files, queue, del, deletes, settled>>

\* The item's time is up: what is left is logged as lost.
Deadline ==
  /\ worker.pc = "loop"
  /\ settled' = settled \cup ({worker.id} \X worker.targets)
  /\ worker' = [worker EXCEPT !.pc = "clean", !.targets = {}]
  /\ UNCHANGED <<puts, store, files, queue, del, deletes>>

AttemptWrites(p) ==
  /\ worker.pc = "round" /\ p \in worker.todo /\ worker.id \in files
  /\ Write(worker.id, p)
  /\ settled' = settled \cup {<<worker.id, p>>}
  /\ worker' = [worker EXCEPT !.todo = @ \ {p}]
  /\ UNCHANGED <<puts, files, queue, del, deletes>>

AttemptFails(p) ==
  /\ worker.pc = "round" /\ p \in worker.todo
  /\ worker' = [worker EXCEPT !.todo = @ \ {p}, !.targets = @ \cup {p}]
  /\ UNCHANGED <<puts, store, files, queue, del, deletes, settled>>

\* A driver panics: the item is given up, which is logged.
AttemptPanics ==
  /\ worker.pc = "round" /\ worker.todo # {}
  /\ settled' = settled \cup ({worker.id} \X (worker.todo \cup worker.targets))
  /\ worker' = [worker EXCEPT !.pc = "clean", !.todo = {}, !.targets = {}]
  /\ UNCHANGED <<puts, store, files, queue, del, deletes>>

RoundEnds ==
  /\ worker.pc = "round" /\ worker.todo = {}
  /\ worker' = [worker EXCEPT !.pc = "loop"]
  /\ UNCHANGED <<puts, store, files, queue, del, deletes, settled>>

Clean ==
  /\ worker.pc = "clean"
  /\ files' = files \ {worker.id}
  /\ worker' = [worker EXCEPT !.pc = "idle", !.id = 0]
  /\ UNCHANGED <<puts, store, queue, del, deletes, settled>>

-----------------------------------------------------------------------------
(* deleteObject: Cancel, then the paths                                    *)

DeleteBegins(o) ==
  /\ del.pc = "idle" /\ deletes < MaxDeletes
  /\ deletes' = deletes + 1
  /\ del' = [NoDelete EXCEPT !.pc = "drain", !.obj = o, !.n = Len(queue)]
  /\ UNCHANGED <<puts, store, files, queue, worker, settled>>

\* Cancel looks at as many items as there were; it ends early if the worker has
\* taken them.
CancelTakes ==
  /\ del.pc = "drain" /\ del.hand = NoItem /\ del.n > 0
  /\ IF queue = << >>
       THEN del' = [del EXCEPT !.n = 0] /\ UNCHANGED <<files, queue, settled>>
       ELSE LET item == Head(queue) IN
            /\ queue' = Tail(queue)
            /\ IF puts[item.id].obj = del.obj
                 THEN /\ files' = files \ {item.id}
                      /\ settled' = settled \cup ({item.id} \X item.targets)
                      /\ del' = [del EXCEPT !.n = @ - 1]
                 ELSE /\ del' = [del EXCEPT !.n = @ - 1, !.hand = item]
                      /\ UNCHANGED <<files, settled>>
  /\ UNCHANGED <<puts, store, worker, deletes>>

\* Bug: an item of another object is dropped if the queue is full meanwhile.
BugCancelPutsBack ==
  /\ del.hand # NoItem
  /\ queue' = IF Len(queue) < QueueCap THEN Append(queue, del.hand) ELSE queue
  /\ del' = [del EXCEPT !.hand = NoItem]
  /\ UNCHANGED <<puts, store, files, worker, deletes, settled>>

CancelPutsBack ==
  /\ del.hand # NoItem /\ Len(queue) < QueueCap
  /\ queue' = Append(queue, del.hand)
  /\ del' = [del EXCEPT !.hand = NoItem]
  /\ UNCHANGED <<puts, store, files, worker, deletes, settled>>

CancelEnds ==
  /\ del.pc = "drain" /\ del.hand = NoItem /\ del.n = 0
  /\ del' = [del EXCEPT !.pc = "remove", !.left = Paths]
  /\ UNCHANGED <<puts, store, files, queue, worker, deletes, settled>>

DeleteAt(p) ==
  /\ del.pc = "remove" /\ p \in del.left
  /\ del' = [del EXCEPT !.left = @ \ {p}]
  /\ store' = [store EXCEPT ![p][del.obj] = 0]
  /\ UNCHANGED <<puts, files, queue, worker, deletes, settled>>

DeleteFails(p) ==
  /\ del.pc = "remove" /\ p \in del.left
  /\ del' = [del EXCEPT !.left = @ \ {p}]
  /\ UNCHANGED <<puts, store, files, queue, worker, deletes, settled>>

DeleteEnds ==
  /\ del.pc = "remove" /\ del.left = {}
  /\ del' = NoDelete
  /\ UNCHANGED <<puts, store, files, queue, worker, deletes, settled>>

PutStep(i) == FanReturns(i) \/ Enqueue(i)
WorkerStep == WorkerTakes \/ RoundBegins \/ Deadline \/ RoundEnds \/ Clean
AttemptEnds == AttemptPanics \/ \E p \in Paths : AttemptWrites(p) \/ AttemptFails(p)
CancelStep == CancelTakes \/ CancelPutsBack \/ CancelEnds

Next ==
  \/ \E i \in Puts :
       \/ \E o \in Objects, skipped \in SUBSET Paths : PutBegins(i, o, skipped)
       \/ \E p \in Paths : PathOpens(i, p) \/ PathWrites(i, p) \/ PathFails(i, p)
       \/ PutStep(i)
  \/ WorkerStep \/ AttemptEnds
  \/ \E o \in Objects : DeleteBegins(o)
  \/ CancelStep
  \/ \E p \in Paths : DeleteAt(p) \/ DeleteFails(p)
  \/ DeleteEnds

Spec == Init /\ [][Next]_vars

-----------------------------------------------------------------------------
(* Properties                                                              *)

Items == ToSet(queue) \cup
         {[id |-> worker.id, targets |-> worker.targets \cup worker.todo], del.hand}
Waiting(i, p) == \E item \in Items : item.id = i /\ p \in item.targets

\* Every temp file has one owner: the request, an item in the queue, or the item in
\* the hands of the worker or of Cancel.  So none is removed while a path is still
\* to be written from it, and none stays behind.
FilesOwned ==
  LET inQueue == {queue[k].id : k \in DOMAIN queue}
      held == ({worker.id} \cup {del.hand.id}) \ {0}
      asked == {i \in Puts : puts[i].pc \in {"fan", "enqueue"}}
  IN /\ files = asked \cup inQueue \cup held
     /\ asked \cap (inQueue \cup held) = {} /\ inQueue \cap held = {}
     /\ Cardinality(inQueue) = Len(queue)
     /\ worker.id # 0 => worker.id # del.hand.id

\* "clients got a successful PUT response, but these targets never received the
\* object" is surfaced to operators (replication.go:257): of a PUT that is answered
\* with success some path (policy "all": every path) was written, and each other path
\* is still waiting, or was written, reported as lost, or deleted since.
Durable ==
  \A i \in Puts : puts[i].pc = "ok" =>
    /\ \E p \in Paths : puts[i].res[p] = "ok"
    /\ Policy[puts[i].obj] = "all" => \A p \in Paths : puts[i].res[p] = "ok"
    /\ \A p \in Paths : <<i, p>> \in settled \/ Waiting(i, p)

\* "PutObject creates or overwrites the object" (backend.go:337): the worker does not
\* overwrite what a PUT has written with the body of one that was over before that
\* PUT began.
NoStaleOverwrite ==
  [][\A p \in Paths, o \in Objects : worker' # worker /\ store[p][o] # 0 =>
       store'[p][o] \notin puts[store[p][o]].after]_vars
=============================================================================
