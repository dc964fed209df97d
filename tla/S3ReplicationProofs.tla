------------------------ MODULE S3ReplicationProofs ------------------------
(***************************************************************************)
(* Theorems about the replicated writes of S3Replication, for any number   *)
(* of paths, objects and requests, and any length of the worker's queue.   *)
(***************************************************************************)
EXTENDS S3Replication, FiniteSetTheorems, FunctionTheorems, SequenceTheorems, TLAPS

Item == [id : Puts, targets : SUBSET Paths]
Request == [obj : Objects \cup {"none"}, pc : {"new", "fan", "enqueue", "ok", "failed"},
            res : [Paths -> {"none", "run", "open", "ok", "err", "skipped"}],
            pending : SUBSET Paths, after : SUBSET Puts]
Worker == [pc : {"off", "idle", "loop", "round", "clean"}, id : Puts \cup {0},
           targets : SUBSET Paths, todo : SUBSET Paths]
Deletion == [pc : {"idle", "drain", "remove"}, obj : Objects \cup {"none"}, n : Nat,
             hand : Item \cup {NoItem}, left : SUBSET Paths]

TypeInv ==
  /\ puts \in [Puts -> Request]
  /\ store \in [Paths -> [Objects -> Puts \cup {0}]]
  /\ files \subseteq Puts
  /\ queue \in Seq(Item)
  /\ worker \in Worker
  /\ del \in Deletion
  /\ deletes \in 0 .. MaxDeletes
  /\ settled \subseteq Puts \X Paths

\* A temp file is the request's until it is answered, and an item's afterwards; no two
\* items are of the same PUT.
Queued(i) == \E k \in 1 .. Len(queue) : queue[k].id = i
Asked(i) == puts[i].pc \in {"fan", "enqueue"}
OwnerInv ==
  /\ \A i \in Puts : i \in files <=> Asked(i) \/ Queued(i) \/ worker.id = i \/ del.hand.id = i
  /\ \A k \in 1 .. Len(queue) :
       /\ puts[queue[k].id].pc = "ok" /\ queue[k].id \notin {worker.id, del.hand.id}
       /\ \A l \in 1 .. Len(queue) : queue[k].id = queue[l].id => k = l
  /\ worker.id # 0 => puts[worker.id].pc = "ok" /\ worker.id # del.hand.id
  /\ del.hand.id # 0 => puts[del.hand.id].pc = "ok"

\* What the worker and a DELETE are at.
ActorInv ==
  /\ worker.id = 0 <=> worker.pc \in {"off", "idle"}
  /\ worker.pc \notin {"loop", "round"} => worker.targets = {}
  /\ worker.pc # "round" => worker.todo = {}
  /\ del.pc # "idle" => del.obj \in Objects
  /\ del.pc # "drain" => del.hand = NoItem

\* A path that is still to be written from the item of PUT i
Waits(i, p) ==
  \/ \E k \in 1 .. Len(queue) : queue[k].id = i /\ p \in queue[k].targets
  \/ worker.id = i /\ p \in worker.targets \cup worker.todo
  \/ del.hand.id = i /\ p \in del.hand.targets

\* A request: what it wrote is settled, what it did not write is for the worker.
PutInv(i) ==
  /\ puts[i].pc = "new" => \A p \in Paths : puts[i].res[p] = "none"
  /\ puts[i].pc # "new" => puts[i].obj \in Objects
  /\ \A p \in Paths : puts[i].res[p] = "ok" => <<i, p>> \in settled
  /\ puts[i].pc \in {"enqueue", "ok"} =>
       /\ \E p \in Paths : puts[i].res[p] = "ok"
       /\ Policy[puts[i].obj] = "all" => \A p \in Paths : puts[i].res[p] = "ok"
  /\ puts[i].pc = "enqueue" => \A p \in Paths : p \in puts[i].pending \/ puts[i].res[p] = "ok"
  /\ puts[i].pc = "ok" => \A p \in Paths : <<i, p>> \in settled \/ Waits(i, p)

\* The inductive invariant.
IInv == TypeInv /\ OwnerInv /\ ActorInv /\ \A i \in Puts : PutInv(i)

-----------------------------------------------------------------------------
(* Facts                                                                   *)

LEMMA QueueAppend ==
  ASSUME NEW q \in Seq(Item), NEW x \in Item
  PROVE  /\ Append(q, x) \in Seq(Item) /\ Len(q) \in Nat /\ Len(Append(q, x)) = Len(q) + 1
         /\ Append(q, x)[Len(q) + 1] = x /\ \A k \in 1 .. Len(q) : Append(q, x)[k] = q[k]
BY AppendProperties

LEMMA QueueTail ==
  ASSUME NEW q \in Seq(Item), q # << >>
  PROVE  /\ Head(q) \in Item /\ Head(q) = q[1] /\ Len(q) \in Nat \ {0}
         /\ Tail(q) \in Seq(Item) /\ Len(Tail(q)) = Len(q) - 1
         /\ \A k \in 1 .. Len(q) - 1 : Tail(q)[k] = q[k + 1]
<1>1. Len(q) \in Nat \ {0}  BY EmptySeq, LenProperties
<1> QED  BY <1>1, HeadTailProperties

LEMMA Known ==
  ASSUME TypeInv
  PROVE  /\ \A k \in 1 .. Len(queue) : queue[k] \in Item /\ queue[k].id \in Puts /\ queue[k].targets \subseteq Paths
         /\ worker.id \in Puts \cup {0} /\ worker.targets \subseteq Paths /\ worker.todo \subseteq Paths
         /\ del.hand.id \in Puts \cup {0} /\ del.hand.targets \subseteq Paths
         /\ del.hand # NoItem => del.hand \in Item /\ del.hand.id # 0
         /\ NoItem.id = 0 /\ NoItem.targets = {} /\ 0 \notin Puts
<1>1. \A k \in 1 .. Len(queue) : queue[k] \in Item  BY DEF TypeInv
<1>2. \A x \in Item : x.id \in Puts /\ x.targets \subseteq Paths  BY DEF Item
<1>3. worker.id \in Puts \cup {0} /\ worker.targets \subseteq Paths /\ worker.todo \subseteq Paths
  BY DEF TypeInv, Worker
<1>4. del.hand \in Item \cup {NoItem}  BY DEF TypeInv, Deletion
<1>5. NoItem.id = 0 /\ NoItem.targets = {}  BY DEF NoItem
<1>6. 0 \notin Puts  BY DEF Puts
<1> QED  BY <1>1, <1>2, <1>3, <1>4, <1>5, <1>6

LEMMA PutChange ==
  ASSUME TypeInv, NEW i \in Puts, NEW r \in Request, puts' = [puts EXCEPT ![i] = r]
  PROVE  puts' \in [Puts -> Request] /\ puts'[i] = r /\ \A j \in Puts \ {i} : puts'[j] = puts[j]
BY DEF TypeInv

LEMMA StoreChange ==
  ASSUME TypeInv, NEW p \in Paths, NEW o \in Objects, NEW x \in Puts \cup {0}
  PROVE  [store EXCEPT ![p][o] = x] \in [Paths -> [Objects -> Puts \cup {0}]]
BY DEF TypeInv

\* A step that leaves the requests alone: what waits goes on waiting, or is settled.
LEMMA PutsSame ==
  ASSUME IInv, UNCHANGED puts, TypeInv', OwnerInv', ActorInv', settled \subseteq settled',
         \A i \in Puts, p \in Paths : Waits(i, p) => <<i, p>> \in settled' \/ Waits(i, p)'
  PROVE  IInv'
<1>1. ASSUME NEW i \in Puts  PROVE PutInv(i)'
  <2>1. PutInv(i)  BY DEF IInv
  <2> QED  BY <2>1 DEF PutInv
<1> QED  BY <1>1 DEF IInv

\* A step of one request
LEMMA PutChanges ==
  ASSUME IInv, NEW i \in Puts, \A j \in Puts \ {i} : puts'[j] = puts[j],
         TypeInv', OwnerInv', ActorInv', settled \subseteq settled',
         \A j \in Puts, p \in Paths : Waits(j, p) => Waits(j, p)',
         PutInv(i)'
  PROVE  IInv'
<1>1. ASSUME NEW j \in Puts \ {i}  PROVE PutInv(j)'
  <2>1. PutInv(j) /\ puts'[j] = puts[j]  BY DEF IInv
  <2> QED  BY <2>1 DEF PutInv
<1> QED  BY <1>1 DEF IInv

-----------------------------------------------------------------------------
(* The steps of a PUT                                                      *)

LEMMA PutBeginsStep ==
  ASSUME IInv, NEW i \in Puts, NEW o \in Objects, NEW skipped \in SUBSET Paths,
         PutBegins(i, o, skipped)
  PROVE  IInv'
<1>1. PICK r : r = [obj |-> o, pc |-> "fan",
                    res |-> [p \in Paths |-> IF p \in skipped THEN "skipped" ELSE "run"],
                    pending |-> {}, after |-> {j \in Puts : puts[j].pc = "ok"}]
  OBVIOUS
<1>2. /\ puts[i].pc = "new" /\ puts' = [puts EXCEPT ![i] = r] /\ files' = files \cup {i}
      /\ UNCHANGED <<store, queue, worker, del, deletes, settled>>
  BY <1>1 DEF PutBegins
<1>3. r \in Request /\ r.obj = o /\ r.pc = "fan" /\ \A p \in Paths : r.res[p] # "ok"
  BY <1>1 DEF Request
<1>4. puts' \in [Puts -> Request] /\ puts'[i] = r /\ \A j \in Puts \ {i} : puts'[j] = puts[j]
  BY <1>2, <1>3, PutChange DEF IInv
<1>5. TypeInv'  BY <1>2, <1>4 DEF IInv, TypeInv
<1>6. OwnerInv'
  <2>1. TypeInv /\ OwnerInv  BY DEF IInv
  <2>2. \A k \in 1 .. Len(queue) : queue[k].id \in Puts \ {i}
    BY <1>2, <2>1, Known DEF OwnerInv
  <2>3. worker.id \in (Puts \cup {0}) \ {i} /\ del.hand.id \in (Puts \cup {0}) \ {i}
    BY <1>2, <2>1, Known DEF OwnerInv
  <2>4. \A j \in Puts : j \in files' <=> Asked(j)' \/ Queued(j)' \/ worker'.id = j \/ del'.hand.id = j
    BY <1>2, <1>3, <1>4 DEF IInv, OwnerInv, Asked, Queued
  <2>5. OwnerInv  BY DEF IInv
  <2> QED  BY <1>2, <1>4, <2>2, <2>3, <2>4, <2>5 DEF OwnerInv
<1>7. ActorInv'  BY <1>2 DEF IInv, ActorInv
<1>8. PutInv(i)'  BY <1>3, <1>4 DEF PutInv
<1>9. \A j \in Puts, p \in Paths : Waits(j, p) => Waits(j, p)'  BY <1>2 DEF Waits
<1> QED  BY <1>2, <1>4, <1>5, <1>6, <1>7, <1>8, <1>9, PutChanges

\* A path of a PUT: what it has written stays written.
LEMMA PathStep ==
  ASSUME IInv, NEW i \in Puts, NEW p \in Paths, NEW x \in {"open", "ok", "err"},
         puts[i].res[p] \in {"run", "open"},
         puts' = [puts EXCEPT ![i].res[p] = x],
         store' \in [Paths -> [Objects -> Puts \cup {0}]],
         x = "ok" => <<i, p>> \in settled',
         settled \subseteq settled', settled' \subseteq Puts \X Paths,
         UNCHANGED <<files, queue, worker, del, deletes>>
  PROVE  IInv'
<1>0. PICK h : h = puts[i]  OBVIOUS
<1>1. h \in Request /\ PutInv(i) /\ h.res[p] \in {"run", "open"}  BY <1>0 DEF IInv, TypeInv
<1>2. PICK r : r = [h EXCEPT !.res[p] = x]  OBVIOUS
<1>3. /\ r \in Request /\ r.obj = h.obj /\ r.pc = h.pc /\ r.pending = h.pending
      /\ r.res[p] = x /\ \A q \in Paths \ {p} : r.res[q] = h.res[q]
  BY <1>1, <1>2 DEF Request
<1>4. puts' = [puts EXCEPT ![i] = r]  BY <1>0, <1>2
<1>5. puts' \in [Puts -> Request] /\ puts'[i] = r /\ \A j \in Puts \ {i} : puts'[j] = puts[j]
  BY <1>3, <1>4, PutChange DEF IInv
<1>6. TypeInv'  BY <1>5 DEF IInv, TypeInv
<1>7. OwnerInv'
  <2>1. \A j \in Puts : puts'[j].pc = puts[j].pc  BY <1>0, <1>3, <1>5
  <2>2. \A k \in 1 .. Len(queue) : queue[k].id \in Puts  BY Known DEF IInv
  <2>3. worker.id \in Puts \cup {0} /\ del.hand.id \in Puts \cup {0}  BY Known DEF IInv
  <2>4. \A j \in Puts : j \in files' <=> Asked(j)' \/ Queued(j)' \/ worker'.id = j \/ del'.hand.id = j
    BY <2>1 DEF IInv, OwnerInv, Asked, Queued
  <2>5. OwnerInv  BY DEF IInv
  <2> QED  BY <2>1, <2>2, <2>3, <2>4, <2>5 DEF OwnerInv
<1>8. ActorInv'  BY DEF IInv, ActorInv
<1>9. PutInv(i)'
  <2>1. h.pc # "new"  BY <1>0, <1>1 DEF PutInv
  <2>2. \A q \in Paths : h.res[q] = "ok" => r.res[q] = "ok"  BY <1>1, <1>3
  <2>3. \A q \in Paths : r.res[q] = "ok" => <<i, q>> \in settled'
    BY <1>0, <1>1, <1>3 DEF PutInv
  <2>4. \A q \in Paths : Waits(i, q) => Waits(i, q)'  BY DEF Waits
  <2> QED  BY <1>0, <1>1, <1>3, <1>5, <2>1, <2>2, <2>3, <2>4 DEF PutInv
<1>10. \A j \in Puts, q \in Paths : Waits(j, q) => Waits(j, q)'  BY DEF Waits
<1> QED  BY <1>5, <1>6, <1>7, <1>8, <1>9, <1>10, PutChanges

LEMMA PathSteps ==
  ASSUME IInv, NEW i \in Puts, NEW p \in Paths, PathOpens(i, p) \/ PathWrites(i, p) \/ PathFails(i, p)
  PROVE  IInv'
<1>1. TypeInv  BY DEF IInv
<1>2. CASE PathOpens(i, p)
  <2>1. /\ puts[i].res[p] \in {"run", "open"} /\ puts' = [puts EXCEPT ![i].res[p] = "open"]
        /\ UNCHANGED <<store, files, queue, worker, del, deletes, settled>>
    BY <1>2 DEF PathOpens
  <2> QED  BY <1>1, <2>1, PathStep DEF TypeInv
<1>3. CASE PathFails(i, p)
  <2>1. /\ puts[i].res[p] \in {"run", "open"} /\ puts' = [puts EXCEPT ![i].res[p] = "err"]
        /\ UNCHANGED <<store, files, queue, worker, del, deletes, settled>>
    BY <1>3 DEF PathFails
  <2> QED  BY <1>1, <2>1, PathStep DEF TypeInv
<1>4. CASE PathWrites(i, p)
  <2>1. /\ puts[i].res[p] \in {"run", "open"} /\ puts' = [puts EXCEPT ![i].res[p] = "ok"]
        /\ store' = [store EXCEPT ![p][puts[i].obj] = i]
        /\ settled' = settled \cup {<<i, p>>}
        /\ UNCHANGED <<files, queue, worker, del, deletes>>
    BY <1>4 DEF PathWrites, Write
  <2>2. puts[i].obj \in Objects
    <3>1. PutInv(i)  BY DEF IInv
    <3> QED  BY <2>1, <3>1 DEF PutInv
  <2>3. store' \in [Paths -> [Objects -> Puts \cup {0}]]
    <3>1. PICK o \in Objects : o = puts[i].obj  BY <2>2
    <3>2. store' = [store EXCEPT ![p][o] = i]  BY <2>1, <3>1
    <3> QED  BY <1>1, <3>2, StoreChange
  <2>4. settled' \subseteq Puts \X Paths /\ settled \subseteq settled' /\ <<i, p>> \in settled'
    BY <1>1, <2>1 DEF TypeInv
  <2> QED  BY <2>1, <2>3, <2>4, PathStep
<1> QED  BY <1>2, <1>3, <1>4

LEMMA FanReturnsStep ==
  ASSUME IInv, NEW i \in Puts, FanReturns(i)
  PROVE  IInv'
<1>0. PICK h, x, P : /\ h = puts[i] /\ P = Pending(i)
                     /\ x = IF AllFailed(i) \/ (Policy[h.obj] = "all" /\ P # {}) THEN "failed"
                            ELSE IF P # {} THEN "enqueue" ELSE "ok"
  OBVIOUS
<1>1. h \in Request /\ PutInv(i) /\ TypeInv /\ OwnerInv  BY <1>0 DEF IInv, TypeInv
<1>2. PICK r : r = [h EXCEPT !.pc = x, !.pending = P]  OBVIOUS
<1>3. P \subseteq Paths /\ \A p \in Paths : p \in P <=> h.res[p] # "ok"  BY <1>0 DEF Pending
<1>4. x \in {"failed", "enqueue", "ok"}  BY <1>0
<1>5. /\ r \in Request /\ r.obj = h.obj /\ r.pc = x /\ r.pending = P /\ r.res = h.res
  BY <1>1, <1>2, <1>3, <1>4 DEF Request
<1>6. /\ h.pc = "fan" /\ puts' = [puts EXCEPT ![i] = r]
      /\ files' = IF puts'[i].pc = "enqueue" THEN files ELSE files \ {i}
      /\ UNCHANGED <<store, queue, worker, del, deletes, settled>>
  BY <1>0, <1>2 DEF FanReturns
<1>7. puts' \in [Puts -> Request] /\ puts'[i] = r /\ \A j \in Puts \ {i} : puts'[j] = puts[j]
  BY <1>1, <1>5, <1>6, PutChange
<1>8. TypeInv'  BY <1>1, <1>6, <1>7 DEF TypeInv
<1>9. OwnerInv'
  <2>1. \A k \in 1 .. Len(queue) : queue[k].id \in Puts \ {i}
    BY <1>0, <1>1, <1>6, Known DEF OwnerInv
  <2>2. worker.id \in (Puts \cup {0}) \ {i} /\ del.hand.id \in (Puts \cup {0}) \ {i}
    BY <1>0, <1>1, <1>6, Known DEF OwnerInv
  <2>3. ASSUME NEW j \in Puts
        PROVE  j \in files' <=> Asked(j)' \/ Queued(j)' \/ worker'.id = j \/ del'.hand.id = j
    <3>1. CASE j = i
      <4>1. ~Queued(i)' /\ i \in files  BY <1>0, <1>1, <1>6, <2>1 DEF Queued, OwnerInv, Asked
      <4> QED  BY <1>4, <1>5, <1>6, <1>7, <2>2, <3>1, <4>1 DEF Asked
    <3>2. CASE j # i
      <4>1. j \in files' <=> j \in files  BY <1>6, <3>2
      <4>2. Asked(j)' <=> Asked(j)  BY <1>7, <3>2 DEF Asked
      <4>3. Queued(j)' <=> Queued(j)  BY <1>6 DEF Queued
      <4> QED  BY <1>1, <1>6, <4>1, <4>2, <4>3 DEF OwnerInv
    <3> QED  BY <3>1, <3>2
  <2> QED  BY <1>1, <1>6, <1>7, <2>1, <2>2, <2>3 DEF OwnerInv
<1>10. ActorInv'  BY <1>6 DEF IInv, ActorInv
<1>11. PutInv(i)'
  <2>1. x \in {"enqueue", "ok"} =>
          /\ \E p \in Paths : h.res[p] = "ok"
          /\ Policy[h.obj] = "all" => \A p \in Paths : h.res[p] = "ok"
    BY <1>0, <1>3 DEF AllFailed
  <2>2. x = "ok" => \A p \in Paths : h.res[p] = "ok"  BY <1>0, <1>3
  <2>3. h.obj \in Objects /\ \A p \in Paths : h.res[p] = "ok" => <<i, p>> \in settled
    BY <1>0, <1>1, <1>6 DEF PutInv
  <2> QED  BY <1>3, <1>4, <1>5, <1>6, <1>7, <2>1, <2>2, <2>3 DEF PutInv
<1>12. \A j \in Puts, q \in Paths : Waits(j, q) => Waits(j, q)'  BY <1>6 DEF Waits
<1> QED  BY <1>6, <1>7, <1>8, <1>9, <1>10, <1>11, <1>12, PutChanges

LEMMA EnqueueStep ==
  ASSUME IInv, NEW i \in Puts, Enqueue(i)
  PROVE  IInv'
<1>0. PICK h, x : h = puts[i] /\ x = [id |-> i, targets |-> h.pending]  OBVIOUS
<1>1. h \in Request /\ PutInv(i) /\ TypeInv /\ OwnerInv /\ ActorInv  BY <1>0 DEF IInv, TypeInv
<1>2. PICK r : r = [h EXCEPT !.pc = "ok"]  OBVIOUS
<1>3. /\ r \in Request /\ r.obj = h.obj /\ r.pc = "ok" /\ r.pending = h.pending /\ r.res = h.res
  BY <1>1, <1>2 DEF Request
<1>4. /\ h.pc = "enqueue" /\ puts' = [puts EXCEPT ![i] = r]
      /\ queue' = Append(queue, x)
      /\ worker' = IF worker.pc = "off" THEN [worker EXCEPT !.pc = "idle"] ELSE worker
      /\ UNCHANGED <<store, files, del, deletes, settled>>
  BY <1>0, <1>2 DEF Enqueue
<1>5. puts' \in [Puts -> Request] /\ puts'[i] = r /\ \A j \in Puts \ {i} : puts'[j] = puts[j]
  BY <1>1, <1>3, <1>4, PutChange
<1>6. x \in Item /\ x.id = i /\ x.targets = h.pending  BY <1>0, <1>1 DEF Item, Request
<1>7. /\ queue' \in Seq(Item) /\ Len(queue) \in Nat /\ Len(queue') = Len(queue) + 1
      /\ queue'[Len(queue) + 1] = x /\ \A k \in 1 .. Len(queue) : queue'[k] = queue[k]
  <2>1. queue \in Seq(Item)  BY <1>1 DEF TypeInv
  <2> QED  BY <1>4, <1>6, <2>1, QueueAppend
<1>8. /\ worker' \in Worker /\ worker'.id = worker.id /\ worker'.targets = worker.targets
      /\ worker'.todo = worker.todo
      /\ worker'.pc = worker.pc \/ (worker.pc = "off" /\ worker'.pc = "idle")
  <2>1. worker \in Worker  BY <1>1 DEF TypeInv
  <2> QED  BY <1>4, <2>1 DEF Worker
<1>9. TypeInv'  BY <1>1, <1>4, <1>5, <1>7, <1>8 DEF TypeInv
<1>10. OwnerInv'
  <2>1. \A k \in 1 .. Len(queue) : queue[k].id \in Puts \ {i}
    BY <1>0, <1>1, <1>4, Known DEF OwnerInv
  <2>2. worker.id \in (Puts \cup {0}) \ {i} /\ del.hand.id \in (Puts \cup {0}) \ {i}
    BY <1>0, <1>1, <1>4, Known DEF OwnerInv
  <2>3. \A k \in 1 .. Len(queue') : k = Len(queue) + 1 \/ k \in 1 .. Len(queue)
    BY <1>7
  <2>4. ASSUME NEW j \in Puts
        PROVE  j \in files' <=> Asked(j)' \/ Queued(j)' \/ worker'.id = j \/ del'.hand.id = j
    <3>1. CASE j = i
      <4>1. i \in files  BY <1>0, <1>1, <1>4 DEF OwnerInv, Asked
      <4>2. Queued(i)'  BY <1>6, <1>7 DEF Queued
      <4> QED  BY <1>4, <3>1, <4>1, <4>2
    <3>2. CASE j # i
      <4>1. Asked(j)' <=> Asked(j)  BY <1>5, <3>2 DEF Asked
      <4>2. Queued(j)' <=> Queued(j)  BY <1>6, <1>7, <2>3, <3>2 DEF Queued
      <4> QED  BY <1>1, <1>4, <1>8, <4>1, <4>2 DEF OwnerInv
    <3> QED  BY <3>1, <3>2
  <2>5. ASSUME NEW k \in 1 .. Len(queue')
        PROVE  /\ puts'[queue'[k].id].pc = "ok" /\ queue'[k].id \notin {worker'.id, del'.hand.id}
               /\ \A l \in 1 .. Len(queue') : queue'[k].id = queue'[l].id => k = l
    <3>1. CASE k = Len(queue) + 1
      BY <1>3, <1>4, <1>5, <1>6, <1>7, <1>8, <2>1, <2>2, <2>3, <3>1
    <3>2. CASE k \in 1 .. Len(queue)
      <4>1. /\ puts[queue[k].id].pc = "ok" /\ queue[k].id \notin {worker.id, del.hand.id}
            /\ \A l \in 1 .. Len(queue) : queue[k].id = queue[l].id => k = l
        BY <1>1, <3>2 DEF OwnerInv
      <4> QED  BY <1>4, <1>5, <1>6, <1>7, <1>8, <2>1, <2>3, <3>2, <4>1
    <3> QED  BY <2>3, <3>1, <3>2
  <2> QED  BY <1>1, <1>4, <1>5, <1>8, <2>2, <2>4, <2>5 DEF OwnerInv
<1>11. ActorInv'  BY <1>1, <1>4, <1>8 DEF ActorInv
<1>12. \A j \in Puts, q \in Paths : Waits(j, q) => Waits(j, q)'
  BY <1>4, <1>7, <1>8 DEF Waits
<1>13. PutInv(i)'
  <2>1. \A q \in h.pending : Waits(i, q)'  BY <1>6, <1>7 DEF Waits
  <2> QED  BY <1>0, <1>1, <1>3, <1>4, <1>5, <2>1 DEF PutInv
<1> QED  BY <1>4, <1>5, <1>9, <1>10, <1>11, <1>12, <1>13, PutChanges

-----------------------------------------------------------------------------
(* The steps of the worker                                                 *)

LEMMA WorkerTakesStep ==
  ASSUME IInv, WorkerTakes
  PROVE  IInv'
<1>0. PICK x : x = Head(queue)  OBVIOUS
<1>1. TypeInv /\ OwnerInv /\ ActorInv  BY DEF IInv
<1>2. /\ worker.pc = "idle" /\ queue # << >> /\ queue' = Tail(queue)
      /\ worker' = [pc |-> "loop", id |-> x.id, targets |-> x.targets, todo |-> {}]
      /\ UNCHANGED <<puts, store, files, del, deletes, settled>>
  BY <1>0 DEF WorkerTakes
<1>3. /\ x \in Item /\ x = queue[1] /\ Len(queue) \in Nat \ {0}
      /\ queue' \in Seq(Item) /\ Len(queue') = Len(queue) - 1
      /\ \A k \in 1 .. Len(queue) - 1 : queue'[k] = queue[k + 1]
  <2>1. queue \in Seq(Item)  BY <1>1 DEF TypeInv
  <2> QED  BY <1>0, <1>2, <2>1, QueueTail
<1>4. /\ x.id \in Puts /\ x.id # 0 /\ x.targets \subseteq Paths  BY <1>1, <1>3, Known DEF Item
<1>5. /\ worker' \in Worker /\ worker'.id = x.id /\ worker'.targets = x.targets /\ worker'.pc = "loop"
      /\ worker'.todo = {}
  BY <1>2, <1>4 DEF Worker
<1>6. worker.id = 0 /\ worker.targets = {} /\ worker.todo = {}  BY <1>1, <1>2 DEF ActorInv
<1>7. TypeInv'  BY <1>1, <1>2, <1>3, <1>5 DEF TypeInv
<1>8. OwnerInv'
  <2>1. \A j \in Puts : Queued(j) <=> Queued(j)' \/ j = x.id
    <3> TAKE j \in Puts
    <3>1. ASSUME NEW k \in 1 .. Len(queue), queue[k].id = j, j # x.id  PROVE Queued(j)'
      <4>1. k - 1 \in 1 .. Len(queue) - 1 /\ (k - 1) + 1 = k  BY <1>3, <3>1
      <4>2. queue'[k - 1] = queue[k]  BY <1>3, <4>1
      <4> QED  BY <1>3, <3>1, <4>1, <4>2 DEF Queued
    <3>2. ASSUME NEW k \in 1 .. Len(queue'), queue'[k].id = j  PROVE Queued(j)
      <4>1. k + 1 \in 1 .. Len(queue) /\ k \in 1 .. Len(queue) - 1  BY <1>3
      <4> QED  BY <1>3, <3>2, <4>1 DEF Queued
    <3>3. Queued(x.id)  BY <1>3 DEF Queued
    <3> QED  BY <3>1, <3>2, <3>3 DEF Queued
  <2>2. \A j \in Puts : j \in files' <=> Asked(j)' \/ Queued(j)' \/ worker'.id = j \/ del'.hand.id = j
    <3> TAKE j \in Puts
    <3>1. worker.id # j  BY <1>1, <1>6, Known
    <3>2. Asked(j)' <=> Asked(j)  BY <1>2 DEF Asked
    <3> QED  BY <1>1, <1>2, <1>5, <2>1, <3>1, <3>2 DEF OwnerInv
  <2>3. ASSUME NEW k \in 1 .. Len(queue')
        PROVE  /\ puts[queue'[k].id].pc = "ok" /\ queue'[k].id \notin {x.id, del.hand.id}
               /\ \A l \in 1 .. Len(queue') : queue'[k].id = queue'[l].id => k = l
    <3>1. \A l \in 1 .. Len(queue') : l + 1 \in 1 .. Len(queue) /\ queue'[l] = queue[l + 1]
      BY <1>3
    <3>2. 1 \in 1 .. Len(queue) /\ k + 1 # 1  BY <1>3
    <3>3. /\ puts[queue[k + 1].id].pc = "ok" /\ queue[k + 1].id \notin {worker.id, del.hand.id}
          /\ \A l \in 1 .. Len(queue) : queue[k + 1].id = queue[l].id => k + 1 = l
      BY <1>1, <3>1 DEF OwnerInv
    <3> QED  BY <1>3, <3>1, <3>2, <3>3
  <2>4. puts[x.id].pc = "ok" /\ x.id # del.hand.id  BY <1>1, <1>3 DEF OwnerInv
  <2> QED  BY <1>1, <1>2, <1>5, <2>2, <2>3, <2>4 DEF OwnerInv
<1>9. ActorInv'  BY <1>1, <1>2, <1>4, <1>5 DEF ActorInv
<1>10. ASSUME NEW i \in Puts, NEW p \in Paths, Waits(i, p)  PROVE Waits(i, p)'
  <2>1. ASSUME NEW k \in 1 .. Len(queue), queue[k].id = i, p \in queue[k].targets  PROVE Waits(i, p)'
    <3>1. CASE k = 1  BY <1>3, <1>5, <2>1, <3>1 DEF Waits
    <3>2. CASE k # 1
      <4>1. k - 1 \in 1 .. Len(queue) - 1 /\ (k - 1) + 1 = k  BY <1>3, <3>2
      <4>2. queue'[k - 1] = queue[k]  BY <1>3, <4>1
      <4> QED  BY <1>3, <2>1, <4>1, <4>2 DEF Waits
    <3> QED  BY <3>1, <3>2
  <2> QED  BY <1>2, <1>6, <1>10, <2>1 DEF Waits
<1> QED  BY <1>2, <1>7, <1>8, <1>9, <1>10, PutsSame

\* The worker goes on with its item: targets stay, or are settled.
LEMMA RoundStep ==
  ASSUME IInv, UNCHANGED <<puts, files, queue, del, deletes>>,
         worker.pc \in {"loop", "round"}, worker' \in Worker, worker'.id = worker.id,
         worker'.pc \in {"loop", "round", "clean"},
         worker'.pc = "clean" => worker'.targets = {},
         worker'.pc # "round" => worker'.todo = {},
         store' \in [Paths -> [Objects -> Puts \cup {0}]],
         settled \subseteq settled', settled' \subseteq Puts \X Paths,
         \A p \in worker.targets \cup worker.todo :
           p \in worker'.targets \cup worker'.todo \/ <<worker.id, p>> \in settled'
  PROVE  IInv'
<1>1. TypeInv /\ OwnerInv /\ ActorInv  BY DEF IInv
<1>2. TypeInv'  BY <1>1 DEF TypeInv
<1>3. OwnerInv'
  <2>1. \A j \in Puts : (Asked(j)' <=> Asked(j)) /\ (Queued(j)' <=> Queued(j))  BY DEF Asked, Queued
  <2> QED  BY <1>1, <2>1 DEF OwnerInv
<1>4. ActorInv'  BY <1>1 DEF ActorInv
<1>5. \A i \in Puts, p \in Paths : Waits(i, p) => <<i, p>> \in settled' \/ Waits(i, p)'
  BY DEF Waits
<1> QED  BY <1>2, <1>3, <1>4, <1>5, PutsSame

LEMMA WorkerSteps ==
  ASSUME IInv, RoundBegins \/ Deadline \/ RoundEnds \/ AttemptEnds
  PROVE  IInv'
<1>1. TypeInv /\ ActorInv /\ OwnerInv /\ worker \in Worker
      /\ store \in [Paths -> [Objects -> Puts \cup {0}]] /\ settled \subseteq Puts \X Paths
  BY DEF IInv, TypeInv
<1>2. /\ worker.id \in Puts \cup {0} /\ worker.targets \subseteq Paths /\ worker.todo \subseteq Paths
  BY <1>1 DEF Worker
<1>3. worker.pc \in {"loop", "round"} => worker.id \in Puts  BY <1>1, <1>2 DEF ActorInv
<1>4. worker.pc = "loop" => worker.todo = {}  BY <1>1 DEF ActorInv
<1>5. CASE RoundBegins
  <2>1. /\ worker.pc = "loop"
        /\ worker' = IF worker.targets = {} THEN [worker EXCEPT !.pc = "clean"]
                     ELSE [worker EXCEPT !.pc = "round", !.todo = worker.targets, !.targets = {}]
        /\ UNCHANGED <<puts, store, files, queue, del, deletes, settled>>
    BY <1>5 DEF RoundBegins
  <2>2. CASE worker.targets = {}
    <3>1. /\ worker' \in Worker /\ worker'.id = worker.id /\ worker'.pc = "clean"
          /\ worker'.targets = {} /\ worker'.todo = {}
      BY <1>1, <1>4, <2>1, <2>2 DEF Worker
    <3> QED  BY <1>1, <1>4, <2>1, <2>2, <3>1, RoundStep
  <2>3. CASE worker.targets # {}
    <3>1. /\ worker' \in Worker /\ worker'.id = worker.id /\ worker'.pc = "round"
          /\ worker'.targets = {} /\ worker'.todo = worker.targets
      BY <1>1, <2>1, <2>3 DEF Worker
    <3> QED  BY <1>1, <1>4, <2>1, <3>1, RoundStep
  <2> QED  BY <2>2, <2>3
<1>6. CASE Deadline
  <2>1. /\ worker.pc = "loop" /\ settled' = settled \cup ({worker.id} \X worker.targets)
        /\ worker' = [worker EXCEPT !.pc = "clean", !.targets = {}]
        /\ UNCHANGED <<puts, store, files, queue, del, deletes>>
    BY <1>6 DEF Deadline
  <2>2. /\ worker' \in Worker /\ worker'.id = worker.id /\ worker'.pc = "clean"
        /\ worker'.targets = {} /\ worker'.todo = {}
    BY <1>1, <1>4, <2>1 DEF Worker
  <2>3. settled' \subseteq Puts \X Paths /\ settled \subseteq settled'
        /\ \A p \in worker.targets : <<worker.id, p>> \in settled'
    BY <1>1, <1>2, <1>3, <2>1
  <2> QED  BY <1>1, <1>4, <2>1, <2>2, <2>3, RoundStep
<1>7. CASE RoundEnds
  <2>1. /\ worker.pc = "round" /\ worker.todo = {} /\ worker' = [worker EXCEPT !.pc = "loop"]
        /\ UNCHANGED <<puts, store, files, queue, del, deletes, settled>>
    BY <1>7 DEF RoundEnds
  <2>2. /\ worker' \in Worker /\ worker'.id = worker.id /\ worker'.pc = "loop"
        /\ worker'.targets = worker.targets /\ worker'.todo = {}
    BY <1>1, <2>1 DEF Worker
  <2> QED  BY <1>1, <2>1, <2>2, RoundStep
<1>8. CASE AttemptPanics
  <2>1. /\ worker.pc = "round"
        /\ settled' = settled \cup ({worker.id} \X (worker.todo \cup worker.targets))
        /\ worker' = [worker EXCEPT !.pc = "clean", !.todo = {}, !.targets = {}]
        /\ UNCHANGED <<puts, store, files, queue, del, deletes>>
    BY <1>8 DEF AttemptPanics
  <2>2. /\ worker' \in Worker /\ worker'.id = worker.id /\ worker'.pc = "clean"
        /\ worker'.targets = {} /\ worker'.todo = {}
    BY <1>1, <2>1 DEF Worker
  <2>3. settled' \subseteq Puts \X Paths /\ settled \subseteq settled'
        /\ \A p \in worker.targets \cup worker.todo : <<worker.id, p>> \in settled'
    BY <1>1, <1>2, <1>3, <2>1
  <2> QED  BY <1>1, <2>1, <2>2, <2>3, RoundStep
<1>9. ASSUME NEW p \in Paths, AttemptFails(p)  PROVE IInv'
  <2>1. /\ worker.pc = "round" /\ p \in worker.todo
        /\ worker' = [worker EXCEPT !.todo = worker.todo \ {p}, !.targets = worker.targets \cup {p}]
        /\ UNCHANGED <<puts, store, files, queue, del, deletes, settled>>
    BY <1>9 DEF AttemptFails
  <2>2. /\ worker' \in Worker /\ worker'.id = worker.id /\ worker'.pc = "round"
        /\ worker'.targets = worker.targets \cup {p} /\ worker'.todo = worker.todo \ {p}
    BY <1>1, <2>1 DEF Worker
  <2> QED  BY <1>1, <2>1, <2>2, RoundStep
<1>10. ASSUME NEW p \in Paths, AttemptWrites(p)  PROVE IInv'
  <2>1. /\ worker.pc = "round" /\ p \in worker.todo
        /\ store' = [store EXCEPT ![p][puts[worker.id].obj] = worker.id]
        /\ settled' = settled \cup {<<worker.id, p>>}
        /\ worker' = [worker EXCEPT !.todo = worker.todo \ {p}]
        /\ UNCHANGED <<puts, files, queue, del, deletes>>
    BY <1>10 DEF AttemptWrites, Write
  <2>2. /\ worker' \in Worker /\ worker'.id = worker.id /\ worker'.pc = "round"
        /\ worker'.targets = worker.targets /\ worker'.todo = worker.todo \ {p}
    BY <1>1, <2>1 DEF Worker
  <2>3. settled' \subseteq Puts \X Paths /\ settled \subseteq settled' /\ <<worker.id, p>> \in settled'
    BY <1>1, <1>3, <2>1
  <2>4. store' \in [Paths -> [Objects -> Puts \cup {0}]]
    <3>1. worker.id \in Puts /\ worker.id # 0  BY <1>1, <1>3, <2>1, Known
    <3>2. puts[worker.id].pc = "ok" /\ PutInv(worker.id)  BY <1>1, <3>1 DEF OwnerInv, IInv
    <3>3. PICK o \in Objects : o = puts[worker.id].obj  BY <3>2 DEF PutInv
    <3>4. store' = [store EXCEPT ![p][o] = worker.id]  BY <2>1, <3>3
    <3> QED  BY <1>1, <3>1, <3>4, StoreChange
  <2> QED  BY <1>1, <2>1, <2>2, <2>3, <2>4, RoundStep
<1> QED  BY <1>5, <1>6, <1>7, <1>8, <1>9, <1>10 DEF AttemptEnds

LEMMA CleanStep ==
  ASSUME IInv, Clean
  PROVE  IInv'
<1>1. TypeInv /\ OwnerInv /\ ActorInv /\ worker \in Worker  BY DEF IInv, TypeInv
<1>2. /\ worker.pc = "clean" /\ files' = files \ {worker.id}
      /\ worker' = [worker EXCEPT !.pc = "idle", !.id = 0]
      /\ UNCHANGED <<puts, store, queue, del, deletes, settled>>
  BY DEF Clean
<1>3. worker.targets = {} /\ worker.todo = {} /\ worker.id # 0  BY <1>1, <1>2 DEF ActorInv
<1>4. worker' \in Worker /\ worker'.id = 0 /\ worker'.pc = "idle" /\ worker'.targets = {} /\ worker'.todo = {}
  BY <1>1, <1>2, <1>3 DEF Worker
<1>5. TypeInv'  BY <1>1, <1>2, <1>4 DEF TypeInv
<1>6. OwnerInv'
  <2>1. worker.id \in Puts /\ ~Asked(worker.id) /\ ~Queued(worker.id) /\ del.hand.id # worker.id
    BY <1>1, <1>3, Known DEF OwnerInv, Asked, Queued
  <2>2. \A j \in Puts : (Asked(j)' <=> Asked(j)) /\ (Queued(j)' <=> Queued(j))
    BY <1>2 DEF Asked, Queued
  <2>3. \A k \in 1 .. Len(queue) : queue[k].id # 0  BY <1>1, Known
  <2> QED  BY <1>1, <1>2, <1>4, <2>1, <2>2, <2>3, Known DEF OwnerInv
<1>7. ActorInv'  BY <1>1, <1>2, <1>4 DEF ActorInv
<1>8. \A i \in Puts, p \in Paths : Waits(i, p) => Waits(i, p)'  BY <1>2, <1>3 DEF Waits
<1> QED  BY <1>2, <1>5, <1>6, <1>7, <1>8, PutsSame

-----------------------------------------------------------------------------
(* The steps of a DELETE                                                   *)

\* A step that leaves the queue and the item in hand alone
LEMMA DeleteStep ==
  ASSUME IInv, UNCHANGED <<puts, files, queue, worker, settled>>,
         del' \in Deletion, del'.hand = del.hand, deletes' \in 0 .. MaxDeletes,
         store' \in [Paths -> [Objects -> Puts \cup {0}]],
         del'.pc # "idle" => del'.obj \in Objects,
         del'.pc # "drain" => del'.hand = NoItem
  PROVE  IInv'
<1>1. TypeInv /\ OwnerInv /\ ActorInv  BY DEF IInv
<1>2. TypeInv'  BY <1>1 DEF TypeInv
<1>3. OwnerInv'
  <2>1. \A j \in Puts : (Asked(j)' <=> Asked(j)) /\ (Queued(j)' <=> Queued(j))  BY DEF Asked, Queued
  <2> QED  BY <1>1, <2>1 DEF OwnerInv
<1>4. ActorInv'  BY <1>1 DEF ActorInv
<1>5. \A i \in Puts, p \in Paths : Waits(i, p) => Waits(i, p)'  BY DEF Waits
<1> QED  BY <1>2, <1>3, <1>4, <1>5, PutsSame

LEMMA DeleteSteps ==
  ASSUME IInv,
         \/ \E o \in Objects : DeleteBegins(o)
         \/ CancelEnds \/ DeleteEnds
         \/ \E p \in Paths : DeleteAt(p) \/ DeleteFails(p)
  PROVE  IInv'
<1>1. TypeInv /\ ActorInv /\ del \in Deletion /\ deletes \in 0 .. MaxDeletes
      /\ store \in [Paths -> [Objects -> Puts \cup {0}]] /\ MaxDeletes \in Nat
  BY S3Assumption DEF IInv, TypeInv
<1>2. NoDelete \in Deletion /\ NoDelete.hand = NoItem /\ NoDelete.pc = "idle"
  BY DEF NoDelete, Deletion
<1>3. ASSUME NEW o \in Objects, DeleteBegins(o)  PROVE IInv'
  <2>1. /\ del.pc = "idle"
        /\ del' = [NoDelete EXCEPT !.pc = "drain", !.obj = o, !.n = Len(queue)]
        /\ UNCHANGED <<puts, store, files, queue, worker, settled>>
    BY <1>3 DEF DeleteBegins
  <2>5. deletes' \in 0 .. MaxDeletes
    <3>1. deletes < MaxDeletes /\ deletes' = deletes + 1  BY <1>3 DEF DeleteBegins
    <3> QED  BY <1>1, <3>1
  <2>2. Len(queue) \in Nat  BY <1>1 DEF TypeInv
  <2>3. /\ del' \in Deletion /\ del'.hand = NoItem /\ del'.obj = o
    BY <1>2, <2>1, <2>2 DEF Deletion
  <2>4. del.hand = NoItem
    BY <1>1, <2>1 DEF ActorInv
  <2> QED  BY <1>1, <2>1, <2>3, <2>4, <2>5, DeleteStep
<1>4. CASE CancelEnds
  <2>1. /\ del.pc = "drain" /\ del.hand = NoItem /\ del' = [del EXCEPT !.pc = "remove", !.left = Paths]
        /\ UNCHANGED <<puts, store, files, queue, worker, deletes, settled>>
    BY <1>4 DEF CancelEnds
  <2>2. del' \in Deletion /\ del'.hand = del.hand /\ del'.obj = del.obj
    BY <1>1, <2>1 DEF Deletion
  <2> QED  BY <1>1, <2>1, <2>2, DeleteStep DEF ActorInv
<1>5. CASE DeleteEnds
  <2>1. /\ del.pc = "remove" /\ del' = NoDelete
        /\ UNCHANGED <<puts, store, files, queue, worker, deletes, settled>>
    BY <1>5 DEF DeleteEnds
  <2>2. del.hand = NoItem  BY <1>1, <2>1 DEF ActorInv
  <2> QED  BY <1>1, <1>2, <2>1, <2>2, DeleteStep
<1>6. ASSUME NEW p \in Paths, DeleteAt(p) \/ DeleteFails(p)  PROVE IInv'
  <2>1. /\ del.pc = "remove" /\ del' = [del EXCEPT !.left = del.left \ {p}]
        /\ UNCHANGED <<puts, files, queue, worker, deletes, settled>>
    BY <1>6 DEF DeleteAt, DeleteFails
  <2>2. del' \in Deletion /\ del'.hand = del.hand /\ del'.obj = del.obj /\ del'.pc = "remove"
    BY <1>1, <2>1 DEF Deletion
  <2>3. del.obj \in Objects /\ del.hand = NoItem  BY <1>1, <2>1 DEF ActorInv
  <2>4. store' \in [Paths -> [Objects -> Puts \cup {0}]]
    <3>1. CASE DeleteFails(p)  BY <1>1, <3>1 DEF DeleteFails
    <3>2. CASE DeleteAt(p)
      <4>1. PICK o \in Objects : o = del.obj  BY <2>3
      <4>2. store' = [store EXCEPT ![p][o] = 0]  BY <3>2, <4>1 DEF DeleteAt
      <4>3. 0 \in Puts \cup {0}  OBVIOUS
      <4> QED  BY <1>1, <4>2, <4>3, StoreChange
    <3> QED  BY <1>6, <3>1, <3>2
  <2> QED  BY <1>1, <2>1, <2>2, <2>3, <2>4, DeleteStep
<1> QED  BY <1>3, <1>4, <1>5, <1>6

LEMMA CancelTakesStep ==
  ASSUME IInv, CancelTakes
  PROVE  IInv'
<1>1. TypeInv /\ OwnerInv /\ ActorInv /\ del \in Deletion /\ settled \subseteq Puts \X Paths
  BY DEF IInv, TypeInv
<1>2. /\ del.pc = "drain" /\ del.hand = NoItem /\ del.n > 0
      /\ UNCHANGED <<puts, store, worker, deletes>>
  BY DEF CancelTakes
<1>3. CASE queue = << >>
  <2>1. del' = [del EXCEPT !.n = 0] /\ UNCHANGED <<files, queue, settled>>
    BY <1>3 DEF CancelTakes
  <2>2. del' \in Deletion /\ del'.hand = del.hand /\ del'.obj = del.obj
    BY <1>1, <2>1 DEF Deletion
  <2>3. deletes' \in 0 .. MaxDeletes /\ store' \in [Paths -> [Objects -> Puts \cup {0}]]
    BY <1>1, <1>2 DEF TypeInv
  <2> QED  BY <1>1, <1>2, <2>1, <2>2, <2>3, DeleteStep DEF ActorInv
<1>4. CASE queue # << >>
  <2>0. PICK x : x = Head(queue)  OBVIOUS
  <2>1. /\ x \in Item /\ x = queue[1] /\ Len(queue) \in Nat \ {0} /\ queue' = Tail(queue)
        /\ queue' \in Seq(Item) /\ Len(queue') = Len(queue) - 1
        /\ \A k \in 1 .. Len(queue) - 1 : queue'[k] = queue[k + 1]
    <3>1. queue \in Seq(Item) /\ queue' = Tail(queue)  BY <1>1, <1>4 DEF TypeInv, CancelTakes
    <3> QED  BY <1>4, <2>0, <3>1, QueueTail
  <2>2. /\ x.id \in Puts /\ x.id # 0 /\ x.targets \subseteq Paths
    BY <1>1, <2>1, Known DEF Item
  <2>3. \A l \in 1 .. Len(queue') : l + 1 \in 1 .. Len(queue) /\ queue'[l] = queue[l + 1] /\ l + 1 # 1
    BY <2>1
  <2>4. \A k \in 1 .. Len(queue) : k # 1 => k - 1 \in 1 .. Len(queue') /\ queue'[k - 1] = queue[k]
    BY <2>1
  <2>5. /\ puts[x.id].pc = "ok" /\ x.id # worker.id
        /\ \A l \in 1 .. Len(queue') : queue'[l].id # x.id
    <3>1. 1 \in 1 .. Len(queue)  BY <2>1
    <3> QED  BY <1>1, <2>1, <2>3, <3>1 DEF OwnerInv
  <2>6. \A j \in Puts : Queued(j) <=> Queued(j)' \/ j = x.id
    <3> TAKE j \in Puts
    <3>1. Queued(j)' => Queued(j)  BY <2>3 DEF Queued
    <3>2. Queued(j) => Queued(j)' \/ j = x.id  BY <2>1, <2>4 DEF Queued
    <3>3. Queued(x.id)  BY <2>1 DEF Queued
    <3> QED  BY <3>1, <3>2, <3>3
  <2>7. ASSUME NEW k \in 1 .. Len(queue')
        PROVE  /\ puts[queue'[k].id].pc = "ok" /\ queue'[k].id \notin {worker.id, 0, x.id}
               /\ \A l \in 1 .. Len(queue') : queue'[k].id = queue'[l].id => k = l
    <3>1. /\ puts[queue[k + 1].id].pc = "ok" /\ queue[k + 1].id # worker.id
          /\ \A l \in 1 .. Len(queue) : queue[k + 1].id = queue[l].id => k + 1 = l
      BY <1>1, <2>3 DEF OwnerInv
    <3>2. queue[k + 1].id # 0  BY <1>1, <2>3, Known
    <3>3. \A l \in 1 .. Len(queue') : queue'[k].id = queue'[l].id => k = l
      BY <2>1, <2>3, <3>1
    <3> QED  BY <2>3, <2>5, <3>1, <3>2, <3>3
  <2>8. ASSUME NEW i \in Puts, NEW p \in Paths, Waits(i, p)
        PROVE  Waits(i, p)' \/ (i = x.id /\ p \in x.targets)
    <3>1. ASSUME NEW k \in 1 .. Len(queue), queue[k].id = i, p \in queue[k].targets
          PROVE  Waits(i, p)' \/ (i = x.id /\ p \in x.targets)
      <4>1. CASE k = 1  BY <2>1, <3>1, <4>1
      <4>2. CASE k # 1  BY <2>4, <3>1, <4>2 DEF Waits
      <4> QED  BY <4>1, <4>2
    <3>2. del.hand.targets = {}  BY <1>1, <1>2, Known
    <3> QED  BY <1>2, <2>8, <3>1, <3>2 DEF Waits
  <2>9. del.n - 1 \in Nat  BY <1>1, <1>2 DEF Deletion
  <2>10. CASE puts[x.id].obj = del.obj
    <3>1. /\ files' = files \ {x.id} /\ settled' = settled \cup ({x.id} \X x.targets)
          /\ del' = [del EXCEPT !.n = del.n - 1]
      BY <1>4, <2>0, <2>10 DEF CancelTakes
    <3>2. /\ del' \in Deletion /\ del'.hand = NoItem /\ del'.obj = del.obj /\ del'.pc = del.pc
      BY <1>1, <1>2, <2>9, <3>1 DEF Deletion
    <3>3. settled' \subseteq Puts \X Paths /\ settled \subseteq settled'
          /\ \A p \in x.targets : <<x.id, p>> \in settled'
      BY <1>1, <2>2, <3>1
    <3>4. TypeInv'  BY <1>1, <1>2, <2>1, <3>1, <3>2, <3>3 DEF TypeInv
    <3>5. OwnerInv'
      <4>1. \A j \in Puts : j \in files' <=> Asked(j)' \/ Queued(j)' \/ worker'.id = j \/ del'.hand.id = j
        <5> TAKE j \in Puts
        <5>1. ~Queued(x.id)'  BY <2>5 DEF Queued
        <5>2. Asked(j)' <=> Asked(j)  BY <1>2 DEF Asked
        <5>3. ~Asked(x.id)  BY <2>5 DEF Asked
        <5>4. j \in files <=> Asked(j) \/ Queued(j) \/ worker.id = j \/ del.hand.id = j
          BY <1>1 DEF OwnerInv
        <5>5. del.hand.id = 0 /\ del'.hand.id = 0 /\ j # 0  BY <1>1, <1>2, <3>2, Known
        <5> QED  BY <1>2, <2>5, <2>6, <3>1, <5>1, <5>2, <5>3, <5>4, <5>5
      <4>2. del'.hand.id = 0  BY <1>1, <3>2, Known
      <4> QED  BY <1>1, <1>2, <2>7, <4>1, <4>2 DEF OwnerInv
    <3>6. ActorInv'  BY <1>1, <1>2, <3>2 DEF ActorInv
    <3>7. \A i \in Puts, p \in Paths : Waits(i, p) => <<i, p>> \in settled' \/ Waits(i, p)'
      BY <2>8, <3>3
    <3> QED  BY <1>2, <3>3, <3>4, <3>5, <3>6, <3>7, PutsSame
  <2>11. CASE puts[x.id].obj # del.obj
    <3>1. /\ del' = [del EXCEPT !.n = del.n - 1, !.hand = x] /\ UNCHANGED <<files, settled>>
      BY <1>4, <2>0, <2>11 DEF CancelTakes
    <3>2. /\ del' \in Deletion /\ del'.hand = x /\ del'.obj = del.obj /\ del'.pc = del.pc
      BY <1>1, <1>2, <2>1, <2>9, <3>1 DEF Deletion
    <3>4. TypeInv'  BY <1>1, <1>2, <2>1, <3>1, <3>2 DEF TypeInv
    <3>5. OwnerInv'
      <4>1. \A j \in Puts : j \in files' <=> Asked(j)' \/ Queued(j)' \/ worker'.id = j \/ del'.hand.id = j
        <5> TAKE j \in Puts
        <5>2. Asked(j)' <=> Asked(j)  BY <1>2 DEF Asked
        <5>4. j \in files <=> Asked(j) \/ Queued(j) \/ worker.id = j \/ del.hand.id = j
          BY <1>1 DEF OwnerInv
        <5>5. del.hand.id = 0 /\ j # 0  BY <1>1, <1>2, Known
        <5> QED  BY <1>2, <2>6, <3>1, <3>2, <5>2, <5>4, <5>5
      <4> QED  BY <1>1, <1>2, <2>5, <2>7, <3>2, <4>1 DEF OwnerInv
    <3>6. ActorInv'
      BY <1>1, <1>2, <3>2 DEF ActorInv
    <3>7. \A i \in Puts, p \in Paths : Waits(i, p) => Waits(i, p)'
      BY <2>8, <3>2 DEF Waits
    <3> QED  BY <1>2, <3>1, <3>4, <3>5, <3>6, <3>7, PutsSame
  <2> QED  BY <2>10, <2>11
<1> QED  BY <1>3, <1>4

LEMMA CancelPutsBackStep ==
  ASSUME IInv, CancelPutsBack
  PROVE  IInv'
<1>0. PICK x : x = del.hand  OBVIOUS
<1>1. TypeInv /\ OwnerInv /\ ActorInv /\ del \in Deletion  BY DEF IInv, TypeInv
<1>2. /\ x # NoItem /\ queue' = Append(queue, x) /\ del' = [del EXCEPT !.hand = NoItem]
      /\ UNCHANGED <<puts, store, files, worker, deletes, settled>>
  BY <1>0 DEF CancelPutsBack
<1>3. x \in Item /\ x.id # 0 /\ x.id \in Puts /\ NoItem.id = 0 /\ NoItem.targets = {} /\ 0 \notin Puts
  BY <1>0, <1>1, <1>2, Known DEF Item
<1>4. /\ queue' \in Seq(Item) /\ Len(queue) \in Nat /\ Len(queue') = Len(queue) + 1
      /\ queue'[Len(queue) + 1] = x /\ \A k \in 1 .. Len(queue) : queue'[k] = queue[k]
  <2>1. queue \in Seq(Item)  BY <1>1 DEF TypeInv
  <2> QED  BY <1>2, <1>3, <2>1, QueueAppend
<1>5. /\ del' \in Deletion /\ del'.hand = NoItem /\ del'.obj = del.obj /\ del'.pc = del.pc
  BY <1>1, <1>2 DEF Deletion
<1>6. TypeInv'  BY <1>1, <1>2, <1>4, <1>5 DEF TypeInv
<1>7. \A k \in 1 .. Len(queue') : k = Len(queue) + 1 \/ k \in 1 .. Len(queue)
  BY <1>4
<1>8. \A k \in 1 .. Len(queue) : /\ puts[queue[k].id].pc = "ok" /\ queue[k].id \notin {worker.id, x.id, 0}
                                /\ \A l \in 1 .. Len(queue) : queue[k].id = queue[l].id => k = l
  BY <1>0, <1>1, Known DEF OwnerInv
<1>9. puts[x.id].pc = "ok" /\ x.id # worker.id  BY <1>0, <1>1, <1>3 DEF OwnerInv
<1>10. OwnerInv'
  <2>1. \A j \in Puts : j \in files' <=> Asked(j)' \/ Queued(j)' \/ worker'.id = j \/ del'.hand.id = j
    <3> TAKE j \in Puts
    <3>1. Queued(j)' <=> Queued(j) \/ j = x.id  BY <1>4, <1>7 DEF Queued
    <3>2. Asked(j)' <=> Asked(j)  BY <1>2 DEF Asked
    <3>3. j \in files <=> Asked(j) \/ Queued(j) \/ worker.id = j \/ x.id = j
      BY <1>0, <1>1 DEF OwnerInv
    <3> QED  BY <1>2, <1>3, <1>5, <3>1, <3>2, <3>3
  <2>2. ASSUME NEW k \in 1 .. Len(queue')
        PROVE  /\ puts[queue'[k].id].pc = "ok" /\ queue'[k].id \notin {worker.id, 0}
               /\ \A l \in 1 .. Len(queue') : queue'[k].id = queue'[l].id => k = l
    <3>1. CASE k = Len(queue) + 1
      BY <1>3, <1>4, <1>7, <1>8, <1>9, <3>1
    <3>2. CASE k \in 1 .. Len(queue)
      BY <1>4, <1>7, <1>8, <3>2
    <3> QED  BY <1>7, <3>1, <3>2
  <2> QED  BY <1>1, <1>2, <1>3, <1>5, <2>1, <2>2 DEF OwnerInv
<1>11. ActorInv'  BY <1>1, <1>2, <1>5 DEF ActorInv
<1>12. \A i \in Puts, p \in Paths : Waits(i, p) => Waits(i, p)'
  <2> SUFFICES ASSUME NEW i \in Puts, NEW p \in Paths, Waits(i, p)  PROVE Waits(i, p)'
    OBVIOUS
  <2>1. CASE x.id = i /\ p \in x.targets  BY <1>4, <2>1 DEF Waits
  <2> QED  BY <1>0, <1>2, <1>4, <2>1 DEF Waits
<1> QED  BY <1>2, <1>6, <1>10, <1>11, <1>12, PutsSame

-----------------------------------------------------------------------------
(* The theorems                                                            *)

LEMMA InitInv ==
  ASSUME Init  PROVE IInv
<1>1. NoPut \in Request /\ NoPut.pc = "new" /\ \A p \in Paths : NoPut.res[p] = "none"
  BY DEF NoPut, Request
<1>2. NoDelete \in Deletion /\ NoDelete.hand.id = 0 /\ NoDelete.pc = "idle" /\ NoDelete.hand = NoItem
  BY DEF NoDelete, Deletion, NoItem
<1>3. worker \in Worker /\ worker.id = 0 /\ worker.pc = "off" /\ worker.targets = {} /\ worker.todo = {}
  BY DEF Init, Worker
<1>4. queue \in Seq(Item) /\ Len(queue) = 0 /\ 1 .. Len(queue) = {}  BY DEF Init
<1>5. TypeInv  BY <1>1, <1>2, <1>3, <1>4, S3Assumption DEF Init, TypeInv
<1>6. OwnerInv
  BY <1>1, <1>2, <1>3, <1>4, <1>5, Known DEF Init, OwnerInv, Asked, Queued
<1>7. ActorInv  BY <1>2, <1>3 DEF Init, ActorInv
<1>8. \A i \in Puts : PutInv(i)  BY <1>1 DEF Init, PutInv
<1> QED  BY <1>5, <1>6, <1>7, <1>8 DEF IInv

LEMMA StutterInv ==
  ASSUME IInv, UNCHANGED vars  PROVE IInv'
<1> USE DEF vars
<1>1. TypeInv' /\ ActorInv'  BY DEF IInv, TypeInv, ActorInv
<1>2. OwnerInv'  BY DEF IInv, OwnerInv, Asked, Queued
<1>3. \A i \in Puts, p \in Paths : Waits(i, p) => Waits(i, p)'  BY DEF Waits
<1> QED  BY <1>1, <1>2, <1>3, PutsSame

LEMMA StepInv ==
  ASSUME IInv, [Next]_vars  PROVE IInv'
<1>1. CASE UNCHANGED vars  BY <1>1, StutterInv
<1>2. ASSUME NEW i \in Puts, NEW o \in Objects, NEW skipped \in SUBSET Paths, PutBegins(i, o, skipped)
      PROVE  IInv'
  BY <1>2, PutBeginsStep
<1>3. ASSUME NEW i \in Puts, NEW p \in Paths, PathOpens(i, p) \/ PathWrites(i, p) \/ PathFails(i, p)
      PROVE  IInv'
  BY <1>3, PathSteps
<1>4. ASSUME NEW i \in Puts, PutStep(i)  PROVE IInv'
  BY <1>4, FanReturnsStep, EnqueueStep DEF PutStep
<1>5. CASE WorkerStep \/ AttemptEnds
  BY <1>5, WorkerTakesStep, WorkerSteps, CleanStep DEF WorkerStep
<1>6. CASE CancelStep
  BY <1>6, CancelTakesStep, CancelPutsBackStep, DeleteSteps DEF CancelStep
<1>7. CASE \/ \E o \in Objects : DeleteBegins(o)
           \/ DeleteEnds
           \/ \E p \in Paths : DeleteAt(p) \/ DeleteFails(p)
  BY <1>7, DeleteSteps
<1> QED  BY <1>1, <1>2, <1>3, <1>4, <1>5, <1>6, <1>7 DEF Next

\* The inductive invariant holds in every reachable state.
THEOREM Invariance == Spec => []IInv
<1>1. Init => IInv  BY InitInv
<1>2. IInv /\ [Next]_vars => IInv'  BY StepInv
<1> QED  BY <1>1, <1>2, PTL DEF Spec

\* Requests, the queue, the worker and a DELETE have their types.
THEOREM TypeCorrect == Spec => []TypeInv
<1>1. IInv => TypeInv  BY DEF IInv
<1> QED  BY <1>1, Invariance, PTL

\* A temp file is the request's until Enqueue, and then that of one item in the queue, in the
\* worker's hands or in Cancel's (PutObject, replicationItem).
THEOREM EveryFileHasOneOwner == Spec => []FilesOwned
<1>1. ASSUME IInv  PROVE FilesOwned
  <2> DEFINE inQueue == {queue[k].id : k \in DOMAIN queue}
             held == ({worker.id} \cup {del.hand.id}) \ {0}
             asked == {i \in Puts : puts[i].pc \in {"fan", "enqueue"}}
  <2>1. TypeInv /\ OwnerInv /\ queue \in Seq(Item) /\ Len(queue) \in Nat /\ DOMAIN queue = 1 .. Len(queue)
    BY <1>1 DEF IInv, TypeInv
  <2>2. \A k \in 1 .. Len(queue) : queue[k].id \in Puts  BY <2>1, Known
  <2>3. worker.id \in Puts \cup {0} /\ del.hand.id \in Puts \cup {0} /\ 0 \notin Puts  BY <2>1, Known
  <2>4. \A i \in Puts : i \in inQueue <=> Queued(i)  BY <2>1 DEF Queued
  <2>5. files = asked \cup inQueue \cup held
    BY <2>1, <2>2, <2>3, <2>4 DEF OwnerInv, TypeInv, Asked
  <2>6. asked \cap (inQueue \cup held) = {} /\ inQueue \cap held = {}
    BY <2>1, <2>2, <2>3 DEF OwnerInv
  <2>7. Cardinality(inQueue) = Len(queue)
    <3> DEFINE f == [k \in 1 .. Len(queue) |-> queue[k].id]
    <3>1. f \in Bijection(1 .. Len(queue), inQueue)
      <4>1. f \in [1 .. Len(queue) -> inQueue]  BY <2>1
      <4>2. \A k, l \in 1 .. Len(queue) : f[k] = f[l] => k = l  BY <2>1 DEF OwnerInv
      <4>3. \A i \in inQueue : \E k \in 1 .. Len(queue) : f[k] = i  BY <2>1
      <4> HIDE DEF f, inQueue
      <4> QED  BY <4>1, <4>2, <4>3, Fun_IsBij
    <3>2. ExistsBijection(1 .. Len(queue), inQueue)  BY <3>1 DEF ExistsBijection
    <3> HIDE DEF inQueue
    <3> QED  BY <2>1, <3>2, FS_CountingElements
  <2>8. worker.id # 0 => worker.id # del.hand.id  BY <2>1 DEF OwnerInv
  <2> QED  BY <2>5, <2>6, <2>7, <2>8 DEF FilesOwned
<1> QED  BY <1>1, Invariance, PTL

\* A PUT that was answered with success has each path written, or waiting in the queue, or
\* reported as lost, or deleted (fanOutPut, Enqueue, run, Cancel).
THEOREM SuccessIsDurable == Spec => []Durable
<1>1. ASSUME IInv  PROVE Durable
  <2>1. TypeInv /\ queue \in Seq(Item) /\ DOMAIN queue = 1 .. Len(queue)  BY <1>1 DEF IInv, TypeInv
  <2>2. ASSUME NEW i \in Puts, NEW p \in Paths, Waits(i, p)  PROVE Waiting(i, p)
    <3>1. ASSUME NEW k \in 1 .. Len(queue), queue[k].id = i, p \in queue[k].targets
          PROVE  Waiting(i, p)
      <4>1. queue[k] \in Items  BY <2>1 DEF Items, ToSet
      <4> QED  BY <3>1, <4>1 DEF Waiting
    <3>2. CASE worker.id = i /\ p \in worker.targets \cup worker.todo
      <4>1. PICK x : x = [id |-> worker.id, targets |-> worker.targets \cup worker.todo]  OBVIOUS
      <4>2. x \in Items /\ x.id = i /\ p \in x.targets  BY <3>2, <4>1 DEF Items
      <4> QED  BY <4>2 DEF Waiting
    <3>3. CASE del.hand.id = i /\ p \in del.hand.targets
      <4>1. del.hand \in Items  BY DEF Items
      <4> QED  BY <3>3, <4>1 DEF Waiting
    <3> QED  BY <2>2, <3>1, <3>2, <3>3 DEF Waits
  <2>3. \A i \in Puts : PutInv(i)  BY <1>1 DEF IInv
  <2> QED  BY <2>2, <2>3 DEF Durable, PutInv
<1> QED  BY <1>1, Invariance, PTL
=============================================================================
