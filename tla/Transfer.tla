------------------------------ MODULE Transfer ------------------------------
(***************************************************************************)
(* internal/fs/copy_move.go, internal/task_group: copies and moves between *)
(* two storages.  A task per file and directory; a directory's task adds   *)
(* one for each child.  Tasks into one directory form a group; when the    *)
(* last one is over and any of them succeeded, a hook compares source and  *)
(* destination and removes the sources of moves.  Tasks run in the task    *)
(* manager (tache, external), which retries them, or one after another in  *)
(* the request (WebDAV).                                                   *)
(*                                                                         *)
(* A storage maps each item of the source's tree to what it has at that    *)
(* place; the content of a file is new (the source's), a part of that, or  *)
(* old.  A driver that writes in place has a part there during the copy,   *)
(* and after one that broke off.  Updates of search indexes are left out,  *)
(* and so are changes by others meanwhile.                                 *)
(***************************************************************************)
EXTENDS Integers, Sequences, FiniteSets

CONSTANTS
  Kinds,         \* of transfers: "copy", "move", "merge"
  Items, Dirs,   \* the source's files and directories, and which are directories
  Up,            \* item -> the item and all above it
  Top,           \* the directory that the roots of the tree are moved into
  MaxTasks,      \* bound: tasks the manager has seen
  MaxRetry,      \* conf.Tasks.Move.MaxRetry
  MaxFaults,     \* bound: failures of a storage, cancelled tasks
  MaxManual,     \* bound: retries by the user
  MaxRestarts,   \* bound
  MaxUpsets      \* bound: failures, retries by the user and restarts together

Roots == {i \in Items : Up[i] = {i}}
Under(i) == {j \in Items : i \in Up[j]}
Children(i) == {j \in Items : j # i /\ Up[j] = Up[i] \cup {j}}

\* Items are paths: a directory is above what it has, step by step, up to a root.
ASSUME TransferAssumption ==
  /\ Kinds \subseteq {"copy", "move", "merge"}
  /\ Dirs \subseteq Items /\ Top \notin Items
  /\ Up \in [Items -> SUBSET Items]
  /\ \A i \in Items :
       /\ i \in Up[i] /\ Up[i] \ {i} \subseteq Dirs /\ Up[i] \cap Roots # {}
       /\ \A j \in Up[i] \ {i} : Up[j] \subseteq Up[i] \ {i} /\ Up[i] \cap Children(j) # {}
  /\ MaxTasks \in Nat /\ MaxRetry \in Nat /\ MaxFaults \in Nat
  /\ MaxManual \in Nat /\ MaxRestarts \in Nat /\ MaxUpsets \in Nat

\* The directory an item is moved into: the ID of a group.
Into(i) == IF i \in Roots THEN Top ELSE CHOOSE p \in Items : i \in Children(p)
Groups == {Into(i) : i \in Items}

VARIABLES
  kind,      \* what the user asked for
  src, dst,  \* item -> what the storage has there
  before,    \* history: dst when the transfer began
  task,      \* the tasks: item, group, state, children to add, retries; the hook it runs
  group,     \* group -> groupState, and its sources to remove
  faults, manual, restarts   \* history

vars == <<kind, src, dst, before, task, group, faults, manual, restarts>>

NoGroup == [pending |-> 0, ok |-> FALSE, pay |-> {}]
Unfinished == {"queued", "adding", "request", "succeeded", "failing"}
States == Unfinished \cup {"ok", "failed"}

Task == [item : Items, group : Groups, st : States, left : SUBSET Items, tries : 0 .. MaxRetry,
         any : BOOLEAN, todo : SUBSET Items, open : SUBSET Items, bad : SUBSET Items]
NewTask(i, g) == [item |-> i, group |-> g, st |-> "queued", left |-> {}, tries |-> 0,
                  any |-> FALSE, todo |-> {}, open |-> {}, bad |-> {}]

TypeOK ==
  /\ kind \in Kinds
  /\ src \in [Items -> {"none", "dir", "new"}]
  /\ dst \in [Items -> {"none", "dir", "old", "part", "new"}] /\ before \in [Items -> {"none", "dir", "old"}]
  /\ task \in Seq(Task)
  /\ group \in [Groups -> [pending : Nat, ok : BOOLEAN, pay : SUBSET Items]]
  /\ faults \in 0 .. MaxFaults /\ manual \in 0 .. MaxManual /\ restarts \in 0 .. MaxRestarts

\* The destination may have files and directories of the same names already.
Init ==
  /\ kind \in Kinds
  /\ src = [i \in Items |-> IF i \in Dirs THEN "dir" ELSE "new"]
  /\ dst \in {d \in [Items -> {"none", "dir", "old"}] :
                \A i \in Items : d[i] # "none" => \A j \in Up[i] \ {i} : d[j] = "dir"}
  /\ before = dst
  /\ task = << >>
  /\ group = [g \in Groups |-> NoGroup]
  /\ faults = 0 /\ manual = 0 /\ restarts = 0

-----------------------------------------------------------------------------
(* TaskGroupCoordinator                                                    *)

Added(gs, g, pay) == [gs EXCEPT ![g].pending = @ + 1, ![g].pay = @ \cup pay]

\* A task that is over, and what its hook verifies
Over(i, ok, todo) == [NewTask(i, Into(i)) EXCEPT !.st = IF ok THEN "ok" ELSE "failed", !.todo = todo]

\* SrcPathToRemove, of a move
ToRemove(i) == IF kind = "move" THEN {i} ELSE {}

\* Bug: the group is complete at its first success.
BugDone(t, ok) ==
  LET g == task[t].group  s == group[g]
      over == s.pending = 1 \/ ok
  IN /\ group' = IF s.pending = 0 THEN group
                 ELSE IF over THEN [group EXCEPT ![g] = NoGroup]
                 ELSE [group EXCEPT ![g].pending = @ - 1, ![g].ok = s.ok \/ ok]
     /\ task' = [task EXCEPT ![t] = Over(task[t].item, ok, IF over /\ (s.ok \/ ok) THEN s.pay ELSE {})]

\* Bug: the task that completes the group leaves its count behind.
BugDoneKeepsCount(t, ok) ==
  LET g == task[t].group  s == group[g]
      over == s.pending = 1
  IN /\ group' = IF s.pending = 0 THEN group
                 ELSE IF over THEN [group EXCEPT ![g].pay = {}]
                 ELSE [group EXCEPT ![g].pending = @ - 1, ![g].ok = s.ok \/ ok]
     /\ task' = [task EXCEPT ![t] = Over(task[t].item, ok, IF over /\ (s.ok \/ ok) THEN s.pay ELSE {})]

\* Done: the last task of a group takes the sources to remove and runs the hook, if
\* any task succeeded.
Done(t, ok) ==
  LET g == task[t].group  s == group[g]
      over == s.pending = 1
  IN /\ group' = IF s.pending = 0 THEN group
                 ELSE IF over THEN [group EXCEPT ![g] = NoGroup]
                 ELSE [group EXCEPT ![g] = [pending |-> s.pending - 1, ok |-> s.ok \/ ok, pay |-> s.pay]]
     /\ task' = [task EXCEPT ![t] = Over(task[t].item, ok, IF over /\ (s.ok \/ ok) THEN s.pay ELSE {})]

-----------------------------------------------------------------------------
(* The storages                                                            *)

File(s, i) == s[i] \notin {"none", "dir"}

\* op.Remove: a directory with all that is in it
Without(s, i) == [j \in Items |-> IF j \in Under(i) THEN "none" ELSE s[j]]

\* op.Put makes the directories above, and fails below a file.  It removes what is there
\* and has no size, a directory too.
CanPut(i) == \A j \in Up[i] \ {i} : ~File(dst, j)
PutAs(i, what) == dst' = [j \in Items |-> IF j = i THEN what
                                          ELSE IF j \in Up[i] THEN "dir"
                                          ELSE IF j \in Under(i) THEN "none" ELSE dst[j]]
Put(i) == PutAs(i, "new")

\* A copy that breaks off: most drivers leave what they have written of the file, or have
\* not begun it; the local one removes it when the task was cancelled.
PutBreaks(i) == dst' = dst \/ (dst[i] = "part" /\ dst' = [dst EXCEPT ![i] = "none"])

\* The children a directory's task copies.  A merge skips files that exist.
ToCopy(i) == {j \in Children(i) : src[j] # "none" /\ ~(kind = "merge" /\ src[j] = "new" /\ File(dst, j))}
\* List of a file fails, that of a directory that does not exist is empty.
CanList(i) == kind = "merge" => ~File(dst, i)

Upset == faults + manual + restarts < MaxUpsets
Fault == Upset /\ faults < MaxFaults /\ faults' = faults + 1

-----------------------------------------------------------------------------
(* transfer, and the request that runs everything itself                   *)

Started(i) == \E t \in 1 .. Len(task) : task[t].item = i

\* transfer: AddTask, AppendPayload, and the task is the manager's.
Start(i) ==
  /\ i \in Roots /\ ~Started(i) /\ Len(task) < MaxTasks
  /\ group' = Added(group, Top, ToRemove(i))
  /\ task' = Append(task, NewTask(i, Top))
  /\ UNCHANGED <<kind, src, dst, before, faults, manual, restarts>>

\* transfer with NoTaskKey: the request counts as one task of the group.
StartRequest(i) ==
  /\ i \in Roots /\ ~Started(i) /\ Len(task) < MaxTasks
  /\ group' = Added(group, Top, {})
  /\ task' = Append(task, [NewTask(i, Top) EXCEPT !.st = "request", !.left = {i}])
  /\ UNCHANGED <<kind, src, dst, before, faults, manual, restarts>>

\* The next item, in any order: a directory is replaced by its children ...
RequestDir(t, i) ==
  /\ task[t].st = "request" /\ i \in task[t].left
  /\ src[i] = "dir" /\ CanList(i)
  /\ task' = [task EXCEPT ![t] = [task[t] EXCEPT !.left = (@ \ {i}) \cup ToCopy(i),
                                               !.any = IF ToCopy(i) = {} THEN TRUE ELSE @]]
  /\ UNCHANGED <<kind, src, dst, before, group, faults, manual, restarts>>

\* ... a file is copied, one at a time.
RequestBegins(t, i) ==
  /\ task[t].st = "request" /\ i \in task[t].left /\ \A j \in task[t].left : dst[j] # "part"
  /\ src[i] = "new" /\ CanPut(i)
  /\ PutAs(i, "part")
  /\ UNCHANGED <<kind, src, before, task, group, faults, manual, restarts>>

RequestFile(t, i) ==
  /\ task[t].st = "request" /\ i \in task[t].left
  /\ src[i] = "new" /\ CanPut(i)
  /\ Put(i)
  /\ task' = [task EXCEPT ![t] = [task[t] EXCEPT !.left = @ \ {i}, !.any = TRUE]]
  /\ UNCHANGED <<kind, src, before, group, faults, manual, restarts>>

\* The first error ends it, and is what it returns.
RequestFails(t, i) ==
  /\ task[t].st = "request" /\ i \in task[t].left
  /\ IF src[i] = "none" \/ (src[i] = "dir" /\ ~CanList(i)) \/ (src[i] = "new" /\ ~CanPut(i))
     THEN UNCHANGED <<dst, faults>> ELSE PutBreaks(i) /\ Fault
  /\ task' = [task EXCEPT ![t] = [@ EXCEPT !.left = {}, !.bad = {i}]]
  /\ UNCHANGED <<kind, src, before, group, manual, restarts>>

\* AppendPayload and Done, as a success if any item succeeded.  The request itself
\* succeeded if nothing failed.
RequestEnds(t) ==
  /\ task[t].st = "request" /\ task[t].left = {}
  /\ LET g == task[t].group  s == group[g]
         pay == s.pay \cup ToRemove(task[t].item)
         ok == s.ok \/ task[t].any
     IN /\ group' = [group EXCEPT ![g] = IF s.pending = 1 THEN NoGroup
                                        ELSE [pending |-> s.pending - 1, ok |-> ok, pay |-> pay]]
        /\ task' = [task EXCEPT ![t] =
             Over(task[t].item, task[t].bad = {}, IF s.pending = 1 /\ ok THEN pay ELSE {})]
  /\ UNCHANGED <<kind, src, dst, before, faults, manual, restarts>>

-----------------------------------------------------------------------------
(* A task of the manager: RunWithNextTaskCallback, OnSucceeded, OnFailed   *)

ListDir(t) ==
  LET i == task[t].item IN
  /\ task[t].st = "queued" /\ src[i] = "dir" /\ CanList(i)
  /\ task' = [task EXCEPT ![t] = [@ EXCEPT !.st = "adding", !.left = ToCopy(i)]]
  /\ UNCHANGED <<kind, src, dst, before, group, faults, manual, restarts>>

\* Bug: the child is not counted.
BugAddChild(t, j) ==
  /\ task[t].st = "adding" /\ j \in task[t].left /\ Len(task) < MaxTasks
  /\ task' = Append([task EXCEPT ![t].left = @ \ {j}], NewTask(j, task[t].group))
  /\ UNCHANGED <<kind, src, dst, before, group, faults, manual, restarts>>

\* The callback of Run: AddTask, and the child is the manager's.
AddChild(t, j) ==
  /\ task[t].st = "adding" /\ j \in task[t].left /\ Len(task) < MaxTasks
  /\ group' = Added(group, task[t].group, {})
  /\ task' = Append([task EXCEPT ![t].left = @ \ {j}], NewTask(j, task[t].group))
  /\ UNCHANGED <<kind, src, dst, before, faults, manual, restarts>>

DirDone(t) ==
  /\ task[t].st = "adding" /\ task[t].left = {}
  /\ Done(t, TRUE)
  /\ UNCHANGED <<kind, src, dst, before, faults, manual, restarts>>

\* op.Put has the driver create the file, and write what the source sends ...
CopyBegins(t) ==
  LET i == task[t].item IN
  /\ task[t].st = "queued" /\ src[i] = "new" /\ CanPut(i)
  /\ PutAs(i, "part")
  /\ UNCHANGED <<kind, src, before, task, group, faults, manual, restarts>>

\* ... to its end.
CopyFile(t) ==
  LET i == task[t].item IN
  /\ task[t].st = "queued" /\ src[i] = "new" /\ CanPut(i)
  /\ Put(i)
  /\ task' = [task EXCEPT ![t].st = "succeeded"]
  /\ UNCHANGED <<kind, src, before, group, faults, manual, restarts>>

\* An error: the manager tries again, without telling the group, or gives up.
Fails(t) ==
  LET i == task[t].item IN
  /\ task[t].st = "queued"
  /\ IF src[i] = "none" \/ (src[i] = "dir" /\ ~CanList(i)) \/ (src[i] = "new" /\ ~CanPut(i))
     THEN UNCHANGED <<dst, faults>> ELSE PutBreaks(i) /\ Fault
  /\ task' = IF task[t].tries < MaxRetry THEN [task EXCEPT ![t].tries = @ + 1]
             ELSE [task EXCEPT ![t].st = "failing"]
  /\ UNCHANGED <<kind, src, before, group, manual, restarts>>

\* A directory's task is cancelled between two children.
Cancelled(t) ==
  /\ task[t].st = "adding" /\ task[t].left # {} /\ Fault
  /\ task' = [task EXCEPT ![t] = [@ EXCEPT !.st = "failing", !.left = {}]]
  /\ UNCHANGED <<kind, src, dst, before, group, manual, restarts>>

OnSucceeded(t) ==
  /\ task[t].st = "succeeded"
  /\ Done(t, TRUE)
  /\ UNCHANGED <<kind, src, dst, before, faults, manual, restarts>>

OnFailed(t) ==
  /\ task[t].st = "failing"
  /\ Done(t, FALSE)
  /\ UNCHANGED <<kind, src, dst, before, faults, manual, restarts>>

\* A task that begins anew, counted in the group of its own directory (SetRetry).
Anew(i) == NewTask(i, Into(i))

\* SetRetry of a task the user retries; a request that failed is asked for anew, as a task.
ManualRetry(t) ==
  /\ task[t].st = "failed" /\ task[t].todo \cup task[t].open = {}
  /\ Upset /\ manual < MaxManual /\ manual' = manual + 1
  /\ task' = [task EXCEPT ![t] = Anew(task[t].item)]
  /\ group' = Added(group, Into(task[t].item), ToRemove(task[t].item))
  /\ UNCHANGED <<kind, src, dst, before, faults, restarts>>

\* The server restarts.  The groups, their hooks and the requests are gone; tasks that
\* were not over, or not known to be, are loaded and run again (SetRetry).
Restart ==
  LET alive == {t \in 1 .. Len(task) : task[t].st \in {"queued", "adding"}}
      maybe == {t \in 1 .. Len(task) : task[t].st \in {"succeeded", "failing"}}
  IN /\ Upset /\ restarts < MaxRestarts /\ restarts' = restarts + 1
     /\ \E more \in SUBSET maybe :
          LET again == alive \cup more IN
          /\ task' = [t \in 1 .. Len(task) |->
               IF t \in again THEN Anew(task[t].item)
               ELSE Over(task[t].item, task[t].st \in {"ok", "succeeded"}, {})]
          /\ group' = [g \in Groups |->
               LET mine == {t \in again : Into(task[t].item) = g} IN
               [pending |-> Cardinality(mine), ok |-> FALSE,
                pay |-> UNION {ToRemove(task[t].item) : t \in mine}]]
     /\ UNCHANGED <<kind, src, dst, before, faults, manual>>

-----------------------------------------------------------------------------
(* HookAndRemove, verifyAndRemove: siblings in any order                   *)

\* The hook's next state; it is over when nothing is to be verified.
Hook(t, todo, open, bad) ==
  task' = [task EXCEPT ![t] = [@ EXCEPT !.todo = todo, !.open = open,
                                        !.bad = IF todo \cup open = {} THEN {} ELSE bad]]

\* Bug: the destination is not looked at.
BugVerify(t, i) ==
  LET h == task[t] IN
  /\ i \in h.todo
  /\ \/ /\ src[i] = "none"
        /\ Hook(t, h.todo \ {i}, h.open, h.bad \cup {i})
        /\ UNCHANGED src
     \/ /\ src[i] # "none" /\ dst[i] # "dir"
        /\ src' = Without(src, i)
        /\ Hook(t, h.todo \ {i}, h.open, h.bad)
     \/ /\ src[i] = "dir" /\ dst[i] = "dir"
        /\ Hook(t, (h.todo \ {i}) \cup {j \in Children(i) : src[j] # "none"}, h.open \cup {i}, h.bad)
        /\ UNCHANGED src
  /\ UNCHANGED <<kind, dst, before, group, faults, manual, restarts>>

\* An object of the same name must exist.  A source whose destination is a file is
\* removed, a directory is looked into.
Verify(t, i) ==
  LET h == task[t] IN
  /\ i \in h.todo
  /\ \/ /\ "none" \in {src[i], dst[i]} \/ (src[i] = "new" /\ dst[i] = "dir")
        /\ Hook(t, h.todo \ {i}, h.open, h.bad \cup {i})
        /\ UNCHANGED src
     \/ /\ src[i] # "none" /\ File(dst, i)
        /\ src' = Without(src, i)
        /\ Hook(t, h.todo \ {i}, h.open, h.bad)
     \/ /\ src[i] = "dir" /\ dst[i] = "dir"
        /\ Hook(t, (h.todo \ {i}) \cup {j \in Children(i) : src[j] # "none"}, h.open \cup {i}, h.bad)
        /\ UNCHANGED src
  /\ UNCHANGED <<kind, dst, before, group, faults, manual, restarts>>

\* A source cannot be removed.
VerifyFails(t, i) ==
  LET h == task[t] IN
  /\ i \in h.todo /\ src[i] # "none" /\ File(dst, i) /\ Fault
  /\ Hook(t, h.todo \ {i}, h.open, h.bad \cup {i})
  /\ UNCHANGED <<kind, src, dst, before, group, manual, restarts>>

\* After its children, unless one of them failed.
RemoveDir(t, i) ==
  LET h == task[t] IN
  /\ i \in h.open /\ Children(i) \cap (h.todo \cup h.open) = {}
  /\ IF Children(i) \cap h.bad # {}
     THEN Hook(t, h.todo, h.open \ {i}, h.bad \cup {i}) /\ UNCHANGED src
     ELSE Hook(t, h.todo, h.open \ {i}, h.bad) /\ src' = Without(src, i)
  /\ UNCHANGED <<kind, dst, before, group, faults, manual, restarts>>

-----------------------------------------------------------------------------
Step(t) ==
  \/ ListDir(t) \/ DirDone(t) \/ CopyBegins(t) \/ CopyFile(t) \/ Fails(t)
  \/ OnSucceeded(t) \/ OnFailed(t) \/ RequestEnds(t)
  \/ \E i \in Items :
       \/ AddChild(t, i)
       \/ RequestDir(t, i) \/ RequestBegins(t, i) \/ RequestFile(t, i) \/ RequestFails(t, i)
       \/ Verify(t, i) \/ VerifyFails(t, i) \/ RemoveDir(t, i)

Next ==
  \/ \E i \in Roots : Start(i) \/ StartRequest(i)
  \/ \E t \in 1 .. Len(task) : Step(t) \/ Cancelled(t) \/ ManualRetry(t)
  \/ Restart

Spec == Init /\ [][Next]_vars

-----------------------------------------------------------------------------
(* Safety                                                                  *)

Tasks == 1 .. Len(task)

\* verifyAndRemove asks for a file of that name, whatever is in it.  It takes for the copy a
\* file that was there before, in the item's place or above it, whether or not it was
\* overwritten, and what a copy has written so far, or left behind when it broke off; the
\* source is removed all the same.
Mistaken(i) == dst[i] = "part" \/ \E j \in Up[i] : File(before, j)

\* But for these a move never loses a file: it is removed from the source when its copy is
\* at the destination, whichever tasks of its group, or of groups it shares the directory
\* with, failed for good, were retried, also after they left a part of the file, or were
\* cut short by a restart.
NothingLost ==
  \A i \in Items \ Dirs : Mistaken(i) \/ "new" \in {src[i], dst[i]}

\* A group counts the tasks that are not over: it completes after the last of them,
\* also when tasks add tasks, are retried by hand while others run, or are loaded again
\* after a restart.
PendingExact ==
  \A g \in Groups :
    group[g].pending = Cardinality({t \in Tasks : task[t].group = g /\ task[t].st \in Unfinished})

\* When every task and request of a move has succeeded in the end, no file is left at the source:
\* the hook came after the last copy, and no source was dropped from the group's list.
\* A restart loses the hooks that run; a source may refuse to be removed.
MovedAway ==
  /\ kind = "move" /\ restarts = 0
  /\ \A t \in Tasks : task[t].st = "ok" /\ task[t].todo \cup task[t].open = {}
  /\ \A i \in Roots : Started(i)
  => \A i \in Items \ Dirs : src[i] = "none" \/ faults > 0

-----------------------------------------------------------------------------
(* Liveness                                                                *)

(* The workers of the task manager run, and storages answer.                 *)
FairSpec == Spec /\ WF_vars(\E t \in Tasks : Step(t))

\* Every group completes: no child, retry or failure leaves a count behind.
GroupsComplete == \A g \in Groups : group[g].pending > 0 ~> group[g].pending = 0
=============================================================================
