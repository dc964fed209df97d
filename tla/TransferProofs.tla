--------------------------- MODULE TransferProofs ---------------------------
(***************************************************************************)
(* Theorems about the transfers of Transfer, for any tree of items and any *)
(* number of tasks, retries, failures and restarts.                        *)
(***************************************************************************)
EXTENDS Transfer, FiniteSetTheorems, SequenceTheorems, TLAPS

\* The storages: files and directories of the source are what they were or gone, with all
\* below them; files of the destination are copies or were there before, and what is
\* above anything is a directory.
SrcInv ==
  \A i \in Items :
    /\ src[i] = "new" => i \notin Dirs
    /\ src[i] = "dir" => i \in Dirs
    /\ src[i] = "none" => \A j \in Under(i) : src[j] = "none"
DstInv ==
  \A i \in Items :
    /\ dst[i] \in {"part", "new"} => i \notin Dirs
    /\ dst[i] = "old" => before[i] = "old"
    /\ dst[i] # "none" => \A j \in Up[i] \ {i} : dst[j] = "dir"

\* A hook looks into directories: each child is still to be verified, was found wanting,
\* or is gone.
HookInv(h) ==
  /\ h.open \subseteq Dirs
  /\ \A i \in h.open : \A c \in Children(i) : c \in h.todo \cup h.open \cup h.bad \/ src[c] = "none"

\* What a task is at.
TaskInv(h) ==
  /\ h.st = "adding" => h.item \in Dirs
  /\ h.st = "succeeded" => h.item \notin Dirs
  /\ h.st \in {"adding", "request"} => h.left \subseteq Under(h.item)
  /\ h.st = "request" => h.group = Into(h.item)
  /\ h.st = "request" /\ h.left = {} /\ h.bad = {} => h.any
  /\ h.st \in Unfinished => h.todo = {} /\ h.open = {}

\* The groups of a move: a task's item is below a source its group has to remove, and as
\* long as no task of the group has succeeded, the task that brought that source is still
\* in it, or failed.
PayInv ==
  kind = "move" =>
    /\ \A t \in Tasks : task[t].st \in Unfinished \ {"request"} =>
         \E p \in Up[task[t].item] : p \in group[task[t].group].pay
    /\ \A g \in Groups, p \in Items : p \in group[g].pay =>
         /\ Into(p) = g
         /\ group[g].ok \/ \E t \in Tasks : task[t].item = p /\
              ((task[t].st \in Unfinished /\ task[t].group = g) \/ task[t].st = "failed")

\* A task that will copy the item, or has failed to.
Scope(t, i) ==
  LET h == task[t] IN
  \/ h.st \in {"queued", "failing", "failed"} /\ h.item \in Up[i]
  \/ h.st \in {"adding", "request"} /\ h.left \cap Up[i] # {}
  \/ h.st = "request" /\ h.bad # {} /\ h.item \in Up[i]

\* The source p will be verified, or is being verified: by a hook, by the hook that the group will
\* run, by that of a request.
Awaited(p) ==
  \/ \E t \in Tasks : p \in task[t].todo
  \/ \E g \in Groups : p \in group[g].pay /\ group[g].pending > 0
  \/ \E t \in Tasks : task[t].st = "request" /\ task[t].item = p

\* Where the destination has a file, and a source from there up awaits its hook.
Coming(i) == \E k \in Up[i] : File(dst, k) /\ \E p \in Up[k] : Awaited(p)

\* No file of a move is forgotten, as long as nothing fails and the server runs.
MoveInv ==
  kind = "move" /\ restarts = 0 /\ faults = 0 =>
    \A i \in Items \ Dirs : src[i] # "none" /\ (\E t \in Tasks : task[t].item \in Up[i]) =>
      (\E t \in Tasks : Scope(t, i)) \/ Coming(i)

\* The inductive invariant.
IInv ==
  /\ TypeOK /\ PendingExact
  /\ SrcInv /\ DstInv /\ NothingLost
  /\ \A t \in Tasks : HookInv(task[t]) /\ TaskInv(task[t])
  /\ PayInv /\ MoveInv

-----------------------------------------------------------------------------
(* Facts                                                                   *)

LEMMA TreeFacts ==
  ASSUME NEW i \in Items
  PROVE  /\ Up[i] \subseteq Items /\ i \in Up[i] /\ Into(i) \in Groups
         /\ \A j \in Up[i] : Up[j] \subseteq Up[i]
         /\ \A j \in Up[i] \ {i} : j \in Dirs /\ i \notin Up[j] /\ \E c \in Up[i] : c \in Children(j)
         /\ i \notin Dirs => \A j \in Items : i \in Up[j] => j = i
         /\ i \in Roots => Up[i] = {i} /\ Into(i) = Top
<1>1. /\ Up[i] \subseteq Items /\ i \in Up[i]
      /\ \A j \in Up[i] \ {i} : Up[j] \subseteq Up[i] \ {i} /\ Up[i] \cap Children(j) # {}
      /\ Up[i] \ {i} \subseteq Dirs
  BY TransferAssumption
<1>2. Into(i) \in Groups  BY DEF Groups
<1>3. \A j \in Items : i \in Up[j] /\ i \notin Dirs => j = i
  BY TransferAssumption
<1>4. i \in Roots => Up[i] = {i} /\ Into(i) = Top  BY DEF Roots, Into
<1> QED  BY <1>1, <1>2, <1>3, <1>4

LEMMA SetOne ==
  ASSUME NEW s \in Seq(Task), NEW t \in 1 .. Len(s), NEW r \in Task, NEW s2, s2 = [s EXCEPT ![t] = r]
  PROVE  /\ s2 \in Seq(Task) /\ Len(s2) = Len(s) /\ s2[t] = r
         /\ \A u \in 1 .. Len(s) : u # t => s2[u] = s[u]
BY ExceptSeq

LEMMA AddOne ==
  ASSUME NEW s \in Seq(Task), NEW r \in Task, NEW s2, s2 = Append(s, r)
  PROVE  /\ s2 \in Seq(Task) /\ Len(s) \in Nat /\ Len(s2) = Len(s) + 1 /\ s2[Len(s) + 1] = r
         /\ \A u \in 1 .. Len(s) : s2[u] = s[u]
BY AppendProperties

\* The tasks of a group that are not over
Counts(r, g) == r.group = g /\ r.st \in Unfinished
Live(s, g) == {t \in 1 .. Len(s) : Counts(s[t], g)}

LEMMA LiveFinite ==
  ASSUME NEW s \in Seq(Task), NEW g
  PROVE  IsFiniteSet(Live(s, g)) /\ Cardinality(Live(s, g)) \in Nat
<1>1. IsFiniteSet(1 .. Len(s))  BY FS_Interval
<1>2. IsFiniteSet(Live(s, g))  BY <1>1, FS_Subset DEF Live
<1> QED  BY <1>2, FS_CardinalityType

\* A task is over, or begins anew.
LEMMA LiveGone ==
  ASSUME NEW s \in Seq(Task), NEW t \in 1 .. Len(s), NEW r \in Task, NEW s2, s2 = [s EXCEPT ![t] = r],
         s[t].st \in Unfinished, r.st \notin Unfinished
  PROVE  Cardinality(Live(s, s[t].group)) = Cardinality(Live(s2, s[t].group)) + 1
<1>1. /\ s2 \in Seq(Task) /\ Len(s2) = Len(s) /\ s2[t] = r
      /\ \A u \in 1 .. Len(s) : u # t => s2[u] = s[u]
  BY SetOne
<1>2. Live(s, s[t].group) = Live(s2, s[t].group) \cup {t} /\ t \notin Live(s2, s[t].group)
  BY <1>1 DEF Live, Counts
<1> QED  BY <1>1, <1>2, LiveFinite, FS_AddElement

LEMMA LiveBack ==
  ASSUME NEW s \in Seq(Task), NEW t \in 1 .. Len(s), NEW r \in Task, NEW s2, s2 = [s EXCEPT ![t] = r],
         s[t].st \notin Unfinished, r.st \in Unfinished
  PROVE  Cardinality(Live(s2, r.group)) = Cardinality(Live(s, r.group)) + 1
<1>1. /\ s2 \in Seq(Task) /\ Len(s2) = Len(s) /\ s2[t] = r
      /\ \A u \in 1 .. Len(s) : u # t => s2[u] = s[u]
  BY SetOne
<1>2. Live(s2, r.group) = Live(s, r.group) \cup {t} /\ t \notin Live(s, r.group)
  BY <1>1 DEF Live, Counts
<1> QED  BY <1>1, <1>2, LiveFinite, FS_AddElement

LEMMA LiveAdd ==
  ASSUME NEW s \in Seq(Task), NEW r \in Task, r.st \in Unfinished, NEW g
  PROVE  /\ r.group = g => Cardinality(Live(Append(s, r), g)) = Cardinality(Live(s, g)) + 1
         /\ r.group # g => Cardinality(Live(Append(s, r), g)) = Cardinality(Live(s, g))
<1>0. PICK s2 : s2 = Append(s, r)  OBVIOUS
<1>1. /\ s2 \in Seq(Task) /\ Len(s) \in Nat /\ Len(s2) = Len(s) + 1 /\ s2[Len(s) + 1] = r
      /\ \A u \in 1 .. Len(s) : s2[u] = s[u]
  BY <1>0, AddOne
<1>2. CASE r.group = g
  <2>1. Live(s2, g) = Live(s, g) \cup {Len(s) + 1} /\ Len(s) + 1 \notin Live(s, g)
    BY <1>1, <1>2 DEF Live, Counts
  <2>2. Cardinality(Live(s2, g)) = Cardinality(Live(s, g)) + 1
    BY <2>1, LiveFinite, FS_AddElement
  <2> QED  BY <1>0, <1>2, <2>2
<1>3. CASE r.group # g
  <2>1. Live(s2, g) = Live(s, g)  BY <1>1, <1>3 DEF Live, Counts
  <2> QED  BY <1>0, <1>3, <2>1
<1> QED  BY <1>0, <1>2, <1>3

LEMMA PendingIsLive ==
  /\ PendingExact <=> \A g \in Groups : group[g].pending = Cardinality(Live(task, g))
  /\ PendingExact' <=> \A g \in Groups : group'[g].pending = Cardinality(Live(task', g))
BY DEF PendingExact, Live, Counts, Tasks

-----------------------------------------------------------------------------
(* The storages                                                            *)

StorageInv == SrcInv /\ DstInv /\ NothingLost

LEMMA StorageSame ==
  ASSUME StorageInv, UNCHANGED <<src, dst, before>>
  PROVE  StorageInv'
BY DEF StorageInv, SrcInv, DstInv, NothingLost, Mistaken, File

\* A file is copied, or begun: no other file of the destination is touched.
LEMMA PutStep ==
  ASSUME StorageInv, NEW i \in Items, src[i] = "new", CanPut(i), UNCHANGED <<src, before>>,
         NEW what \in {"part", "new"}, PutAs(i, what),
         dst \in [Items -> {"none", "dir", "old", "part", "new"}]
  PROVE  /\ StorageInv' /\ dst' \in [Items -> {"none", "dir", "old", "part", "new"}]
         /\ dst'[i] = what /\ \A k \in Items : File(dst, k) => File(dst', k)
<1>1. i \notin Dirs  BY DEF StorageInv, SrcInv
<1>2. \A j \in Items : j \in Under(i) => j = i  BY <1>1, TreeFacts DEF Under
<1>3. dst' = [j \in Items |-> IF j = i THEN what ELSE IF j \in Up[i] THEN "dir" ELSE dst[j]]
  BY <1>2 DEF PutAs
<1>4. \A k \in Items : File(dst, k) => File(dst', k)
  BY <1>3 DEF CanPut, File
<1>5. SrcInv'  BY DEF StorageInv, SrcInv
<1>6. DstInv'
  <2> SUFFICES ASSUME NEW j \in Items
               PROVE  /\ dst'[j] \in {"part", "new"} => j \notin Dirs
                      /\ dst'[j] = "old" => before[j] = "old"
                      /\ dst'[j] # "none" => \A k \in Up[j] \ {j} : dst'[k] = "dir"
    BY DEF DstInv
  <2>1. dst'[j] \in {"part", "new"} => j \notin Dirs  BY <1>1, <1>3 DEF StorageInv, DstInv
  <2>2. dst'[j] = "old" => before[j] = "old"  BY <1>3 DEF StorageInv, DstInv
  <2>3. ASSUME dst'[j] # "none", NEW k \in Up[j] \ {j}  PROVE dst'[k] = "dir"
    <3>1. k \in Items /\ k \in Dirs /\ k # i  BY <1>1, <2>3, TreeFacts
    <3>2. CASE j \in Up[i]  BY <1>3, <2>3, <3>1, <3>2, TreeFacts
    <3>3. CASE j \notin Up[i]
      <4>1. dst[j] # "none"  BY <1>3, <2>3, <3>3, TreeFacts
      <4>2. dst[k] = "dir"  BY <2>3, <4>1 DEF StorageInv, DstInv
      <4> QED  BY <1>3, <3>1, <4>2
    <3> QED  BY <3>2, <3>3
  <2> QED  BY <2>1, <2>2, <2>3
<1>7. NothingLost'
  <2> SUFFICES ASSUME NEW j \in Items \ Dirs, ~Mistaken(j)'
               PROVE  "new" \in {src'[j], dst'[j]}
    BY DEF NothingLost
  <2>1. CASE j = i  BY <2>1 DEF StorageInv, SrcInv
  <2>2. CASE j # i
    <3>1. dst'[j] = dst[j]  BY <1>3, <2>2, TreeFacts
    <3>2. ~Mistaken(j)  BY <3>1 DEF Mistaken, File
    <3> QED  BY <3>1, <3>2 DEF StorageInv, NothingLost
  <2> QED  BY <2>1, <2>2
<1>8. dst' \in [Items -> {"none", "dir", "old", "part", "new"}]  BY <1>3
<1>9. dst'[i] = what  BY <1>3
<1> QED  BY <1>4, <1>5, <1>6, <1>7, <1>8, <1>9 DEF StorageInv

\* A copy breaks off: its source is there.
LEMMA BreakStep ==
  ASSUME StorageInv, NEW i \in Items, src[i] = "new", PutBreaks(i), UNCHANGED <<src, before>>,
         dst \in [Items -> {"none", "dir", "old", "part", "new"}]
  PROVE  StorageInv' /\ dst' \in [Items -> {"none", "dir", "old", "part", "new"}]
<1>1. CASE dst' = dst  BY <1>1, StorageSame
<1>2. CASE dst[i] = "part" /\ dst' = [dst EXCEPT ![i] = "none"]
  <2>1. i \notin Dirs  BY DEF StorageInv, SrcInv
  <2>2. \A j \in Items : dst'[j] = IF j = i THEN "none" ELSE dst[j]  BY <1>2
  <2>3. SrcInv'  BY DEF StorageInv, SrcInv
  <2>4. DstInv'  BY <2>1, <2>2, TreeFacts DEF StorageInv, DstInv
  <2>5. NothingLost'
    <3> SUFFICES ASSUME NEW j \in Items \ Dirs, ~Mistaken(j)'
                 PROVE  "new" \in {src'[j], dst'[j]}
      BY DEF NothingLost
    <3>1. CASE j = i  BY <3>1
    <3>2. CASE j # i
      <4>1. dst'[j] = dst[j]  BY <2>2, <3>2
      <4>2. ~Mistaken(j)  BY <4>1 DEF Mistaken, File
      <4> QED  BY <4>1, <4>2 DEF StorageInv, NothingLost
    <3> QED  BY <3>1, <3>2
  <2> QED  BY <1>2, <2>3, <2>4, <2>5 DEF StorageInv
<1> QED  BY <1>1, <1>2 DEF PutBreaks

\* A source is removed of which every file has arrived.
LEMMA RemoveStep ==
  ASSUME StorageInv, NEW i \in Items, src' = Without(src, i), UNCHANGED <<dst, before>>,
         src \in [Items -> {"none", "dir", "new"}],
         \A j \in Items \ Dirs : i \in Up[j] => Mistaken(j) \/ src[j] = "none" \/ dst[j] = "new"
  PROVE  /\ StorageInv' /\ src' \in [Items -> {"none", "dir", "new"}]
         /\ \A j \in Items : src'[j] = IF i \in Up[j] THEN "none" ELSE src[j]
<1>1. \A j \in Items : src'[j] = IF i \in Up[j] THEN "none" ELSE src[j]
  BY DEF Without, Under
<1>2. src' \in [Items -> {"none", "dir", "new"}]
  BY DEF Without
<1>3. SrcInv'
  <2> SUFFICES ASSUME NEW j \in Items
               PROVE  /\ src'[j] = "new" => j \notin Dirs
                      /\ src'[j] = "dir" => j \in Dirs
                      /\ src'[j] = "none" => \A k \in Under(j) : src'[k] = "none"
    BY DEF SrcInv
  <2>1. ASSUME src'[j] = "none", NEW k \in Under(j)  PROVE src'[k] = "none"
    <3>1. k \in Items /\ j \in Up[k]  BY DEF Under
    <3>2. CASE i \in Up[j]  BY <1>1, <3>1, <3>2, TreeFacts
    <3>3. CASE i \notin Up[j]  BY <1>1, <2>1, <3>1, <3>3 DEF StorageInv, SrcInv
    <3> QED  BY <3>2, <3>3
  <2> QED  BY <1>1, <2>1 DEF StorageInv, SrcInv
<1>4. DstInv'  BY DEF StorageInv, DstInv
<1>5. NothingLost'
  <2> SUFFICES ASSUME NEW j \in Items \ Dirs, ~Mistaken(j)'
               PROVE  "new" \in {src'[j], dst'[j]}
    BY DEF NothingLost
  <2>1. ~Mistaken(j)  BY DEF Mistaken, File
  <2> QED  BY <1>1, <2>1 DEF StorageInv, NothingLost
<1> QED  BY <1>1, <1>2, <1>3, <1>4, <1>5 DEF StorageInv

-----------------------------------------------------------------------------
(* What steps have in common                                               *)

TaskRest == /\ kind \in Kinds
            /\ src \in [Items -> {"none", "dir", "new"}]
            /\ dst \in [Items -> {"none", "dir", "old", "part", "new"}]
            /\ before \in [Items -> {"none", "dir", "old"}]
            /\ faults \in 0 .. MaxFaults /\ manual \in 0 .. MaxManual /\ restarts \in 0 .. MaxRestarts
Group == [pending : Nat, ok : BOOLEAN, pay : SUBSET Items]
GroupType == group \in [Groups -> Group]

LEMMA TypeParts ==
  /\ TypeOK <=> TaskRest /\ GroupType /\ task \in Seq(Task)
  /\ TypeOK' <=> TaskRest' /\ GroupType' /\ (task \in Seq(Task))'
BY DEF TypeOK, TaskRest, GroupType, Group

\* What comes to an item still comes when nothing is forgotten.
LEMMA FileStays ==
  ASSUME NEW i \in Items, \A k \in Items : File(dst, k) => File(dst', k),
         \A p \in Items : Awaited(p) => Awaited(p)', Coming(i)
  PROVE  Coming(i)'
BY TreeFacts DEF Coming

\* A step of a task that is not over: its group sees nothing of it.
Worked(t, r) ==
  /\ r \in Task /\ task' = [task EXCEPT ![t] = r]
  /\ UNCHANGED <<kind, src, before, group, manual, restarts>>
  /\ faults' \in 0 .. MaxFaults /\ (faults' = 0 => faults = 0)
  /\ task[t].st \in Unfinished /\ r.st \in Unfinished
  /\ r.item = task[t].item /\ r.group = task[t].group
  /\ r.todo = task[t].todo /\ r.open = task[t].open
  /\ r.st = "request" <=> task[t].st = "request"
  /\ TaskInv(r)
  /\ \/ UNCHANGED dst
     \/ \E i \in Items, what \in {"part", "new"} : PutAs(i, what) /\ src[i] = "new" /\ CanPut(i)
     \/ faults' # 0 /\ \E i \in Items : src[i] = "new" /\ PutBreaks(i)
  /\ \A i \in Items \ Dirs :
       kind = "move" /\ faults' = 0 /\ src[i] # "none" /\ Scope(t, i) =>
         Scope(t, i)' \/ (File(dst', i) /\ \E p \in Up[i] : Awaited(p))

LEMMA WorkStep ==
  ASSUME IInv, NEW t \in Tasks, NEW r, Worked(t, r)
  PROVE  IInv'
<1> USE DEF Worked
<1>1. /\ TaskRest /\ GroupType /\ task \in Seq(Task) /\ StorageInv
      /\ \A u \in Tasks : HookInv(task[u]) /\ TaskInv(task[u])
      /\ t \in 1 .. Len(task)
  BY TypeParts DEF IInv, StorageInv, Tasks
<1>2. /\ task' \in Seq(Task) /\ Len(task') = Len(task) /\ task'[t] = r
      /\ \A u \in 1 .. Len(task) : u # t => task'[u] = task[u]
  BY <1>1, SetOne
<1>3. Tasks' = Tasks  BY <1>2 DEF Tasks
<1>4. StorageInv' /\ TaskRest' /\ (faults' = 0 => \A k \in Items : File(dst, k) => File(dst', k))
  <2>1. CASE UNCHANGED dst
    <3>1. StorageInv'  BY <1>1, <2>1, StorageSame
    <3> QED  BY <1>1, <2>1, <3>1 DEF TaskRest, File
  <2>2. ASSUME NEW i \in Items, NEW what \in {"part", "new"}, PutAs(i, what), src[i] = "new", CanPut(i)
        PROVE  StorageInv' /\ TaskRest' /\ \A k \in Items : File(dst, k) => File(dst', k)
    <3>1. dst \in [Items -> {"none", "dir", "old", "part", "new"}]  BY <1>1 DEF TaskRest
    <3>2. /\ StorageInv' /\ dst' \in [Items -> {"none", "dir", "old", "part", "new"}]
          /\ \A k \in Items : File(dst, k) => File(dst', k)
      BY <1>1, <2>2, <3>1, PutStep
    <3> QED  BY <1>1, <3>2 DEF TaskRest
  <2>3. ASSUME faults' # 0, NEW i \in Items, src[i] = "new", PutBreaks(i)
        PROVE  StorageInv' /\ TaskRest'
    <3>1. dst \in [Items -> {"none", "dir", "old", "part", "new"}]  BY <1>1 DEF TaskRest
    <3>2. StorageInv' /\ dst' \in [Items -> {"none", "dir", "old", "part", "new"}]
      BY <1>1, <2>3, <3>1, BreakStep
    <3> QED  BY <1>1, <3>2 DEF TaskRest
  <2> QED  BY <2>1, <2>2, <2>3
<1>5. TypeOK'  BY <1>1, <1>2, <1>4, TypeParts DEF GroupType
<1>6. PendingExact'
  <2>1. ASSUME NEW g \in Groups  PROVE Live(task', g) = Live(task, g)
    <3>1. Counts(task[t], g) <=> Counts(r, g)  BY DEF Counts
    <3> QED  BY <1>1, <1>2, <3>1 DEF Live
  <2> QED  BY <2>1, PendingIsLive DEF IInv
<1>7. \A u \in Tasks' : HookInv(task[u])' /\ TaskInv(task[u])'
  <2>1. HookInv(r)  BY <1>1 DEF HookInv, TaskInv
  <2>2. \A u \in Tasks : HookInv(task'[u]) /\ TaskInv(task'[u])
    BY <1>1, <1>2, <2>1 DEF Tasks
  <2>3. \A u \in Tasks : HookInv(task[u])' /\ TaskInv(task[u])'
    BY <2>2 DEF HookInv, TaskInv
  <2> QED  BY <1>3, <2>3
<1>8. PayInv'
  <2> SUFFICES ASSUME kind = "move"  PROVE PayInv'
    BY DEF PayInv
  <2>1. ASSUME NEW u \in Tasks, task'[u].st \in Unfinished \ {"request"}
        PROVE  \E p \in Up[task'[u].item] : p \in group[task'[u].group].pay
    <3>1. /\ task[u].st \in Unfinished \ {"request"}
          /\ task'[u].item = task[u].item /\ task'[u].group = task[u].group
      BY <1>2, <2>1 DEF Tasks
    <3> QED  BY <3>1 DEF IInv, PayInv
  <2>2. ASSUME NEW g \in Groups, NEW p \in Items, p \in group[g].pay, ~group[g].ok
        PROVE  \E u \in Tasks : task'[u].item = p /\
                 ((task'[u].st \in Unfinished /\ task'[u].group = g) \/ task'[u].st = "failed")
    <3>1. PICK u \in Tasks : task[u].item = p /\
            ((task[u].st \in Unfinished /\ task[u].group = g) \/ task[u].st = "failed")
      BY <2>2 DEF IInv, PayInv
    <3>2. "failed" \notin Unfinished  BY DEF Unfinished
    <3> QED  BY <1>2, <3>1, <3>2 DEF Tasks
  <2>3. \A g \in Groups, p \in Items : p \in group[g].pay => Into(p) = g  BY DEF IInv, PayInv
  <2> QED  BY <1>3, <2>1, <2>2, <2>3 DEF PayInv
<1>9. MoveInv'
  <2> SUFFICES ASSUME kind = "move", restarts = 0, faults' = 0, NEW i \in Items \ Dirs,
                      src[i] # "none", NEW u \in Tasks, task'[u].item \in Up[i]
               PROVE  (\E v \in Tasks : Scope(v, i)') \/ Coming(i)'
    BY <1>3 DEF MoveInv
  <2>1. \A v \in Tasks : task'[v].item = task[v].item /\ task'[v].todo = task[v].todo
                         /\ (task'[v].st = "request" <=> task[v].st = "request")
    BY <1>2 DEF Tasks
  <2>2. \A p \in Items : Awaited(p) => Awaited(p)'
    BY <1>3, <2>1 DEF Awaited
  <2>3. (\E v \in Tasks : Scope(v, i)) \/ Coming(i)
    BY <2>1 DEF IInv, MoveInv
  <2>4. CASE Coming(i)  BY <1>4, <2>2, <2>4, FileStays
  <2>5. ASSUME NEW v \in Tasks, v # t, Scope(v, i)  PROVE Scope(v, i)'
    BY <1>2, <2>5 DEF Scope, Tasks
  <2>6. CASE Scope(t, i)
    <3>1. CASE Scope(t, i)'  BY <3>1
    <3>2. ASSUME File(dst', i), NEW p \in Up[i], Awaited(p)  PROVE Coming(i)'
      <4>1. p \in Items /\ i \in Up[i]  BY TreeFacts
      <4>2. Awaited(p)'  BY <2>2, <3>2, <4>1
      <4>3. File(dst, i)'  BY <3>2 DEF File
      <4> QED  BY <3>2, <4>1, <4>2, <4>3 DEF Coming
    <3> QED  BY <2>6, <3>1, <3>2
  <2> QED  BY <2>3, <2>4, <2>5, <2>6
<1> QED  BY <1>4, <1>5, <1>6, <1>7, <1>8, <1>9 DEF IInv, StorageInv

\* A step of the hook that a task runs.
Hooked(t, r) ==
  /\ r \in Task /\ task' = [task EXCEPT ![t] = r]
  /\ UNCHANGED <<kind, dst, before, group, manual, restarts>>
  /\ faults' \in 0 .. MaxFaults /\ (faults' = 0 => faults = 0)
  /\ task[t].st \notin Unfinished /\ r.st = task[t].st
  /\ r.item = task[t].item /\ r.group = task[t].group /\ r.left = task[t].left
  /\ \/ UNCHANGED src
     \/ \E i \in Items :
          /\ src' = Without(src, i)
          /\ \A j \in Items \ Dirs : i \in Up[j] => Mistaken(j) \/ src[j] = "none" \/ dst[j] = "new"
  /\ \A i \in Items \ Dirs, k \in Items, p \in Items :
       /\ k \in Up[i] /\ p \in Up[k] /\ File(dst, k) /\ p \in task[t].todo
       /\ src'[i] # "none" /\ faults' = 0
       => \E q \in Up[k] : q \in r.todo

LEMMA HookStep ==
  ASSUME IInv, NEW t \in Tasks, NEW r, Hooked(t, r), HookInv(r)'
  PROVE  IInv'
<1> USE DEF Hooked
<1>1. /\ TaskRest /\ GroupType /\ task \in Seq(Task) /\ StorageInv
      /\ \A u \in Tasks : HookInv(task[u]) /\ TaskInv(task[u])
      /\ t \in 1 .. Len(task)
  BY TypeParts DEF IInv, StorageInv, Tasks
<1>2. /\ task' \in Seq(Task) /\ Len(task') = Len(task) /\ task'[t] = r
      /\ \A u \in 1 .. Len(task) : u # t => task'[u] = task[u]
  BY <1>1, SetOne
<1>3. Tasks' = Tasks  BY <1>2 DEF Tasks
<1>4. StorageInv' /\ TaskRest' /\ \A i \in Items : src'[i] = src[i] \/ src'[i] = "none"
  <2>1. CASE UNCHANGED src
    <3>1. StorageInv'  BY <1>1, <2>1, StorageSame
    <3> QED  BY <1>1, <2>1, <3>1 DEF TaskRest
  <2>2. ASSUME NEW i \in Items, src' = Without(src, i),
               \A j \in Items \ Dirs : i \in Up[j] => Mistaken(j) \/ src[j] = "none" \/ dst[j] = "new"
        PROVE  StorageInv' /\ TaskRest' /\ \A j \in Items : src'[j] = src[j] \/ src'[j] = "none"
    <3>1. src \in [Items -> {"none", "dir", "new"}]  BY <1>1 DEF TaskRest
    <3>2. /\ StorageInv' /\ src' \in [Items -> {"none", "dir", "new"}]
          /\ \A j \in Items : src'[j] = IF i \in Up[j] THEN "none" ELSE src[j]
      BY <1>1, <2>2, <3>1, RemoveStep
    <3> QED  BY <1>1, <3>2 DEF TaskRest
  <2> QED  BY <2>1, <2>2
<1>5. TypeOK'  BY <1>1, <1>2, <1>4, TypeParts DEF GroupType
<1>6. PendingExact'
  <2>1. ASSUME NEW g \in Groups  PROVE Live(task', g) = Live(task, g)
    <3>1. ~Counts(task[t], g) /\ ~Counts(r, g)  BY DEF Counts
    <3> QED  BY <1>1, <1>2, <3>1 DEF Live
  <2> QED  BY <2>1, PendingIsLive DEF IInv
<1>7. \A u \in Tasks' : HookInv(task[u])' /\ TaskInv(task[u])'
  <2>1. TaskInv(r)  BY DEF TaskInv, Unfinished
  <2>2. \A u \in Tasks : TaskInv(task'[u])
    BY <1>1, <1>2, <2>1 DEF Tasks
  <2>3. \A u \in Tasks : TaskInv(task[u])'
    BY <2>2 DEF TaskInv
  <2>4. ASSUME NEW u \in Tasks  PROVE HookInv(task[u])'
    <3>1. CASE u = t  BY <1>2, <3>1 DEF HookInv
    <3>2. CASE u # t
      <4>1. task'[u] = task[u] /\ HookInv(task[u])  BY <1>1, <1>2, <3>2 DEF Tasks
      <4> QED  BY <1>4, <4>1 DEF HookInv, Children
    <3> QED  BY <3>1, <3>2
  <2> QED  BY <1>3, <2>3, <2>4
<1>8. \A v \in Tasks : /\ task'[v].item = task[v].item /\ task'[v].group = task[v].group
                      /\ task'[v].st = task[v].st /\ task'[v].left = task[v].left
  BY <1>2 DEF Tasks
<1>9. PayInv'
  BY <1>3, <1>8 DEF IInv, PayInv
<1>10. MoveInv'
  <2> SUFFICES ASSUME kind = "move", restarts = 0, faults' = 0, NEW i \in Items \ Dirs,
                      src'[i] # "none", NEW u \in Tasks, task'[u].item \in Up[i]
               PROVE  (\E v \in Tasks : Scope(v, i)') \/ Coming(i)'
    BY <1>3 DEF MoveInv
  <2>1. (\E v \in Tasks : Scope(v, i)) \/ Coming(i)
    BY <1>4, <1>8 DEF IInv, MoveInv
  <2>2. ASSUME NEW v \in Tasks, Scope(v, i)  PROVE Scope(v, i)'
    <3>1. CASE v = t  BY <1>8, <2>2, <3>1 DEF Scope, Unfinished
    <3>2. CASE v # t  BY <1>2, <2>2, <3>2 DEF Scope, Tasks
    <3> QED  BY <3>1, <3>2
  <2>3. ASSUME NEW k \in Up[i], File(dst, k), NEW p \in Up[k], Awaited(p)
        PROVE  Coming(i)'
    <3>1. k \in Items /\ p \in Items  BY <2>3, TreeFacts
    <3>2. File(dst, k)'  BY <2>3 DEF File
    <3>3. CASE \E v \in Tasks \ {t} : p \in task[v].todo
      <4>1. Awaited(p)'  BY <1>2, <1>3, <3>3 DEF Awaited, Tasks
      <4> QED  BY <2>3, <3>2, <4>1 DEF Coming
    <3>4. CASE p \in task[t].todo
      <4>1. PICK q \in Up[k] : q \in r.todo  BY <2>3, <3>1, <3>4
      <4>2. Awaited(q)'  BY <1>2, <1>3, <4>1 DEF Awaited
      <4> QED  BY <2>3, <3>2, <4>1, <4>2 DEF Coming
    <3>5. CASE ~ \E v \in Tasks : p \in task[v].todo
      <4>1. Awaited(p)'  BY <1>3, <1>8, <2>3, <3>5 DEF Awaited
      <4> QED  BY <2>3, <3>2, <4>1 DEF Coming
    <3> QED  BY <3>3, <3>4, <3>5
  <2> QED  BY <2>1, <2>2, <2>3 DEF Coming
<1> QED  BY <1>4, <1>5, <1>6, <1>7, <1>9, <1>10 DEF IInv, StorageInv

LEMMA NewTaskType ==
  ASSUME NEW i \in Items, NEW g \in Groups
  PROVE  /\ NewTask(i, g) \in Task
         /\ NewTask(i, g).item = i /\ NewTask(i, g).group = g /\ NewTask(i, g).st = "queued"
         /\ NewTask(i, g).todo = {} /\ NewTask(i, g).open = {} /\ NewTask(i, g).left = {}
BY TransferAssumption DEF NewTask, Task, States, Unfinished

LEMMA OverType ==
  ASSUME NEW i \in Items, NEW fine \in BOOLEAN, NEW todo \in SUBSET Items
  PROVE  LET r == Over(i, fine, todo) IN
         /\ r \in Task /\ r.item = i /\ r.group = Into(i)
         /\ r.st = IF fine THEN "ok" ELSE "failed"
         /\ r.todo = todo /\ r.open = {} /\ r.left = {}
<1> DEFINE x == IF fine THEN "ok" ELSE "failed"
           n == NewTask(i, Into(i))
<1>1. n \in Task /\ n.item = i /\ n.group = Into(i) /\ n.open = {} /\ n.left = {}
  BY TreeFacts, NewTaskType
<1>2. x \in States  BY DEF States
<1>3. Over(i, fine, todo) = [n EXCEPT !.st = x, !.todo = todo]  BY DEF Over
<1> HIDE DEF n, x
<1>4. [n EXCEPT !.st = x, !.todo = todo] \in Task  BY <1>1, <1>2 DEF Task
<1>5. /\ [n EXCEPT !.st = x, !.todo = todo].st = x /\ [n EXCEPT !.st = x, !.todo = todo].todo = todo
      /\ [n EXCEPT !.st = x, !.todo = todo].item = i /\ [n EXCEPT !.st = x, !.todo = todo].group = Into(i)
      /\ [n EXCEPT !.st = x, !.todo = todo].open = {} /\ [n EXCEPT !.st = x, !.todo = todo].left = {}
  BY <1>1 DEF Task
<1> QED  BY <1>3, <1>4, <1>5 DEF x

\* How a task or a request is over: i, g, s are its item, its group and that group's state, pay
\* what the group has to remove; n is the group's new state, r the task's.
Finished(t, i, g, s, pay, n, r) ==
  /\ task[t].st \in Unfinished /\ i = task[t].item /\ g = task[t].group /\ s = group[g]
  /\ pay = s.pay \cup IF task[t].st = "request" THEN ToRemove(i) ELSE {}
  /\ n \in Group /\ group' = [group EXCEPT ![g] = n]
  /\ r \in Task /\ task' = [task EXCEPT ![t] = r]
  /\ r.item = i /\ r.group = Into(i) /\ r.st \in {"ok", "failed"} /\ r.open = {} /\ r.left = {}
  /\ s.pending = 1 => n.pending = 0 /\ n.pay = {}
  /\ s.pending # 1 => n.pending = s.pending - 1 /\ n.pay = pay /\ r.todo = {}
  /\ s.pending # 1 => n.ok \/ (~s.ok /\ r.st = "failed")
  /\ s.pending = 1 => r.todo = pay \/ (~s.ok /\ r.st = "failed")
  /\ UNCHANGED <<kind, src, dst, before, faults, manual, restarts>>
  /\ \A j \in Items \ Dirs : Scope(t, j) => i \in Up[j] /\ r.st = "failed"

\* A task or a request is over; the last one of its group takes over what the group has to
\* remove.
LEMMA DoneStep ==
  ASSUME IInv, NEW t \in Tasks, NEW i, NEW g, NEW s, NEW pay, NEW n, NEW r,
         Finished(t, i, g, s, pay, n, r)
  PROVE  IInv'
<1> USE DEF Finished
<1>1. /\ TaskRest /\ GroupType /\ task \in Seq(Task) /\ StorageInv
      /\ \A u \in Tasks : HookInv(task[u]) /\ TaskInv(task[u])
      /\ t \in 1 .. Len(task) /\ task[t] \in Task
      /\ \A x \in Groups : group[x].pending = Cardinality(Live(task, x))
  BY TypeParts, PendingIsLive DEF IInv, StorageInv, Tasks
<1>2. /\ i \in Items /\ g \in Groups /\ s.pending \in Nat /\ s.ok \in BOOLEAN /\ s.pay \subseteq Items
      /\ pay \subseteq Items
  <2>1. i \in Items /\ g \in Groups  BY <1>1 DEF Task
  <2>2. s \in Group  BY <1>1, <2>1 DEF GroupType
  <2> QED  BY <2>1, <2>2 DEF Group, ToRemove
<1>20. r \in Task /\ task \in Seq(Task) /\ t \in 1 .. Len(task)  BY <1>1
<1>5. /\ task' \in Seq(Task) /\ Len(task') = Len(task) /\ task'[t] = r
      /\ \A u \in 1 .. Len(task) : u # t => task'[u] = task[u]
  BY <1>20, SetOne
<1>6. Tasks' = Tasks  BY <1>5 DEF Tasks
<1>7. r.st \notin Unfinished /\ r.st # "request"  BY DEF Unfinished
<1>8. s.pending = Cardinality(Live(task', g)) + 1
  <2>2. Cardinality(Live(task, g)) = Cardinality(Live(task', g)) + 1
    BY <1>7, <1>20, LiveGone
  <2> QED  BY <1>1, <1>2, <2>2
<1>9. Cardinality(Live(task', g)) \in Nat  BY <1>5, LiveFinite
<1>10. /\ group'[g] = n
       /\ \A x \in Groups \ {g} : group'[x] = group[x]
  BY <1>1, <1>2 DEF GroupType
<1>11. GroupType'  BY <1>1 DEF GroupType
<1>12. TypeOK'  BY <1>1, <1>5, <1>11, TypeParts DEF TaskRest
<1>13. PendingExact'
  <2>1. group'[g].pending = Cardinality(Live(task', g))
    BY <1>8, <1>9, <1>10
  <2>2. ASSUME NEW x \in Groups, x # g  PROVE group'[x].pending = Cardinality(Live(task', x))
    <3>1. ~Counts(task[t], x) /\ ~Counts(r, x)  BY <1>7, <2>2 DEF Counts
    <3>2. Live(task', x) = Live(task, x)  BY <1>1, <1>5, <3>1 DEF Live
    <3> QED  BY <1>1, <1>10, <2>2, <3>2
  <2> QED  BY <2>1, <2>2, PendingIsLive
<1>14. StorageInv'  BY <1>1, StorageSame
<1>15. \A u \in Tasks' : HookInv(task[u])' /\ TaskInv(task[u])'
  <2>1. HookInv(r) /\ TaskInv(r)  BY <1>7 DEF HookInv, TaskInv, Unfinished
  <2>2. \A u \in Tasks : HookInv(task'[u]) /\ TaskInv(task'[u])
    BY <1>1, <1>5, <2>1 DEF Tasks
  <2>3. \A u \in Tasks : HookInv(task[u])' /\ TaskInv(task[u])'
    <3> TAKE u \in Tasks
    <3>1. HookInv(task'[u]) /\ TaskInv(task'[u])  BY <2>2
    <3>2. HookInv(task[u])'  BY <3>1 DEF HookInv
    <3>3. TaskInv(task[u])'  BY <3>1 DEF TaskInv
    <3> QED  BY <3>2, <3>3
  <2> QED  BY <1>6, <2>3
\* When the group is complete nobody else is in it.
<1>16. s.pending = 1 => \A u \in Tasks : u # t /\ task[u].st \in Unfinished => task[u].group # g
  <2> SUFFICES ASSUME s.pending = 1, NEW u \in Tasks, u # t, task[u].st \in Unfinished, task[u].group = g
               PROVE  FALSE
    OBVIOUS
  <2>1. Live(task', g) = {}
    <3>1. Cardinality(Live(task', g)) = 0  BY <1>8, <1>9
    <3>2. IsFiniteSet(Live(task', g))  BY <1>5, LiveFinite
    <3> QED  BY <3>1, <3>2, FS_EmptySet
  <2>2. u \in Live(task', g)  BY <1>5 DEF Live, Counts, Tasks
  <2> QED  BY <2>1, <2>2
\* A source the group has to remove, while nothing has succeeded: its task has failed.
<1>17. ASSUME kind = "move", NEW p \in Items, p \in pay, ~s.ok, r.st = "failed"
       PROVE  \E u \in Tasks : task'[u].item = p /\
                ((task'[u].st \in Unfinished /\ task'[u].group = g /\ u # t) \/ task'[u].st = "failed")
  <2>2. CASE p \in s.pay
    <3>1. PICK u \in Tasks : task[u].item = p /\
            ((task[u].st \in Unfinished /\ task[u].group = g) \/ task[u].st = "failed")
      BY <1>2, <1>17, <2>2 DEF IInv, PayInv
    <3>2. CASE u = t  BY <1>5, <1>17, <3>1, <3>2
    <3>3. CASE u # t  BY <1>5, <3>1, <3>3 DEF Tasks
    <3> QED  BY <3>2, <3>3
  <2>3. CASE p \notin s.pay
    <3>1. p = i  BY <1>17, <2>3 DEF ToRemove
    <3> QED  BY <1>5, <1>17, <3>1
  <2> QED  BY <2>2, <2>3
<1>18. PayInv'
  <2> SUFFICES ASSUME kind = "move"  PROVE PayInv'
    BY DEF PayInv
  <2>1. ASSUME NEW u \in Tasks, task'[u].st \in Unfinished \ {"request"}
        PROVE  \E p \in Up[task'[u].item] : p \in group'[task'[u].group].pay
    <3>1. u # t /\ task'[u] = task[u]  BY <1>5, <1>7, <2>1 DEF Tasks
    <3>2. PICK p \in Up[task[u].item] : p \in group[task[u].group].pay
      BY <2>1, <3>1 DEF IInv, PayInv
    <3>3. task[u].group \in Groups
      <4>1. task[u] \in Task  BY <1>1 DEF Tasks
      <4> QED  BY <4>1 DEF Task
    <3>4. CASE task[u].group = g
      <4>1. s.pending # 1  BY <1>16, <2>1, <3>1, <3>4
      <4>2. p \in group'[g].pay  BY <1>10, <3>2, <3>4, <4>1
      <4> QED  BY <3>1, <3>2, <3>4, <4>2
    <3>5. CASE task[u].group # g  BY <1>10, <3>1, <3>2, <3>3, <3>5
    <3> QED  BY <3>4, <3>5
  <2>2. ASSUME NEW x \in Groups, NEW p \in Items, p \in group'[x].pay
        PROVE  /\ Into(p) = x
               /\ group'[x].ok \/ \E u \in Tasks : task'[u].item = p /\
                    ((task'[u].st \in Unfinished /\ task'[u].group = x) \/ task'[u].st = "failed")
    <3>1. CASE x = g
      <4>1. s.pending # 1 /\ p \in pay /\ (group'[g].ok \/ (~s.ok /\ r.st = "failed"))
        <5>1. s.pending # 1
          BY <1>10, <2>2, <3>1
        <5> QED  BY <1>10, <2>2, <3>1, <5>1
      <4>2. Into(p) = g
        <5>1. CASE p \in s.pay  BY <1>2, <5>1 DEF IInv, PayInv
        <5>2. CASE p \notin s.pay
          <6>1. p = i /\ task[t].st = "request"  BY <4>1, <5>2 DEF ToRemove
          <6> QED  BY <1>1, <6>1 DEF TaskInv
        <5> QED  BY <5>1, <5>2
      <4> QED  BY <1>17, <3>1, <4>1, <4>2
    <3>2. CASE x # g
      <4>1. group'[x] = group[x]  BY <1>10, <3>2
      <4>2. Into(p) = x  BY <2>2, <4>1 DEF IInv, PayInv
      <4>3. ASSUME ~group[x].ok
            PROVE  \E u \in Tasks : task'[u].item = p /\
                     ((task'[u].st \in Unfinished /\ task'[u].group = x) \/ task'[u].st = "failed")
        <5>1. PICK u \in Tasks : task[u].item = p /\
                ((task[u].st \in Unfinished /\ task[u].group = x) \/ task[u].st = "failed")
          BY <2>2, <4>1, <4>3 DEF IInv, PayInv
        <5>2. u # t  BY <3>2, <5>1 DEF Unfinished
        <5> QED  BY <1>5, <5>1, <5>2 DEF Tasks
      <4> QED  BY <4>1, <4>2, <4>3
    <3> QED  BY <3>1, <3>2
  <2> QED  BY <1>6, <2>1, <2>2 DEF PayInv
<1>19. MoveInv'
  <2> SUFFICES ASSUME kind = "move", restarts = 0, faults = 0, NEW j \in Items \ Dirs,
                      src[j] # "none", NEW u \in Tasks, task'[u].item \in Up[j]
               PROVE  (\E v \in Tasks : Scope(v, j)') \/ Coming(j)'
    BY <1>6 DEF MoveInv
  <2>1. (\E v \in Tasks : Scope(v, j)) \/ Coming(j)
    <3>1. task[u].item = task'[u].item  BY <1>5 DEF Tasks
    <3> QED  BY <3>1 DEF IInv, MoveInv
  <2>2. ASSUME NEW v \in Tasks, Scope(v, j)  PROVE Scope(v, j)'
    <3>1. CASE v = t
      <4>1. i \in Up[j] /\ r.st = "failed"  BY <2>2, <3>1
      <4> QED  BY <1>5, <3>1, <4>1 DEF Scope
    <3>2. CASE v # t  BY <1>5, <2>2, <3>2 DEF Scope, Tasks
    <3> QED  BY <3>1, <3>2
  <2>3. ASSUME NEW k \in Up[j], File(dst, k), NEW p \in Up[k], Awaited(p)
        PROVE  (\E v \in Tasks : Scope(v, j)') \/ Coming(j)'
    <3>1. k \in Items /\ p \in Items /\ p \in Up[j]  BY <2>3, TreeFacts
    <3>2. File(dst, k)'  BY <2>3 DEF File
    <3>3. ASSUME Awaited(p)'  PROVE Coming(j)'
      BY <2>3, <3>2, <3>3 DEF Coming
    <3>4. ASSUME p \in pay  PROVE (\E v \in Tasks : Scope(v, j)') \/ Awaited(p)'
      <4>1. CASE s.pending # 1
        <5>1. p \in group'[g].pay /\ group'[g].pending > 0
          <6>1. s.pending - 1 > 0  BY <1>8, <1>9, <4>1
          <6> QED  BY <1>10, <3>4, <4>1, <6>1
        <5> QED  BY <1>2, <5>1 DEF Awaited
      <4>2. CASE s.pending = 1 /\ r.todo = pay
        <5>1. p \in task'[t].todo  BY <1>5, <3>4, <4>2
        <5> QED  BY <1>6, <5>1 DEF Awaited
      <4>3. CASE s.pending = 1 /\ ~s.ok /\ r.st = "failed"
        <5>1. PICK v \in Tasks : task'[v].item = p /\
                ((task'[v].st \in Unfinished /\ task'[v].group = g /\ v # t) \/ task'[v].st = "failed")
          BY <1>17, <3>1, <3>4, <4>3
        <5>2. task'[v].st = "failed"  BY <1>5, <1>16, <4>3, <5>1 DEF Tasks
        <5>3. Scope(v, j)'  BY <3>1, <5>1, <5>2 DEF Scope
        <5> QED  BY <5>3
      <4> QED  BY <4>1, <4>2, <4>3
    <3>5. CASE \E v \in Tasks : p \in task[v].todo
      <4>1. PICK v \in Tasks : p \in task[v].todo  BY <3>5
      <4>2. v # t  BY <1>1, <4>1 DEF TaskInv, Tasks
      <4>3. p \in task'[v].todo  BY <1>5, <4>1, <4>2 DEF Tasks
      <4>4. Awaited(p)'  BY <1>6, <4>3 DEF Awaited
      <4> QED  BY <3>3, <4>4
    <3>6. CASE \E x \in Groups : p \in group[x].pay /\ group[x].pending > 0
      <4>1. PICK x \in Groups : p \in group[x].pay /\ group[x].pending > 0  BY <3>6
      <4>2. CASE x = g  BY <3>3, <3>4, <4>1, <4>2
      <4>3. CASE x # g
        <5>1. Awaited(p)'  BY <1>10, <4>1, <4>3 DEF Awaited
        <5> QED  BY <3>3, <5>1
      <4> QED  BY <4>2, <4>3
    <3>7. CASE \E v \in Tasks : task[v].st = "request" /\ task[v].item = p
      <4>1. PICK v \in Tasks : task[v].st = "request" /\ task[v].item = p  BY <3>7
      <4>2. CASE v = t
        <5>1. p \in pay  BY <4>1, <4>2 DEF ToRemove
        <5> QED  BY <3>3, <3>4, <5>1
      <4>3. CASE v # t
        <5>1. task'[v] = task[v]  BY <1>5, <4>3 DEF Tasks
        <5>2. Awaited(p)'  BY <1>6, <4>1, <5>1 DEF Awaited
        <5> QED  BY <3>3, <5>2
      <4> QED  BY <4>2, <4>3
    <3> QED  BY <2>3, <3>5, <3>6, <3>7 DEF Awaited
  <2> QED  BY <2>1, <2>2, <2>3 DEF Coming
<1> QED  BY <1>12, <1>13, <1>14, <1>15, <1>18, <1>19 DEF IInv, StorageInv

\* A task that is not over is counted.
LEMMA CountedTask ==
  ASSUME IInv, NEW t \in Tasks, task[t].st \in Unfinished
  PROVE  /\ task[t].group \in Groups /\ group[task[t].group] \in Group
         /\ group[task[t].group].pending \in Nat \ {0}
<1>1. task \in Seq(Task) /\ t \in 1 .. Len(task) /\ task[t] \in Task /\ GroupType
  BY TypeParts DEF IInv, Tasks
<1>2. task[t].group \in Groups  BY <1>1 DEF Task
<1>3. group[task[t].group] \in Group  BY <1>1, <1>2 DEF GroupType
<1>4. group[task[t].group].pending = Cardinality(Live(task, task[t].group))
  BY <1>2, PendingIsLive DEF IInv
<1>5. t \in Live(task, task[t].group)  BY <1>1 DEF Live, Counts
<1>6. Cardinality(Live(task, task[t].group)) # 0
  BY <1>1, <1>5, LiveFinite, FS_EmptySet
<1>7. group[task[t].group].pending \in Nat  BY <1>3 DEF Group
<1> QED  BY <1>2, <1>3, <1>4, <1>6, <1>7

LEMMA DoneAction ==
  ASSUME IInv, NEW t \in Tasks, task[t].st \in Unfinished, task[t].st # "request",
         NEW ok \in BOOLEAN, Done(t, ok),
         UNCHANGED <<kind, src, dst, before, faults, manual, restarts>>,
         \A j \in Items \ Dirs : Scope(t, j) => task[t].item \in Up[j] /\ ok = FALSE
  PROVE  IInv'
<1>0. PICK i, g, s : i = task[t].item /\ g = task[t].group /\ s = group[g]  OBVIOUS
<1>1. g \in Groups /\ s \in Group /\ s.pending \in Nat \ {0}  BY <1>0, CountedTask
<1>2. i \in Items
  <2>1. task[t] \in Task  BY TypeParts DEF IInv, Tasks
  <2> QED  BY <1>0, <2>1 DEF Task
<1> DEFINE b == s.ok \/ ok
           n == IF s.pending = 1 THEN NoGroup ELSE [pending |-> s.pending - 1, ok |-> b, pay |-> s.pay]
           todo == IF s.pending = 1 /\ b THEN s.pay ELSE {}
           r == Over(i, ok, todo)
<1>3. b \in BOOLEAN  OBVIOUS
<1>4. n \in Group /\ (s.pending = 1 => n.pending = 0 /\ n.pay = {})
      /\ (s.pending # 1 => n.pending = s.pending - 1 /\ n.pay = s.pay)
  <2> HIDE DEF b
  <2> QED  BY <1>1, <1>3 DEF Group, NoGroup
<1>5. s.pending # 1 => (n.ok <=> b)
  <2> HIDE DEF b
  <2> QED  BY <1>3
<1>6. todo \in SUBSET Items /\ (s.pending # 1 => todo = {}) /\ (s.pending = 1 /\ b => todo = s.pay)
  BY <1>1 DEF Group
<1>7. group' = [group EXCEPT ![g] = n]
  <2> HIDE DEF b
  <2>1. /\ s.pending # 0
        /\ group' = IF s.pending = 1 THEN [group EXCEPT ![g] = NoGroup]
                    ELSE [group EXCEPT ![g] = [pending |-> s.pending - 1, ok |-> b, pay |-> s.pay]]
    BY <1>0, <1>1 DEF Done, b
  <2> QED  BY <2>1
<1>8. task' = [task EXCEPT ![t] = r]
  BY <1>0 DEF Done
<1>9. /\ r \in Task /\ r.item = i /\ r.group = Into(i) /\ r.todo = todo /\ r.open = {} /\ r.left = {}
      /\ r.st = IF ok THEN "ok" ELSE "failed"
  <2> HIDE DEF todo
  <2> QED  BY <1>2, <1>6, OverType
<1>10. b \/ (~s.ok /\ ok = FALSE)  OBVIOUS
<1>11. ok = FALSE => r.st = "failed"  BY <1>9
<1>12. r.st \in {"ok", "failed"}  BY <1>9
<1> HIDE DEF r, n, todo, b
<1>13. /\ s.pending # 1 => n.ok \/ (~s.ok /\ r.st = "failed")
       /\ s.pending = 1 => r.todo = s.pay \/ (~s.ok /\ r.st = "failed")
  BY <1>5, <1>6, <1>9, <1>10, <1>11
<1>14. s.pay \cup (IF task[t].st = "request" THEN ToRemove(i) ELSE {}) = s.pay
  BY <1>1 DEF Group
<1>15. \A j \in Items \ Dirs : Scope(t, j) => i \in Up[j] /\ r.st = "failed"
  BY <1>0, <1>11
<1>16. Finished(t, i, g, s, s.pay, n, r)
  BY <1>0, <1>4, <1>6, <1>7, <1>8, <1>9, <1>12, <1>13, <1>14, <1>15 DEF Finished
<1> QED  BY <1>16, DoneStep

LEMMA TaskEnds ==
  ASSUME IInv, NEW t \in Tasks, DirDone(t) \/ OnSucceeded(t) \/ OnFailed(t)
  PROVE  IInv'
<1>1. CASE DirDone(t) \/ OnSucceeded(t)
  <2>1. /\ task[t].st \in {"adding", "succeeded"} /\ (task[t].st = "adding" => task[t].left = {})
        /\ Done(t, TRUE) /\ UNCHANGED <<kind, src, dst, before, faults, manual, restarts>>
    BY <1>1 DEF DirDone, OnSucceeded
  <2>2. task[t].st \in Unfinished /\ task[t].st # "request"  BY <2>1 DEF Unfinished
  <2>3. \A j \in Items \ Dirs : ~Scope(t, j)  BY <2>1 DEF Scope
  <2> QED  BY <2>1, <2>2, <2>3, DoneAction
<1>2. CASE OnFailed(t)
  <2>1. /\ task[t].st = "failing" /\ Done(t, FALSE)
        /\ UNCHANGED <<kind, src, dst, before, faults, manual, restarts>>
    BY <1>2 DEF OnFailed
  <2>2. task[t].st \in Unfinished /\ task[t].st # "request"  BY <2>1 DEF Unfinished
  <2>3. \A j \in Items \ Dirs : Scope(t, j) => task[t].item \in Up[j]  BY <2>1 DEF Scope
  <2> QED  BY <2>1, <2>2, <2>3, DoneAction
<1> QED  BY <1>1, <1>2

LEMMA RequestEndsStep ==
  ASSUME IInv, NEW t \in Tasks, RequestEnds(t)
  PROVE  IInv'
<1>0. PICK i, g, s : i = task[t].item /\ g = task[t].group /\ s = group[g]  OBVIOUS
<1>1. /\ task[t].st = "request" /\ task[t].left = {} /\ task[t].st \in Unfinished
      /\ UNCHANGED <<kind, src, dst, before, faults, manual, restarts>>
  BY DEF RequestEnds, Unfinished
<1>2. g \in Groups /\ s \in Group /\ s.pending \in Nat \ {0}  BY <1>0, <1>1, CountedTask
<1>3. i \in Items /\ task[t] \in Task /\ TaskInv(task[t])
  <2>1. task[t] \in Task  BY TypeParts DEF IInv, Tasks
  <2> QED  BY <1>0, <2>1 DEF Task, IInv
<1> DEFINE pay == s.pay \cup ToRemove(i)
           b == s.ok \/ task[t].any
           n == IF s.pending = 1 THEN NoGroup ELSE [pending |-> s.pending - 1, ok |-> b, pay |-> pay]
           todo == IF s.pending = 1 /\ b THEN pay ELSE {}
           fine == task[t].bad = {}
           r == Over(i, fine, todo)
<1>4. b \in BOOLEAN /\ fine \in BOOLEAN  OBVIOUS
<1>5. pay \in SUBSET Items  BY <1>2, <1>3 DEF Group, ToRemove
<1>6. n \in Group /\ (s.pending = 1 => n.pending = 0 /\ n.pay = {})
      /\ (s.pending # 1 => n.pending = s.pending - 1 /\ n.pay = pay)
  <2> HIDE DEF b, pay
  <2> QED  BY <1>2, <1>4, <1>5 DEF Group, NoGroup
<1>7. s.pending # 1 => (n.ok <=> b)
  <2> HIDE DEF b, pay
  <2> QED  BY <1>4
<1>8. todo \in SUBSET Items /\ (s.pending # 1 => todo = {}) /\ (s.pending = 1 /\ b => todo = pay)
  <2> HIDE DEF b, pay
  <2> QED  BY <1>5
<1>9. group' = [group EXCEPT ![g] = n] /\ task' = [task EXCEPT ![t] = r]
  BY <1>0 DEF RequestEnds
<1>10. /\ r \in Task /\ r.item = i /\ r.group = Into(i) /\ r.todo = todo /\ r.open = {} /\ r.left = {}
       /\ r.st = IF fine THEN "ok" ELSE "failed"
  <2> HIDE DEF todo, fine
  <2> QED  BY <1>3, <1>4, <1>8, OverType
<1>11. task[t].bad = {} => task[t].any  BY <1>1, <1>3 DEF TaskInv
<1>12. b \/ (~s.ok /\ ~fine)  BY <1>11
<1>13. (~fine => r.st = "failed") /\ r.st \in {"ok", "failed"}  BY <1>10
<1>14. pay = s.pay \cup IF task[t].st = "request" THEN ToRemove(i) ELSE {}  BY <1>1
<1>15. ASSUME NEW j \in Items \ Dirs, Scope(t, j)  PROVE i \in Up[j] /\ ~fine
  BY <1>0, <1>1, <1>15 DEF Scope
<1> HIDE DEF r, n, todo, b, pay, fine
<1>16. /\ s.pending # 1 => n.ok \/ (~s.ok /\ r.st = "failed")
       /\ s.pending = 1 => r.todo = pay \/ (~s.ok /\ r.st = "failed")
  BY <1>7, <1>8, <1>10, <1>12, <1>13
<1>17. \A j \in Items \ Dirs : Scope(t, j) => i \in Up[j] /\ r.st = "failed"
  BY <1>13, <1>15
<1>18. Finished(t, i, g, s, pay, n, r)
  BY <1>0, <1>1, <1>6, <1>8, <1>9, <1>10, <1>13, <1>14, <1>16, <1>17 DEF Finished
<1> QED  BY <1>18, DoneStep

\* A task or a request is new.  s1: what its parent has become.
Joined(s1, r, pay) ==
  /\ s1 \in Seq(Task) /\ Len(s1) = Len(task) /\ r \in Task /\ pay \in SUBSET Items
  /\ \A u \in Tasks : /\ s1[u].item = task[u].item /\ s1[u].group = task[u].group
                       /\ s1[u].st = task[u].st /\ s1[u].todo = task[u].todo
                       /\ s1[u].bad = task[u].bad /\ task[u].left \subseteq s1[u].left \cup {r.item}
                       /\ HookInv(s1[u]) /\ TaskInv(s1[u])
  /\ task' = Append(s1, r) /\ r.todo = {} /\ r.open = {}
  /\ r.st = "queued" \/ (r.st = "request" /\ r.left = {r.item} /\ r.group = Into(r.item))
  /\ group' = Added(group, r.group, pay)
  /\ UNCHANGED <<kind, src, dst, before, faults, manual, restarts>>
  /\ kind = "move" /\ r.st # "request" => \E p \in Up[r.item] : p \in group[r.group].pay \cup pay
  /\ \A p \in pay : p = r.item /\ Into(p) = r.group

LEMMA AddStep ==
  ASSUME IInv, NEW s1, NEW r, NEW pay, Joined(s1, r, pay)
  PROVE  IInv'
<1> USE DEF Joined
<1>1. /\ TaskRest /\ GroupType /\ task \in Seq(Task) /\ StorageInv
      /\ \A u \in Tasks : HookInv(task[u]) /\ TaskInv(task[u])
  BY TypeParts DEF IInv, StorageInv, Tasks
<1>0. PICK m : m = Len(task) + 1  OBVIOUS
<1> DEFINE g == r.group
<1>2. g \in Groups /\ r.item \in Items /\ r.st \in Unfinished /\ TaskInv(r)
  <2>1. g \in Groups /\ r.item \in Items  BY DEF Task
  <2>2. r.item \in Under(r.item)  BY <2>1, TreeFacts DEF Under
  <2> QED  BY <2>1, <2>2 DEF TaskInv, Unfinished
<1>3. /\ task' \in Seq(Task) /\ Len(task) \in Nat /\ Len(task') = m /\ task'[m] = r
      /\ \A u \in 1 .. Len(task) : task'[u] = s1[u]
  BY <1>0, AddOne
<1>4. Tasks' = Tasks \cup {m} /\ m \notin Tasks  BY <1>3 DEF Tasks
<1>5. /\ group'[g].pending = group[g].pending + 1 /\ group'[g].pay = group[g].pay \cup pay
      /\ group'[g].ok = group[g].ok
      /\ group' \in [Groups -> Group] /\ \A x \in Groups \ {g} : group'[x] = group[x]
  <2>1. group[g] \in Group /\ group \in [Groups -> Group]  BY <1>1, <1>2 DEF GroupType
  <2> DEFINE n == [group[g] EXCEPT !.pending = group[g].pending + 1, !.pay = group[g].pay \cup pay]
  <2>5. group[g].pending + 1 \in Nat /\ group[g].pay \cup pay \in SUBSET Items  BY <2>1 DEF Group
  <2>2. n \in Group  BY <2>1, <2>5 DEF Group
  <2>3. n.pending = group[g].pending + 1 /\ n.pay = group[g].pay \cup pay /\ n.ok = group[g].ok
    BY <2>1 DEF Group
  <2>4. group' = [group EXCEPT ![g] = n]  BY <2>1 DEF Added
  <2> HIDE DEF n, g
  <2> QED  BY <1>2, <2>1, <2>2, <2>3, <2>4
<1>6. TypeOK'  BY <1>1, <1>3, <1>5, TypeParts DEF TaskRest, GroupType
<1>7. PendingExact'
  <2>1. \A x \in Groups : group[x].pending = Cardinality(Live(task, x))
    BY PendingIsLive DEF IInv
  <2>2. ASSUME NEW x \in Groups  PROVE group'[x].pending = Cardinality(Live(task', x))
    <3>1. Live(s1, x) = Live(task, x)  BY DEF Live, Counts, Tasks
    <3>2. CASE x = g
      <4>1. Cardinality(Live(Append(s1, r), x)) = Cardinality(Live(s1, x)) + 1  BY <1>2, <3>2, LiveAdd
      <4> QED  BY <1>5, <2>1, <3>1, <3>2, <4>1
    <3>3. CASE x # g
      <4>1. Cardinality(Live(Append(s1, r), x)) = Cardinality(Live(s1, x))  BY <1>2, <3>3, LiveAdd
      <4> QED  BY <1>5, <2>1, <3>1, <3>3, <4>1
    <3> QED  BY <3>2, <3>3
  <2> QED  BY <2>2, PendingIsLive
<1>8. StorageInv'  BY <1>1, StorageSame
<1>9. \A u \in Tasks' : HookInv(task[u])' /\ TaskInv(task[u])'
  <2>1. HookInv(r)  BY DEF HookInv
  <2>2. \A u \in Tasks' : HookInv(task'[u]) /\ TaskInv(task'[u])
    BY <1>2, <1>3, <1>4, <2>1 DEF Tasks
  <2> TAKE u \in Tasks'
  <2>3. HookInv(task'[u]) /\ TaskInv(task'[u])  BY <2>2
  <2>4. HookInv(task[u])'  BY <2>3 DEF HookInv
  <2>5. TaskInv(task[u])'  BY <2>3 DEF TaskInv
  <2> QED  BY <2>4, <2>5
<1>10. \A u \in Tasks : /\ task'[u].item = task[u].item /\ task'[u].group = task[u].group
                       /\ task'[u].st = task[u].st /\ task'[u].todo = task[u].todo
  BY <1>3 DEF Tasks
<1>11. PayInv'
  <2> SUFFICES ASSUME kind = "move"  PROVE PayInv'
    BY DEF PayInv
  <2>1. ASSUME NEW u \in Tasks', task'[u].st \in Unfinished \ {"request"}
        PROVE  \E p \in Up[task'[u].item] : p \in group'[task'[u].group].pay
    <3>1. CASE u = m  BY <1>3, <1>5, <2>1, <3>1
    <3>2. CASE u \in Tasks
      <4>1. PICK p \in Up[task[u].item] : p \in group[task[u].group].pay
        BY <1>10, <2>1, <3>2 DEF IInv, PayInv
      <4>2. task[u].group \in Groups
        <5>1. task[u] \in Task  BY <1>1, <3>2 DEF Tasks
        <5> QED  BY <5>1 DEF Task
      <4>3. p \in group'[task[u].group].pay  BY <1>5, <4>1, <4>2
      <4> QED  BY <1>10, <3>2, <4>1, <4>3
    <3> QED  BY <1>4, <3>1, <3>2
  <2>2. ASSUME NEW x \in Groups, NEW p \in Items, p \in group'[x].pay
        PROVE  /\ Into(p) = x
               /\ group'[x].ok \/ \E u \in Tasks' : task'[u].item = p /\
                    ((task'[u].st \in Unfinished /\ task'[u].group = x) \/ task'[u].st = "failed")
    <3>1. CASE p \in group[x].pay
      <4>1. Into(p) = x  BY <2>2, <3>1 DEF IInv, PayInv
      <4>2. group'[x].ok = group[x].ok  BY <1>5
      <4>3. ASSUME ~group[x].ok
            PROVE  \E u \in Tasks' : task'[u].item = p /\
                     ((task'[u].st \in Unfinished /\ task'[u].group = x) \/ task'[u].st = "failed")
        <5>1. PICK u \in Tasks : task[u].item = p /\
                ((task[u].st \in Unfinished /\ task[u].group = x) \/ task[u].st = "failed")
          BY <3>1, <4>3 DEF IInv, PayInv
        <5> QED  BY <1>4, <1>10, <5>1
      <4> QED  BY <4>1, <4>2, <4>3
    <3>2. CASE p \notin group[x].pay
      <4>1. x = g /\ p \in pay  BY <1>5, <2>2, <3>2
      <4>2. p = r.item /\ Into(p) = g  BY <4>1
      <4> QED  BY <1>2, <1>3, <1>4, <4>1, <4>2
    <3> QED  BY <3>1, <3>2
  <2> QED  BY <2>1, <2>2 DEF PayInv
<1>12. MoveInv'
  <2> SUFFICES ASSUME kind = "move", restarts = 0, faults = 0, NEW i \in Items \ Dirs,
                      src[i] # "none", NEW u \in Tasks', task'[u].item \in Up[i]
               PROVE  (\E v \in Tasks' : Scope(v, i)') \/ Coming(i)'
    BY DEF MoveInv
  <2>1. CASE r.item \in Up[i]
    <3>1. Scope(m, i)'  BY <1>3, <2>1 DEF Scope
    <3> QED  BY <1>4, <3>1
  <2>2. CASE r.item \notin Up[i]
    <3>1. (\E v \in Tasks : Scope(v, i)) \/ Coming(i)
      <4>1. u \in Tasks /\ task[u].item \in Up[i]  BY <1>3, <1>4, <1>10, <2>2
      <4> QED  BY <4>1 DEF IInv, MoveInv
    <3>2. ASSUME NEW v \in Tasks, Scope(v, i)  PROVE Scope(v, i)'
      <4>1. task'[v] = s1[v]  BY <1>3 DEF Tasks
      <4> QED  BY <2>2, <3>2, <4>1 DEF Scope
    <3>3. \A p \in Items : Awaited(p) => Awaited(p)'
      <4> SUFFICES ASSUME NEW p \in Items, Awaited(p)  PROVE Awaited(p)'
        OBVIOUS
      <4>1. CASE \E v \in Tasks : p \in task[v].todo
        <5>1. \E v \in Tasks' : p \in task'[v].todo  BY <1>4, <1>10, <4>1
        <5> QED  BY <5>1 DEF Awaited
      <4>2. CASE \E v \in Tasks : task[v].st = "request" /\ task[v].item = p
        <5>1. \E v \in Tasks' : task'[v].st = "request" /\ task'[v].item = p  BY <1>4, <1>10, <4>2
        <5> QED  BY <5>1 DEF Awaited
      <4>3. CASE \E x \in Groups : p \in group[x].pay /\ group[x].pending > 0
        <5>1. PICK x \in Groups : p \in group[x].pay /\ group[x].pending > 0  BY <4>3
        <5>2. group[x].pending \in Nat  BY <1>1 DEF GroupType, Group
        <5>3. p \in group'[x].pay /\ group'[x].pending > 0  BY <1>5, <5>1, <5>2
        <5> QED  BY <5>3 DEF Awaited
      <4> QED  BY <4>1, <4>2, <4>3 DEF Awaited
    <3>4. \A k \in Items : File(dst, k) => File(dst', k)  BY DEF File
    <3> QED  BY <1>4, <3>1, <3>2, <3>3, <3>4, FileStays
  <2> QED  BY <2>1, <2>2
<1> QED  BY <1>6, <1>7, <1>8, <1>9, <1>11, <1>12 DEF IInv, StorageInv

LEMMA StartStep ==
  ASSUME IInv, NEW i \in Roots, Start(i) \/ StartRequest(i)
  PROVE  IInv'
<1>1. /\ i \in Items /\ Up[i] = {i} /\ Into(i) = Top /\ Top \in Groups
  <2>1. i \in Items  BY DEF Roots
  <2> QED  BY <2>1, TreeFacts
<1>2. NewTask(i, Top) \in Task  BY <1>1, NewTaskType
<1>3. task \in Seq(Task) /\ \A u \in Tasks : HookInv(task[u]) /\ TaskInv(task[u])
  BY TypeParts DEF IInv
<1>4. CASE Start(i)
  <2> DEFINE r == NewTask(i, Top)
  <2>1. /\ r \in Task /\ r.item = i /\ r.group = Top /\ r.st = "queued" /\ r.todo = {} /\ r.open = {}
    BY <1>1, NewTaskType
  <2>2. /\ task' = Append(task, r) /\ group' = Added(group, r.group, ToRemove(i))
        /\ UNCHANGED <<kind, src, dst, before, faults, manual, restarts>>
    BY <1>4, <2>1 DEF Start
  <2>3. ToRemove(i) \in SUBSET Items /\ (kind = "move" => ToRemove(i) = {i})
        /\ \A p \in ToRemove(i) : p = i
    BY <1>1 DEF ToRemove
  <2> HIDE DEF r
  <2>4. kind = "move" /\ r.st # "request" => \E p \in Up[r.item] : p \in group[r.group].pay \cup ToRemove(i)
    BY <1>1, <2>1, <2>3
  <2>5. Joined(task, r, ToRemove(i))
    BY <1>1, <1>3, <2>1, <2>2, <2>3, <2>4 DEF Joined
  <2> QED  BY <2>5, AddStep
<1>5. CASE StartRequest(i)
  <2> DEFINE n == NewTask(i, Top)  r == [n EXCEPT !.st = "request", !.left = {i}]
  <2>1. /\ n.item = i /\ n.group = Top /\ n.todo = {} /\ n.open = {}
    BY <1>1, NewTaskType
  <2>2. /\ task' = Append(task, r) /\ group' = Added(group, Top, {})
        /\ UNCHANGED <<kind, src, dst, before, faults, manual, restarts>>
    BY <1>5 DEF StartRequest
  <2>3. n \in Task  BY <1>2
  <2> HIDE DEF n
  <2>4. r \in Task  BY <1>1, <2>3 DEF Task, States, Unfinished
  <2>5. /\ r.item = i /\ r.group = Top /\ r.st = "request" /\ r.todo = {} /\ r.open = {} /\ r.left = {i}
    BY <2>1, <2>3 DEF Task
  <2> HIDE DEF r
  <2>6. {} \in SUBSET Items /\ \A p \in {} : p = r.item /\ Into(p) = r.group  OBVIOUS
  <2>7. ~(kind = "move" /\ r.st # "request")  BY <2>5
  <2>8. Joined(task, r, {})
    BY <1>1, <1>3, <2>2, <2>4, <2>5, <2>6, <2>7 DEF Joined
  <2> QED  BY <2>8, AddStep
<1> QED  BY <1>4, <1>5

\* A directory's task adds the task of a child, to its own group.
LEMMA AddChildStep ==
  ASSUME IInv, NEW t \in Tasks, NEW j \in Items, AddChild(t, j)
  PROVE  IInv'
<1>0. PICK h : h = task[t]  OBVIOUS
<1> DEFINE v == [h EXCEPT !.left = h.left \ {j}]
           s1 == [task EXCEPT ![t] = v]
           r == NewTask(j, h.group)
<1>1. /\ task \in Seq(Task) /\ t \in 1 .. Len(task) /\ h \in Task
      /\ \A u \in Tasks : HookInv(task[u]) /\ TaskInv(task[u])
  BY <1>0, TypeParts DEF IInv, Tasks
<1>2. /\ h.st = "adding" /\ j \in h.left /\ h.group \in Groups /\ h.item \in Items
      /\ h.left \subseteq Under(h.item)
  BY <1>0, <1>1 DEF AddChild, TaskInv, Task
<1>3. v \in Task  BY <1>1 DEF Task
<1>4. /\ v.item = h.item /\ v.group = h.group /\ v.st = h.st /\ v.todo = h.todo /\ v.open = h.open
      /\ v.bad = h.bad /\ v.left = h.left \ {j}
  BY <1>1 DEF Task
<1>5. /\ r \in Task /\ r.item = j /\ r.group = h.group /\ r.st = "queued" /\ r.todo = {} /\ r.open = {}
  BY <1>2, NewTaskType
<1>6. /\ task' = Append(s1, r) /\ group' = Added(group, h.group, {})
      /\ UNCHANGED <<kind, src, dst, before, faults, manual, restarts>>
  <2>1. [task EXCEPT ![t].left = @ \ {j}] = s1  BY <1>0, <1>1
  <2> QED  BY <1>0, <2>1 DEF AddChild
<1> HIDE DEF v, r
<1>7. /\ s1 \in Seq(Task) /\ Len(s1) = Len(task) /\ s1[t] = v
      /\ \A u \in 1 .. Len(task) : u # t => s1[u] = task[u]
  BY <1>1, <1>3, SetOne
<1> HIDE DEF s1
<1>8. HookInv(v) /\ TaskInv(v)
  BY <1>0, <1>1, <1>2, <1>4 DEF HookInv, TaskInv
<1>9. \A u \in Tasks : /\ s1[u].item = task[u].item /\ s1[u].group = task[u].group
                      /\ s1[u].st = task[u].st /\ s1[u].todo = task[u].todo
                      /\ s1[u].bad = task[u].bad /\ task[u].left \subseteq s1[u].left \cup {r.item}
                      /\ HookInv(s1[u]) /\ TaskInv(s1[u])
  BY <1>0, <1>1, <1>4, <1>5, <1>7, <1>8 DEF Tasks
<1>10. kind = "move" /\ r.st # "request" => \E p \in Up[r.item] : p \in group[r.group].pay \cup {}
  <2> SUFFICES ASSUME kind = "move"  PROVE \E p \in Up[j] : p \in group[h.group].pay
    BY <1>5
  <2>1. PICK p \in Up[h.item] : p \in group[h.group].pay
    BY <1>0, <1>2 DEF IInv, PayInv, Unfinished
  <2>2. h.item \in Up[j]  BY <1>2 DEF Under
  <2> QED  BY <2>1, <2>2, TreeFacts
<1>11. {} \in SUBSET Items /\ \A p \in {} : p = r.item /\ Into(p) = r.group  OBVIOUS
<1>12. group' = Added(group, r.group, {})  BY <1>5, <1>6
<1>13. Joined(s1, r, {})
  BY <1>5, <1>6, <1>7, <1>9, <1>10, <1>11, <1>12 DEF Joined
<1> QED  BY <1>13, AddStep

\* A task that failed begins anew, in the group of its own directory.
LEMMA RetryStep ==
  ASSUME IInv, NEW t \in Tasks, ManualRetry(t)
  PROVE  IInv'
<1>0. PICK i, g : i = task[t].item /\ g = Into(i)  OBVIOUS
<1> DEFINE r == NewTask(i, g)
<1>1. /\ TaskRest /\ GroupType /\ task \in Seq(Task) /\ StorageInv
      /\ \A u \in Tasks : HookInv(task[u]) /\ TaskInv(task[u])
      /\ t \in 1 .. Len(task) /\ task[t] \in Task
      /\ \A x \in Groups : group[x].pending = Cardinality(Live(task, x))
  BY TypeParts, PendingIsLive DEF IInv, StorageInv, Tasks
<1>2. i \in Items /\ g \in Groups /\ ToRemove(i) \subseteq {i} /\ (kind = "move" => i \in ToRemove(i))
  <2>1. i \in Items  BY <1>0, <1>1 DEF Task
  <2>2. Into(i) \in Groups  BY <2>1, TreeFacts
  <2> QED  BY <1>0, <2>1, <2>2 DEF ToRemove
<1>3. /\ task[t].st = "failed" /\ task[t].todo = {} /\ task[t].open = {}
      /\ manual' \in 0 .. MaxManual
      /\ UNCHANGED <<kind, src, dst, before, faults, restarts>>
  BY <1>1, TransferAssumption DEF ManualRetry, TaskRest
<1>4. /\ r \in Task /\ r.item = i /\ r.group = g /\ r.st = "queued" /\ r.todo = {} /\ r.open = {}
  BY <1>2, NewTaskType
<1>5. task' = [task EXCEPT ![t] = r] /\ group' = Added(group, g, ToRemove(i))
  BY <1>0 DEF ManualRetry, Anew
<1> HIDE DEF r
<1>6. /\ task' \in Seq(Task) /\ Len(task') = Len(task) /\ task'[t] = r
      /\ \A u \in 1 .. Len(task) : u # t => task'[u] = task[u]
  BY <1>1, <1>4, <1>5, SetOne
<1>7. Tasks' = Tasks  BY <1>6 DEF Tasks
<1>8. /\ group'[g].pending = group[g].pending + 1 /\ group'[g].pay = group[g].pay \cup ToRemove(i)
      /\ group'[g].ok = group[g].ok
      /\ group' \in [Groups -> Group] /\ \A x \in Groups \ {g} : group'[x] = group[x]
  <2>1. group[g] \in Group /\ group \in [Groups -> Group]  BY <1>1, <1>2 DEF GroupType
  <2> DEFINE n == [group[g] EXCEPT !.pending = group[g].pending + 1,
                                   !.pay = group[g].pay \cup ToRemove(i)]
  <2>2. group[g].pending + 1 \in Nat /\ group[g].pay \cup ToRemove(i) \in SUBSET Items
    BY <1>2, <2>1 DEF Group
  <2>3. n \in Group  BY <2>1, <2>2 DEF Group
  <2>4. n.pending = group[g].pending + 1 /\ n.pay = group[g].pay \cup ToRemove(i) /\ n.ok = group[g].ok
    BY <2>1 DEF Group
  <2>5. group' = [group EXCEPT ![g] = n]  BY <1>5, <2>1 DEF Added
  <2> HIDE DEF n
  <2> QED  BY <1>2, <2>1, <2>3, <2>4, <2>5
<1>9. TypeOK'  BY <1>1, <1>3, <1>6, <1>8, TypeParts DEF TaskRest, GroupType
<1>10. PendingExact'
  <2>1. task[t].st \notin Unfinished /\ r.st \in Unfinished  BY <1>3, <1>4 DEF Unfinished
  <2>2. group'[g].pending = Cardinality(Live(task', g))
    <3>1. Cardinality(Live(task', r.group)) = Cardinality(Live(task, r.group)) + 1
      BY <1>1, <1>4, <1>5, <2>1, LiveBack
    <3> QED  BY <1>1, <1>2, <1>4, <1>8, <3>1
  <2>3. ASSUME NEW x \in Groups, x # g  PROVE group'[x].pending = Cardinality(Live(task', x))
    <3>1. ~Counts(task[t], x) /\ ~Counts(r, x)  BY <1>4, <2>1, <2>3 DEF Counts
    <3>2. Live(task', x) = Live(task, x)  BY <1>1, <1>6, <3>1 DEF Live
    <3> QED  BY <1>1, <1>8, <2>3, <3>2
  <2> QED  BY <2>2, <2>3, PendingIsLive
<1>11. StorageInv'  BY <1>1, <1>3, StorageSame
<1>12. \A u \in Tasks' : HookInv(task[u])' /\ TaskInv(task[u])'
  <2>1. HookInv(r) /\ TaskInv(r)  BY <1>4 DEF HookInv, TaskInv
  <2>2. \A u \in Tasks' : HookInv(task'[u]) /\ TaskInv(task'[u])
    BY <1>1, <1>6, <1>7, <2>1 DEF Tasks
  <2> TAKE u \in Tasks'
  <2>3. HookInv(task'[u]) /\ TaskInv(task'[u])  BY <2>2
  <2>4. HookInv(task[u])'  BY <1>3, <2>3 DEF HookInv
  <2>5. TaskInv(task[u])'  BY <2>3 DEF TaskInv
  <2> QED  BY <2>4, <2>5
<1>13. PayInv'
  <2> SUFFICES ASSUME kind = "move"  PROVE PayInv'
    BY <1>3 DEF PayInv
  <2>1. ASSUME NEW u \in Tasks, task'[u].st \in Unfinished \ {"request"}
        PROVE  \E p \in Up[task'[u].item] : p \in group'[task'[u].group].pay
    <3>1. CASE u = t
      <4>1. i \in Up[i]  BY <1>2, TreeFacts
      <4> QED  BY <1>2, <1>4, <1>6, <1>8, <3>1, <4>1
    <3>2. CASE u # t
      <4>1. task'[u] = task[u] /\ task[u] \in Task  BY <1>1, <1>6, <3>2 DEF Tasks
      <4>2. PICK p \in Up[task[u].item] : p \in group[task[u].group].pay
        BY <2>1, <4>1 DEF IInv, PayInv
      <4>3. task[u].group \in Groups  BY <4>1 DEF Task
      <4>4. p \in group'[task[u].group].pay  BY <1>8, <4>2, <4>3
      <4> QED  BY <4>1, <4>2, <4>4
    <3> QED  BY <3>1, <3>2
  <2>2. ASSUME NEW x \in Groups, NEW p \in Items, p \in group'[x].pay
        PROVE  /\ Into(p) = x
               /\ group'[x].ok \/ \E u \in Tasks : task'[u].item = p /\
                    ((task'[u].st \in Unfinished /\ task'[u].group = x) \/ task'[u].st = "failed")
    <3>0. r.st \in Unfinished  BY <1>4 DEF Unfinished
    <3>1. CASE p \in group[x].pay
      <4>1. Into(p) = x  BY <2>2, <3>1 DEF IInv, PayInv
      <4>2. group'[x].ok = group[x].ok  BY <1>8
      <4>3. ASSUME ~group[x].ok
            PROVE  \E u \in Tasks : task'[u].item = p /\
                     ((task'[u].st \in Unfinished /\ task'[u].group = x) \/ task'[u].st = "failed")
        <5>1. PICK u \in Tasks : task[u].item = p /\
                ((task[u].st \in Unfinished /\ task[u].group = x) \/ task[u].st = "failed")
          BY <3>1, <4>3 DEF IInv, PayInv
        <5>2. CASE u = t
          <6>1. p = i /\ g = x  BY <1>0, <4>1, <5>1, <5>2
          <6> QED  BY <1>4, <1>6, <3>0, <6>1
        <5>3. CASE u # t  BY <1>6, <5>1, <5>3 DEF Tasks
        <5> QED  BY <5>2, <5>3
      <4> QED  BY <4>1, <4>2, <4>3
    <3>2. CASE p \notin group[x].pay
      <4>1. x = g /\ p = i  BY <1>2, <1>8, <2>2, <3>2
      <4> QED  BY <1>0, <1>4, <1>6, <3>0, <4>1
    <3> QED  BY <3>1, <3>2
  <2> QED  BY <1>7, <2>1, <2>2 DEF PayInv
<1>14. MoveInv'
  <2> SUFFICES ASSUME kind = "move", restarts = 0, faults = 0, NEW j \in Items \ Dirs,
                      src[j] # "none", NEW u \in Tasks, task'[u].item \in Up[j]
               PROVE  (\E v \in Tasks : Scope(v, j)') \/ Coming(j)'
    BY <1>3, <1>7 DEF MoveInv
  <2>1. \A v \in Tasks : task'[v].item = task[v].item /\ task'[v].todo = task[v].todo
    BY <1>0, <1>3, <1>4, <1>6 DEF Tasks
  <2>2. (\E v \in Tasks : Scope(v, j)) \/ Coming(j)
    BY <2>1 DEF IInv, MoveInv
  <2>3. ASSUME NEW v \in Tasks, Scope(v, j)  PROVE Scope(v, j)'
    <3>1. CASE v = t  BY <1>0, <1>3, <1>4, <1>6, <2>3, <3>1 DEF Scope
    <3>2. CASE v # t  BY <1>6, <2>3, <3>2 DEF Scope, Tasks
    <3> QED  BY <3>1, <3>2
  <2>4. \A p \in Items : Awaited(p) => Awaited(p)'
    <3> SUFFICES ASSUME NEW p \in Items, Awaited(p)  PROVE Awaited(p)'
      OBVIOUS
    <3>1. CASE \E v \in Tasks : p \in task[v].todo
      <4>1. \E v \in Tasks' : p \in task'[v].todo  BY <1>7, <2>1, <3>1
      <4> QED  BY <4>1 DEF Awaited
    <3>2. CASE \E v \in Tasks : task[v].st = "request" /\ task[v].item = p
      <4>1. \E v \in Tasks' : task'[v].st = "request" /\ task'[v].item = p
        BY <1>3, <1>6, <1>7, <3>2 DEF Tasks
      <4> QED  BY <4>1 DEF Awaited
    <3>3. CASE \E x \in Groups : p \in group[x].pay /\ group[x].pending > 0
      <4>1. PICK x \in Groups : p \in group[x].pay /\ group[x].pending > 0  BY <3>3
      <4>2. group[x].pending \in Nat  BY <1>1 DEF GroupType, Group
      <4>3. p \in group'[x].pay /\ group'[x].pending > 0  BY <1>8, <4>1, <4>2
      <4> QED  BY <4>3 DEF Awaited
    <3> QED  BY <3>1, <3>2, <3>3 DEF Awaited
  <2>5. \A k \in Items : File(dst, k) => File(dst', k)  BY <1>3 DEF File
  <2> QED  BY <2>2, <2>3, <2>4, <2>5, FileStays
<1> QED  BY <1>9, <1>10, <1>11, <1>12, <1>13, <1>14 DEF IInv, StorageInv

\* The server restarts: the groups are counted from the tasks that run again.
LEMMA RestartStep ==
  ASSUME IInv, Restart
  PROVE  IInv'
<1> DEFINE alive == {t \in 1 .. Len(task) : task[t].st \in {"queued", "adding"}}
           maybe == {t \in 1 .. Len(task) : task[t].st \in {"succeeded", "failing"}}
<1>1. /\ TaskRest /\ GroupType /\ task \in Seq(Task) /\ StorageInv
      /\ Len(task) \in Nat /\ \A u \in Tasks : task[u] \in Task
  BY TypeParts DEF IInv, StorageInv, Tasks
<1>2. /\ restarts' \in 1 .. MaxRestarts
      /\ UNCHANGED <<kind, src, dst, before, faults, manual>>
  BY <1>1, TransferAssumption DEF Restart, TaskRest
<1>3. PICK more \in SUBSET maybe :
        /\ task' = [t \in 1 .. Len(task) |->
               IF t \in alive \cup more THEN Anew(task[t].item)
               ELSE Over(task[t].item, task[t].st \in {"ok", "succeeded"}, {})]
        /\ group' = [g \in Groups |->
               LET mine == {t \in alive \cup more : Into(task[t].item) = g} IN
               [pending |-> Cardinality(mine), ok |-> FALSE,
                pay |-> UNION {ToRemove(task[t].item) : t \in mine}]]
  BY DEF Restart
<1> DEFINE again == alive \cup more
           mine(g) == {t \in again : Into(task[t].item) = g}
<1>4. again \subseteq Tasks  BY DEF Tasks
<1>5. \A u \in Tasks : task'[u] = IF u \in again THEN NewTask(task[u].item, Into(task[u].item))
                            ELSE Over(task[u].item, task[u].st \in {"ok", "succeeded"}, {})
  BY <1>3 DEF Tasks, Anew
<1>6. \A g \in Groups : group'[g].pending = Cardinality(mine(g))
  BY <1>3
<1>19. \A g \in Groups : group'[g] = [pending |-> group'[g].pending, ok |-> FALSE, pay |-> group'[g].pay]
  BY <1>3
<1>20. \A g \in Groups, p \in Items : \A t \in mine(g) : p \in ToRemove(task[t].item) => p \in group'[g].pay
  BY <1>3
<1>21. \A g \in Groups : \A p \in group'[g].pay : \E t \in mine(g) : p \in ToRemove(task[t].item)
  BY <1>3
<1>7. /\ \E n \in Nat : DOMAIN task' = 1 .. n
      /\ DOMAIN task' = 1 .. Len(task) /\ task' = [t \in 1 .. Len(task) |-> task'[t]]
  BY <1>1, <1>3
<1>8. DOMAIN group' = Groups /\ group' = [g \in Groups |-> group'[g]]
  BY <1>3
<1> HIDE DEF again, mine, alive, maybe
<1>9. ASSUME NEW u \in Tasks
      PROVE  /\ task'[u] \in Task /\ task[u].item \in Items /\ task'[u].item = task[u].item
             /\ task'[u].group = Into(task[u].item) /\ task'[u].todo = {} /\ task'[u].open = {}
             /\ task'[u].left = {}
             /\ u \in again => task'[u].st = "queued"
             /\ u \notin again => task'[u].st \in {"ok", "failed"}
  <2>0. PICK i : i = task[u].item  OBVIOUS
  <2>1. i \in Items /\ Into(i) \in Groups
    <3>1. i \in Items  BY <1>1, <2>0 DEF Task
    <3> QED  BY <3>1, TreeFacts
  <2>2. CASE u \in again
    <3>1. task'[u] = NewTask(i, Into(i))  BY <1>5, <2>0, <2>2
    <3> QED  BY <2>0, <2>1, <2>2, <3>1, NewTaskType
  <2>3. CASE u \notin again
    <3> DEFINE fine == task[u].st \in {"ok", "succeeded"}
    <3>1. task'[u] = Over(i, fine, {})  BY <1>5, <2>0, <2>3
    <3>2. fine \in BOOLEAN /\ {} \in SUBSET Items  OBVIOUS
    <3> HIDE DEF fine
    <3>3. LET r == Over(i, fine, {}) IN
          /\ r \in Task /\ r.item = i /\ r.group = Into(i)
          /\ r.st = IF fine THEN "ok" ELSE "failed"
          /\ r.todo = {} /\ r.open = {} /\ r.left = {}
      BY <2>1, <3>2, OverType
    <3> QED  BY <2>0, <2>1, <2>3, <3>1, <3>3
  <2> QED  BY <2>2, <2>3
<1>10. task' \in Seq(Task) /\ Len(task') = Len(task) /\ Tasks' = Tasks
  <2>1. \A u \in 1 .. Len(task) : task'[u] \in Task  BY <1>9 DEF Tasks
  <2>2. task' \in [1 .. Len(task) -> Task]  BY <1>7, <2>1
  <2>3. task' \in Seq(Task) /\ Len(task') = Len(task)  BY <1>1, <2>2
  <2> QED  BY <2>3 DEF Tasks
<1>11. \A g \in Groups : Live(task', g) = mine(g)
  <2> TAKE g \in Groups
  <2>1. \A u \in Tasks : Counts(task'[u], g) => u \in mine(g)
    BY <1>9 DEF Counts, Unfinished, mine
  <2>2. \A u \in mine(g) : u \in Tasks /\ Counts(task'[u], g)
    BY <1>4, <1>9 DEF Counts, Unfinished, mine
  <2> QED  BY <1>10, <2>1, <2>2 DEF Live, Tasks
<1>12. PendingExact'
  BY <1>6, <1>11, PendingIsLive
<1>13. GroupType'
  <2>1. ASSUME NEW g \in Groups  PROVE group'[g] \in Group
    <3>1. group'[g].pending \in Nat  BY <1>6, <1>10, <1>11, LiveFinite
    <3>2. group'[g].pay \subseteq Items
      <4> SUFFICES ASSUME NEW p \in group'[g].pay  PROVE p \in Items
        OBVIOUS
      <4>1. PICK t \in mine(g) : p \in ToRemove(task[t].item)  BY <1>21
      <4>2. p = task[t].item /\ t \in Tasks  BY <1>4, <4>1 DEF mine, ToRemove
      <4> QED  BY <1>9, <4>2
    <3>3. group'[g] = [pending |-> group'[g].pending, ok |-> FALSE, pay |-> group'[g].pay]
      BY <1>19
    <3>4. ASSUME NEW n \in Nat, NEW pay \in SUBSET Items
          PROVE  [pending |-> n, ok |-> FALSE, pay |-> pay] \in Group
      BY DEF Group
    <3>5. [pending |-> group'[g].pending, ok |-> FALSE, pay |-> group'[g].pay] \in Group
      BY <3>1, <3>2, <3>4
    <3> QED  BY <3>3, <3>5
  <2> QED  BY <1>8, <2>1 DEF GroupType
<1>14. TypeOK'
  <2>1. TaskRest'  BY <1>1, <1>2 DEF TaskRest
  <2> QED  BY <1>10, <1>13, <2>1, TypeParts
<1>15. StorageInv'  BY <1>1, <1>2, StorageSame
<1>16. \A u \in Tasks' : HookInv(task[u])' /\ TaskInv(task[u])'
  <2> SUFFICES ASSUME NEW u \in Tasks  PROVE HookInv(task[u])' /\ TaskInv(task[u])'
    BY <1>10
  <2>1. HookInv(task[u])'  BY <1>9 DEF HookInv
  <2>2. task'[u].st \in {"queued", "ok", "failed"} /\ task'[u].todo = {} /\ task'[u].open = {}
    BY <1>9
  <2>3. TaskInv(task[u])'  BY <2>2 DEF TaskInv
  <2> QED  BY <2>1, <2>3
<1>17. PayInv'
  <2> SUFFICES ASSUME kind = "move"  PROVE PayInv'
    BY <1>2 DEF PayInv
  <2>1. ASSUME NEW u \in Tasks, task'[u].st \in Unfinished \ {"request"}
        PROVE  \E p \in Up[task'[u].item] : p \in group'[task'[u].group].pay
    <3>0. PICK i : i = task[u].item  OBVIOUS
    <3>1. u \in again  BY <1>9, <2>1 DEF Unfinished
    <3>2. i \in Items /\ task'[u].item = i /\ task'[u].group = Into(i)  BY <1>9, <3>0
    <3>3. i \in Up[i] /\ Into(i) \in Groups  BY <3>2, TreeFacts
    <3>4. u \in mine(Into(i)) /\ i \in ToRemove(task[u].item)
      BY <3>0, <3>1 DEF mine, ToRemove
    <3>5. PICK g \in Groups : g = Into(i)  BY <3>3
    <3>6. i \in group'[g].pay  BY <1>20, <3>2, <3>4, <3>5
    <3> QED  BY <3>2, <3>3, <3>5, <3>6
  <2>2. ASSUME NEW x \in Groups, NEW p \in Items, p \in group'[x].pay
        PROVE  /\ Into(p) = x
               /\ \E u \in Tasks : task'[u].item = p /\ task'[u].st \in Unfinished /\ task'[u].group = x
    <3>1. PICK u \in mine(x) : p \in ToRemove(task[u].item)  BY <1>21, <2>2
    <3>2. p = task[u].item /\ u \in again /\ Into(task[u].item) = x  BY <3>1 DEF mine, ToRemove
    <3>3. u \in Tasks /\ task'[u].item = p /\ task'[u].group = x /\ task'[u].st = "queued"
      BY <1>4, <1>9, <3>2
    <3> QED  BY <3>2, <3>3 DEF Unfinished
  <2> QED  BY <1>10, <2>1, <2>2 DEF PayInv
<1>18. MoveInv'  BY <1>2 DEF MoveInv
<1> QED  BY <1>12, <1>14, <1>15, <1>16, <1>17, <1>18 DEF IInv, StorageInv

-----------------------------------------------------------------------------
(* The steps of tasks and requests                                         *)

\* A file below a directory is below one of the children to copy.
LEMMA ChildToCopy ==
  ASSUME SrcInv, kind = "move", NEW i \in Dirs, NEW j \in Items \ Dirs, i \in Up[j], src[j] # "none"
  PROVE  ToCopy(i) \cap Up[j] # {}
<1>1. i \in Items  BY TransferAssumption
<1>2. PICK c \in Up[j] : c \in Children(i)  BY TreeFacts
<1>3. c \in Items /\ src[c] # "none"
  <2>1. c \in Items /\ j \in Under(c)  BY <1>2, TreeFacts DEF Under
  <2> QED  BY <2>1 DEF SrcInv
<1> QED  BY <1>2, <1>3 DEF ToCopy

LEMMA CopiedBelow ==
  ASSUME NEW i \in Items
  PROVE  ToCopy(i) \subseteq Under(i) /\ ToCopy(i) \subseteq Items
         /\ \A p \in Items : i \in Under(p) => Under(i) \subseteq Under(p)
BY TreeFacts DEF ToCopy, Children, Under

\* What the steps of a task know of it
LEMMA TaskKnown ==
  ASSUME IInv, NEW t \in Tasks
  PROVE  /\ task[t] \in Task /\ TaskInv(task[t]) /\ HookInv(task[t]) /\ TaskRest
         /\ task \in Seq(Task) /\ t \in 1 .. Len(task)
         /\ task[t].item \in Items /\ task[t].left \subseteq Items
         /\ task[t].todo \subseteq Items /\ task[t].open \subseteq Items /\ task[t].bad \subseteq Items
         /\ SrcInv /\ DstInv /\ NothingLost
<1>1. task \in Seq(Task) /\ t \in 1 .. Len(task) /\ TaskRest  BY TypeParts DEF IInv, Tasks
<1>2. task[t] \in Task  BY <1>1
<1> QED  BY <1>1, <1>2 DEF IInv, Task

LEMMA ListDirStep ==
  ASSUME IInv, NEW t \in Tasks, ListDir(t)
  PROVE  IInv'
<1>0. PICK h, i : h = task[t] /\ i = h.item  OBVIOUS
<1>1. /\ h \in Task /\ TaskInv(h) /\ TaskRest /\ i \in Items /\ SrcInv
      /\ task \in Seq(Task) /\ t \in 1 .. Len(task)
  BY <1>0, TaskKnown
<1>2. /\ h.st = "queued" /\ src[i] = "dir" /\ UNCHANGED <<kind, src, dst, before, group, faults, manual, restarts>>
  BY <1>0 DEF ListDir
<1>3. i \in Dirs  BY <1>1, <1>2 DEF SrcInv
<1>4. PICK r : r = [h EXCEPT !.st = "adding", !.left = ToCopy(i)]  OBVIOUS
<1>5. r \in Task  BY <1>1, <1>4, CopiedBelow DEF Task, States, Unfinished
<1>6. /\ r.st = "adding" /\ r.left = ToCopy(i) /\ r.item = i /\ r.group = h.group /\ r.todo = h.todo
      /\ r.open = h.open /\ r.bad = h.bad
  BY <1>0, <1>1, <1>4 DEF Task
<1>7. task' = [task EXCEPT ![t] = r]  BY <1>0, <1>4 DEF ListDir
<1>8. TaskInv(r)
  BY <1>1, <1>2, <1>3, <1>6, CopiedBelow DEF TaskInv, Unfinished
<1>9. task'[t] = r  BY <1>1, <1>5, <1>7, SetOne
<1>10. ASSUME NEW j \in Items \ Dirs, kind = "move", src[j] # "none", Scope(t, j)  PROVE Scope(t, j)'
  <2>1. i \in Up[j]  BY <1>0, <1>2, <1>10 DEF Scope
  <2>2. ToCopy(i) \cap Up[j] # {}  BY <1>1, <1>3, <1>10, <2>1, ChildToCopy
  <2> QED  BY <1>6, <1>9, <2>2 DEF Scope
<1>11. Worked(t, r)
  BY <1>0, <1>1, <1>2, <1>5, <1>6, <1>7, <1>8, <1>10 DEF Worked, Unfinished, TaskRest
<1> QED  BY <1>11, WorkStep

LEMMA RequestDirStep ==
  ASSUME IInv, NEW t \in Tasks, NEW i \in Items, RequestDir(t, i)
  PROVE  IInv'
<1>0. PICK h : h = task[t]  OBVIOUS
<1>1. /\ h \in Task /\ TaskInv(h) /\ TaskRest /\ SrcInv /\ h.left \subseteq Items /\ h.item \in Items
      /\ task \in Seq(Task) /\ t \in 1 .. Len(task)
  BY <1>0, TaskKnown
<1>2. /\ h.st = "request" /\ i \in h.left /\ src[i] = "dir"
      /\ UNCHANGED <<kind, src, dst, before, group, faults, manual, restarts>>
  BY <1>0 DEF RequestDir
<1>3. i \in Dirs  BY <1>2 , <1>1 DEF SrcInv
<1>4. PICK left, any : left = (h.left \ {i}) \cup ToCopy(i) /\ any = IF ToCopy(i) = {} THEN TRUE ELSE h.any
  OBVIOUS
<1>5. left \in SUBSET Items /\ any \in BOOLEAN /\ (left = {} => any = TRUE)
  BY <1>1, <1>4, CopiedBelow DEF Task
<1>6. PICK r : r = [h EXCEPT !.left = left, !.any = any]  OBVIOUS
<1>7. r \in Task  BY <1>1, <1>5, <1>6 DEF Task
<1>8. /\ r.st = "request" /\ r.left = left /\ r.any = any /\ r.item = h.item /\ r.group = h.group
      /\ r.todo = h.todo /\ r.open = h.open /\ r.bad = h.bad
  BY <1>1, <1>2, <1>6 DEF Task
<1>9. task' = [task EXCEPT ![t] = r]  BY <1>0, <1>4, <1>6 DEF RequestDir
<1>10. TaskInv(r)
  <2>1. left \subseteq Under(h.item)
    <3>1. h.left \subseteq Under(h.item)  BY <1>1, <1>2 DEF TaskInv
    <3>2. ToCopy(i) \subseteq Under(h.item)  BY <1>1, <1>2, <3>1, CopiedBelow
    <3> QED  BY <1>4, <3>1, <3>2
  <2>2. left = {} => r.any  BY <1>5, <1>8
  <2> QED  BY <1>1, <1>2, <1>8, <2>1, <2>2 DEF TaskInv, Unfinished
<1>11. task'[t] = r  BY <1>1, <1>7, <1>9, SetOne
<1>12. ASSUME NEW j \in Items \ Dirs, kind = "move", src[j] # "none", Scope(t, j)  PROVE Scope(t, j)'
  <2>1. CASE i \in Up[j]
    <3>1. ToCopy(i) \cap Up[j] # {}  BY <1>1, <1>3, <1>12, <2>1, ChildToCopy
    <3> QED  BY <1>4, <1>8, <1>11, <3>1 DEF Scope
  <2>2. CASE i \notin Up[j]
    <3>1. h.left \cap Up[j] # {} => left \cap Up[j] # {}  BY <1>4, <2>2
    <3> QED  BY <1>0, <1>2, <1>8, <1>11, <1>12, <3>1 DEF Scope
  <2> QED  BY <2>1, <2>2
<1>13. Worked(t, r)
  BY <1>0, <1>1, <1>2, <1>7, <1>8, <1>9, <1>10, <1>12 DEF Worked, Unfinished, TaskRest
<1> QED  BY <1>13, WorkStep

LEMMA RequestFileStep ==
  ASSUME IInv, NEW t \in Tasks, NEW i \in Items, RequestFile(t, i)
  PROVE  IInv'
<1>0. PICK h : h = task[t]  OBVIOUS
<1>1. /\ h \in Task /\ TaskInv(h) /\ TaskRest /\ SrcInv /\ h.left \subseteq Items /\ h.item \in Items
      /\ task \in Seq(Task) /\ t \in 1 .. Len(task)
  BY <1>0, TaskKnown
<1>2. /\ h.st = "request" /\ i \in h.left /\ src[i] = "new" /\ CanPut(i) /\ Put(i)
      /\ UNCHANGED <<kind, src, before, group, faults, manual, restarts>>
  BY <1>0 DEF RequestFile
<1>3. i \notin Dirs  BY <1>2 , <1>1 DEF SrcInv
<1>4. PICK left : left = h.left \ {i}  OBVIOUS
<1>5. PICK r : r = [h EXCEPT !.left = left, !.any = TRUE]  OBVIOUS
<1>6. r \in Task  BY <1>1, <1>4, <1>5 DEF Task
<1>7. /\ r.st = "request" /\ r.left = left /\ r.any = TRUE /\ r.item = h.item /\ r.group = h.group
      /\ r.todo = h.todo /\ r.open = h.open /\ r.bad = h.bad
  BY <1>1, <1>2, <1>5 DEF Task
<1>8. task' = [task EXCEPT ![t] = r]  BY <1>0, <1>4, <1>5 DEF RequestFile
<1>9. TaskInv(r)  BY <1>1, <1>2, <1>4, <1>7 DEF TaskInv, Unfinished
<1>10. task'[t] = r  BY <1>1, <1>6, <1>8, SetOne
<1>11. ASSUME NEW j \in Items \ Dirs, src[j] # "none", Scope(t, j)
       PROVE  Scope(t, j)' \/ (File(dst', j) /\ \E p \in Up[j] : Awaited(p))
  <2>1. CASE i \in Up[j]
    <3>1. i = j  BY <1>3, <2>1, TreeFacts
    <3>2. File(dst', j)  BY <1>2, <3>1 DEF Put, PutAs, File
    <3>3. h.item \in Up[j]  BY <1>1, <1>2, <3>1 DEF TaskInv, Under
    <3>4. Awaited(h.item)  BY <1>0, <1>2 DEF Awaited
    <3> QED  BY <3>2, <3>3, <3>4
  <2>2. CASE i \notin Up[j]
    <3>1. h.left \cap Up[j] # {} => left \cap Up[j] # {}  BY <1>4, <2>2
    <3> QED  BY <1>0, <1>2, <1>7, <1>10, <1>11, <3>1 DEF Scope
  <2> QED  BY <2>1, <2>2
<1>12. \E j \in Items, what \in {"part", "new"} : PutAs(j, what) /\ src[j] = "new" /\ CanPut(j)
  BY <1>2 DEF Put
<1>13. Worked(t, r)
  BY <1>0, <1>1, <1>2, <1>6, <1>7, <1>8, <1>9, <1>11, <1>12 DEF Worked, Unfinished, TaskRest
<1> QED  BY <1>13, WorkStep

\* A failure leaves the storage alone, but for a file that was begun.
LEMMA BreaksStep ==
  ASSUME IInv, NEW i \in Items, NEW P \in BOOLEAN, ~P => src[i] # "none",
         IF P THEN UNCHANGED <<dst, faults>> ELSE PutBreaks(i) /\ Fault
  PROVE  /\ faults' \in 0 .. MaxFaults /\ (faults' = 0 => faults = 0)
         /\ UNCHANGED dst \/ (faults' # 0 /\ \E j \in Items : src[j] = "new" /\ PutBreaks(j))
<1>1. TaskRest /\ SrcInv /\ DstInv  BY TypeParts DEF IInv
<1>2. CASE P  BY <1>1, <1>2 DEF TaskRest
<1>3. CASE ~P
  <2>1. faults' \in 0 .. MaxFaults /\ faults' # 0
    BY <1>1, <1>3, TransferAssumption DEF Fault, TaskRest
  <2>2. CASE src[i] = "new"  BY <1>3, <2>1, <2>2
  <2>3. CASE src[i] = "dir"
    <3>1. dst[i] # "part"  BY <1>1, <2>3 DEF SrcInv, DstInv
    <3> QED  BY <1>3, <2>1, <3>1 DEF PutBreaks
  <2> QED  BY <1>1, <1>3, <2>2, <2>3 DEF TaskRest
<1> QED  BY <1>2, <1>3

LEMMA RequestFailsStep ==
  ASSUME IInv, NEW t \in Tasks, NEW i \in Items, RequestFails(t, i)
  PROVE  IInv'
<1>0. PICK h : h = task[t]  OBVIOUS
<1>1. /\ h \in Task /\ TaskInv(h) /\ TaskRest /\ h.left \subseteq Items /\ h.item \in Items
      /\ task \in Seq(Task) /\ t \in 1 .. Len(task)
  BY <1>0, TaskKnown
<1>2. /\ h.st = "request" /\ i \in h.left
      /\ UNCHANGED <<kind, src, before, group, manual, restarts>>
  BY <1>0 DEF RequestFails
<1>3. /\ faults' \in 0 .. MaxFaults /\ (faults' = 0 => faults = 0)
      /\ UNCHANGED dst \/ (faults' # 0 /\ \E j \in Items : src[j] = "new" /\ PutBreaks(j))
  <2> DEFINE P == src[i] = "none" \/ (src[i] = "dir" /\ ~CanList(i)) \/ (src[i] = "new" /\ ~CanPut(i))
  <2>1. IF P THEN UNCHANGED <<dst, faults>> ELSE PutBreaks(i) /\ Fault  BY DEF RequestFails
  <2>2. (~P => src[i] # "none") /\ P \in BOOLEAN  OBVIOUS
  <2> HIDE DEF P
  <2> QED  BY <2>1, <2>2, BreaksStep
<1>4. PICK r : r = [h EXCEPT !.left = {}, !.bad = {i}]  OBVIOUS
<1>5. r \in Task  BY <1>1, <1>4 DEF Task
<1>6. /\ r.st = "request" /\ r.left = {} /\ r.bad = {i} /\ r.item = h.item /\ r.group = h.group
      /\ r.todo = h.todo /\ r.open = h.open
  BY <1>1, <1>2, <1>4 DEF Task
<1>7. task' = [task EXCEPT ![t] = r]  BY <1>0, <1>4 DEF RequestFails
<1>8. TaskInv(r)  BY <1>1, <1>2, <1>6 DEF TaskInv, Unfinished
<1>9. task'[t] = r  BY <1>1, <1>5, <1>7, SetOne
<1>10. ASSUME NEW j \in Items \ Dirs, Scope(t, j)  PROVE Scope(t, j)'
  <2>1. h.item \in Up[j]
    <3>1. CASE h.left \cap Up[j] # {}
      <4>1. PICK k \in h.left : k \in Up[j]  BY <3>1
      <4>2. k \in Items /\ h.item \in Up[k]  BY <1>1, <1>2, <4>1 DEF TaskInv, Under
      <4> QED  BY <4>1, <4>2, TreeFacts
    <3> QED  BY <1>0, <1>2, <1>10, <3>1 DEF Scope
  <2> QED  BY <1>6, <1>9, <2>1 DEF Scope
<1>11. Worked(t, r)
  BY <1>0, <1>2, <1>3, <1>5, <1>6, <1>7, <1>8, <1>10 DEF Worked, Unfinished
<1> QED  BY <1>11, WorkStep

LEMMA CopyFileStep ==
  ASSUME IInv, NEW t \in Tasks, CopyFile(t)
  PROVE  IInv'
<1>0. PICK h, i : h = task[t] /\ i = h.item  OBVIOUS
<1>1. /\ h \in Task /\ TaskInv(h) /\ TaskRest /\ i \in Items /\ SrcInv
      /\ task \in Seq(Task) /\ t \in 1 .. Len(task)
  BY <1>0, TaskKnown
<1>2. /\ h.st = "queued" /\ src[i] = "new" /\ CanPut(i) /\ Put(i)
      /\ UNCHANGED <<kind, src, before, group, faults, manual, restarts>>
  BY <1>0 DEF CopyFile
<1>3. i \notin Dirs  BY <1>1, <1>2 DEF SrcInv
<1>4. PICK r : r = [h EXCEPT !.st = "succeeded"]  OBVIOUS
<1>5. r \in Task  BY <1>1, <1>4 DEF Task, States, Unfinished
<1>6. /\ r.st = "succeeded" /\ r.item = i /\ r.group = h.group /\ r.todo = h.todo /\ r.open = h.open
  BY <1>0, <1>1, <1>4 DEF Task
<1>7. task' = [task EXCEPT ![t] = r]  BY <1>0, <1>4 DEF CopyFile
<1>8. TaskInv(r)  BY <1>1, <1>2, <1>3, <1>6 DEF TaskInv, Unfinished
<1>9. ASSUME NEW j \in Items \ Dirs, kind = "move", src[j] # "none", Scope(t, j)
      PROVE  File(dst', j) /\ \E p \in Up[j] : Awaited(p)
  <2>1. i \in Up[j]  BY <1>0, <1>2, <1>9 DEF Scope
  <2>2. i = j  BY <1>3, <2>1, TreeFacts
  <2>3. File(dst', j)  BY <1>2, <2>2 DEF Put, PutAs, File
  <2>4. h.st \in Unfinished /\ h.st # "request"  BY <1>2 DEF Unfinished
  <2>5. PICK p \in Up[i] : p \in group[h.group].pay
    BY <1>0, <1>9, <2>4 DEF IInv, PayInv
  <2>6. h.group \in Groups /\ group[h.group].pending \in Nat \ {0}
    BY <1>0, <2>4, CountedTask
  <2>7. Awaited(p)  BY <2>5, <2>6 DEF Awaited
  <2> QED  BY <2>2, <2>3, <2>5, <2>7
<1>10. \E j \in Items, what \in {"part", "new"} : PutAs(j, what) /\ src[j] = "new" /\ CanPut(j)
  BY <1>1, <1>2 DEF Put
<1>11. Worked(t, r)
  BY <1>0, <1>1, <1>2, <1>5, <1>6, <1>7, <1>8, <1>9, <1>10 DEF Worked, Unfinished, TaskRest
<1> QED  BY <1>11, WorkStep

\* A copy has begun: nobody knows but the storage.
LEMMA CopyBeginsStep ==
  ASSUME IInv, NEW t \in Tasks, NEW i \in Items,
         task[t].st \in Unfinished, src[i] = "new", CanPut(i), PutAs(i, "part"),
         UNCHANGED <<kind, src, before, task, group, faults, manual, restarts>>
  PROVE  IInv'
<1>1. /\ task[t] \in Task /\ TaskInv(task[t]) /\ TaskRest
      /\ task \in Seq(Task) /\ t \in 1 .. Len(task)
  BY TaskKnown
<1>2. task' = [task EXCEPT ![t] = task[t]]  BY <1>1
<1>3. \E j \in Items, what \in {"part", "new"} : PutAs(j, what) /\ src[j] = "new" /\ CanPut(j)
  OBVIOUS
<1>4. \A j \in Items \ Dirs : Scope(t, j) => Scope(t, j)'  BY DEF Scope
<1>5. Worked(t, task[t])  BY <1>1, <1>2, <1>3, <1>4 DEF Worked, TaskRest
<1> QED  BY <1>5, WorkStep

LEMMA FailsStep ==
  ASSUME IInv, NEW t \in Tasks, Fails(t) \/ Cancelled(t)
  PROVE  IInv'
<1>0. PICK h : h = task[t]  OBVIOUS
<1>1. /\ h \in Task /\ TaskInv(h) /\ TaskRest
      /\ task \in Seq(Task) /\ t \in 1 .. Len(task)
  BY <1>0, TaskKnown
<1>2. UNCHANGED <<kind, src, before, group, manual, restarts>>
  BY DEF Fails, Cancelled
<1>3. /\ faults' \in 0 .. MaxFaults /\ (faults' = 0 => faults = 0)
      /\ UNCHANGED dst \/ (faults' # 0 /\ \E j \in Items : src[j] = "new" /\ PutBreaks(j))
  <2>1. CASE Cancelled(t)  BY <1>1, <2>1, TransferAssumption DEF Cancelled, Fault, TaskRest
  <2>2. CASE Fails(t)
    <3> DEFINE i == h.item
               P == src[i] = "none" \/ (src[i] = "dir" /\ ~CanList(i)) \/ (src[i] = "new" /\ ~CanPut(i))
    <3>1. IF P THEN UNCHANGED <<dst, faults>> ELSE PutBreaks(i) /\ Fault  BY <1>0, <2>2 DEF Fails
    <3>2. (~P => src[i] # "none") /\ P \in BOOLEAN /\ i \in Items  BY <1>1 DEF Task
    <3> HIDE DEF P, i
    <3> QED  BY <3>1, <3>2, BreaksStep
  <2> QED  BY <2>1, <2>2
<1>4. CASE Fails(t)
  <2>1. h.st = "queued"  BY <1>0, <1>4 DEF Fails
  <2>2. CASE h.tries < MaxRetry
    <3>1. PICK r : r = [h EXCEPT !.tries = h.tries + 1]  OBVIOUS
    <3>0. h.tries + 1 \in 0 .. MaxRetry  BY <1>1, <2>2, TransferAssumption DEF Task
    <3>2. r \in Task  BY <1>1, <3>0, <3>1 DEF Task
    <3>3. /\ r.st = "queued" /\ r.item = h.item /\ r.group = h.group /\ r.todo = h.todo /\ r.open = h.open
      BY <1>1, <2>1, <3>1 DEF Task
    <3>4. task' = [task EXCEPT ![t] = r]  BY <1>0, <1>4, <2>2, <3>1 DEF Fails
    <3>5. TaskInv(r)  BY <1>1, <2>1, <3>3 DEF TaskInv, Unfinished
    <3>6. task'[t] = r  BY <1>1, <3>2, <3>4, SetOne
    <3>7. \A j \in Items \ Dirs : Scope(t, j) => Scope(t, j)'
      BY <1>0, <2>1, <3>3, <3>6 DEF Scope
    <3>8. Worked(t, r)
      BY <1>0, <1>2, <1>3, <2>1, <3>2, <3>3, <3>4, <3>5, <3>7 DEF Worked, Unfinished
    <3> QED  BY <3>8, WorkStep
  <2>3. CASE ~(h.tries < MaxRetry)
    <3>1. PICK r : r = [h EXCEPT !.st = "failing"]  OBVIOUS
    <3>2. r \in Task  BY <1>1, <3>1 DEF Task, States, Unfinished
    <3>3. /\ r.st = "failing" /\ r.item = h.item /\ r.group = h.group /\ r.todo = h.todo /\ r.open = h.open
      BY <1>1, <3>1 DEF Task
    <3>4. task' = [task EXCEPT ![t] = r]  BY <1>0, <1>4, <2>3, <3>1 DEF Fails
    <3>5. TaskInv(r)  BY <1>1, <2>1, <3>3 DEF TaskInv, Unfinished
    <3>6. task'[t] = r  BY <1>1, <3>2, <3>4, SetOne
    <3>7. \A j \in Items \ Dirs : Scope(t, j) => Scope(t, j)'
      BY <1>0, <2>1, <3>3, <3>6 DEF Scope
    <3>8. Worked(t, r)
      BY <1>0, <1>2, <1>3, <2>1, <3>2, <3>3, <3>4, <3>5, <3>7 DEF Worked, Unfinished
    <3> QED  BY <3>8, WorkStep
  <2> QED  BY <2>2, <2>3
<1>5. CASE Cancelled(t)
  <2>1. h.st = "adding" /\ faults' # 0
    BY <1>0, <1>1, <1>5 DEF Cancelled, Fault, TaskRest
  <2>2. PICK r : r = [h EXCEPT !.st = "failing", !.left = {}]  OBVIOUS
  <2>3. r \in Task  BY <1>1, <2>2 DEF Task, States, Unfinished
  <2>4. /\ r.st = "failing" /\ r.item = h.item /\ r.group = h.group /\ r.todo = h.todo /\ r.open = h.open
    BY <1>1, <2>2 DEF Task
  <2>5. task' = [task EXCEPT ![t] = r]  BY <1>0, <1>5, <2>2 DEF Cancelled
  <2>6. TaskInv(r)  BY <1>1, <2>1, <2>4 DEF TaskInv, Unfinished
  <2>7. Worked(t, r)
    BY <1>0, <1>2, <1>3, <2>1, <2>3, <2>4, <2>5, <2>6 DEF Worked, Unfinished
  <2> QED  BY <2>7, WorkStep
<1> QED  BY <1>4, <1>5

-----------------------------------------------------------------------------
(* The steps of hooks                                                      *)

LEMMA HookFields ==
  ASSUME IInv, NEW t \in Tasks, NEW todo \in SUBSET Items, NEW open \in SUBSET Items,
         NEW bad \in SUBSET Items, Hook(t, todo, open, bad)
  PROVE  \E r \in Task :
           /\ task' = [task EXCEPT ![t] = r]
           /\ r.st = task[t].st /\ r.item = task[t].item /\ r.group = task[t].group
           /\ r.left = task[t].left /\ r.todo = todo /\ r.open = open
           /\ r.bad = bad \/ todo \cup open = {}
<1>0. PICK h : h = task[t]  OBVIOUS
<1>1. h \in Task  BY <1>0, TaskKnown
<1>2. PICK b : b = IF todo \cup open = {} THEN {} ELSE bad  OBVIOUS
<1>3. b \in SUBSET Items  BY <1>2
<1>4. PICK r : r = [h EXCEPT !.todo = todo, !.open = open, !.bad = b]  OBVIOUS
<1>5. r \in Task  BY <1>1, <1>3, <1>4 DEF Task
<1>6. /\ r.st = h.st /\ r.item = h.item /\ r.group = h.group /\ r.left = h.left
      /\ r.todo = todo /\ r.open = open /\ r.bad = b
  BY <1>1, <1>4 DEF Task
<1>7. task' = [task EXCEPT ![t] = r]  BY <1>0, <1>2, <1>4 DEF Hook
<1> QED  BY <1>0, <1>2, <1>5, <1>6, <1>7

\* What is above a file of the destination that awaits the source i
LEMMA SourceAbove ==
  ASSUME SrcInv, DstInv, NEW j \in Items \ Dirs, NEW k \in Up[j], NEW i \in Up[k],
         File(dst, k), src[j] # "none"
  PROVE  /\ i \in Items /\ src[i] # "none" /\ dst[i] # "none"
         /\ i # k => dst[i] = "dir"
         /\ src[i] = "dir" /\ dst[i] = "dir" => \E c \in Up[k] : c \in Children(i) /\ src[c] # "none"
         /\ i \in Up[j] /\ (i \notin Dirs => i = k)
<1>1. k \in Items /\ Up[k] \subseteq Up[j] /\ i \in Items /\ i \in Up[j]  BY TreeFacts
<1>2. \A c \in Up[j] : src[c] # "none"
  <2> TAKE c \in Up[j]
  <2>1. c \in Items /\ j \in Under(c)  BY TreeFacts DEF Under
  <2> QED  BY <2>1 DEF SrcInv
<1>3. dst[k] # "none" /\ dst[k] # "dir"  BY DEF File
<1>4. i # k => dst[i] = "dir"  BY <1>1, <1>3 DEF DstInv
<1>5. i # k => \E c \in Up[k] : c \in Children(i)  BY <1>1, TreeFacts
<1>6. i \notin Dirs => i = k  BY <1>1, TreeFacts
<1>7. src[i] = "dir" /\ dst[i] = "dir" => \E c \in Up[k] : c \in Children(i) /\ src[c] # "none"
  BY <1>1, <1>2, <1>3, <1>5
<1>8. src[i] # "none" /\ dst[i] # "none"  BY <1>1, <1>2, <1>3, <1>4
<1> QED  BY <1>1, <1>4, <1>6, <1>7, <1>8

\* Nobody but a hook of a task that is over has something to verify.
LEMMA HookKnown ==
  ASSUME IInv, NEW t \in Tasks, NEW i \in task[t].todo \cup task[t].open
  PROVE  task[t].st \notin Unfinished
BY TaskKnown DEF TaskInv

\* A source is found wanting, or cannot be removed.
LEMMA FoundWanting ==
  ASSUME IInv, NEW t \in Tasks, NEW i \in task[t].todo,
         Hook(t, task[t].todo \ {i}, task[t].open, task[t].bad \cup {i}),
         UNCHANGED <<kind, src, dst, before, group, manual, restarts>>,
         faults' \in 0 .. MaxFaults, faults' = 0 => faults = 0,
         "none" \in {src[i], dst[i]} \/ (src[i] = "new" /\ dst[i] = "dir") \/ faults' # 0
  PROVE  IInv'
<1>0. PICK h : h = task[t]  OBVIOUS
<1>1. /\ h \in Task /\ HookInv(h) /\ SrcInv /\ DstInv /\ i \in Items
      /\ h.todo \subseteq Items /\ h.open \subseteq Items /\ h.bad \subseteq Items
      /\ h.st \notin Unfinished
  BY <1>0, TaskKnown, HookKnown
<1>2. PICK r \in Task :
           /\ task' = [task EXCEPT ![t] = r]
           /\ r.st = h.st /\ r.item = h.item /\ r.group = h.group
           /\ r.left = h.left /\ r.todo = h.todo \ {i} /\ r.open = h.open
           /\ r.bad = h.bad \cup {i} \/ (h.todo \ {i}) \cup h.open = {}
  <2>1. /\ h.todo \ {i} \in SUBSET Items /\ h.open \in SUBSET Items /\ h.bad \cup {i} \in SUBSET Items
        /\ Hook(t, h.todo \ {i}, h.open, h.bad \cup {i})
    BY <1>0, <1>1
  <2> QED  BY <1>0, <2>1, HookFields
<1>3. HookInv(r)'
  <2>1. HookInv(r)
    BY <1>1, <1>2 DEF HookInv
  <2> QED  BY <2>1 DEF HookInv, Children
<1>4. ASSUME NEW j \in Items \ Dirs, NEW k \in Items, NEW p \in Items,
             k \in Up[j], p \in Up[k], File(dst, k), p \in h.todo, src'[j] # "none", faults' = 0
      PROVE  \E q \in Up[k] : q \in r.todo
  <2>1. CASE p # i  BY <1>2, <1>4, <2>1
  <2>2. CASE p = i
    <3>1. /\ src[i] # "none" /\ dst[i] # "none"
          /\ i # k => dst[i] = "dir"
          /\ i \notin Dirs => i = k
      BY <1>1, <1>4, <2>2, SourceAbove
    <3>2. src[i] = "new" => i \notin Dirs  BY <1>1 DEF SrcInv
    <3> QED  BY <1>4, <3>1, <3>2 DEF File
  <2> QED  BY <2>1, <2>2
<1>5. Hooked(t, r)
  BY <1>0, <1>1, <1>2, <1>4 DEF Hooked
<1> QED  BY <1>3, <1>5, HookStep

\* The files below a file of the destination: there is one, its copy or a part of that, or
\* it was there before.
LEMMA FileArrived ==
  ASSUME DstInv, NEW i \in Items, File(dst, i), NEW j \in Items \ Dirs, i \in Up[j],
         dst \in [Items -> {"none", "dir", "old", "part", "new"}]
  PROVE  Mistaken(j) \/ dst[j] = "new"
<1>1. dst[i] \in {"old", "part", "new"}  BY DEF File
<1>2. CASE dst[i] = "old"
  <2>1. before[i] = "old"  BY <1>2 DEF DstInv
  <2> QED  BY <2>1 DEF Mistaken, File
<1>3. CASE dst[i] \in {"part", "new"}
  <2>1. i \notin Dirs  BY <1>3 DEF DstInv
  <2>2. i = j  BY <2>1, TreeFacts
  <2> QED  BY <1>3, <2>2 DEF Mistaken
<1> QED  BY <1>1, <1>2, <1>3

LEMMA VerifyStep ==
  ASSUME IInv, NEW t \in Tasks, NEW i \in Items, Verify(t, i)
  PROVE  IInv'
<1>0. PICK h : h = task[t]  OBVIOUS
<1>1. i \in h.todo /\ UNCHANGED <<kind, dst, before, group, faults, manual, restarts>>
  BY <1>0 DEF Verify
<1>2. /\ h \in Task /\ HookInv(h) /\ SrcInv /\ DstInv /\ TaskRest
      /\ h.todo \subseteq Items /\ h.open \subseteq Items /\ h.bad \subseteq Items
  BY <1>0, TaskKnown
<1>3. h.st \notin Unfinished  BY <1>0, <1>1, HookKnown
<1>4. faults' \in 0 .. MaxFaults /\ (faults' = 0 => faults = 0)  BY <1>1, <1>2 DEF TaskRest
<1>5. CASE /\ "none" \in {src[i], dst[i]} \/ (src[i] = "new" /\ dst[i] = "dir")
           /\ Hook(t, h.todo \ {i}, h.open, h.bad \cup {i})
           /\ UNCHANGED src
  BY <1>0, <1>1, <1>4, <1>5, FoundWanting
<1>6. CASE /\ src[i] # "none" /\ File(dst, i)
           /\ src' = Without(src, i)
           /\ Hook(t, h.todo \ {i}, h.open, h.bad)
  <2>1. PICK r \in Task :
           /\ task' = [task EXCEPT ![t] = r]
           /\ r.st = h.st /\ r.item = h.item /\ r.group = h.group
           /\ r.left = h.left /\ r.todo = h.todo \ {i} /\ r.open = h.open
           /\ r.bad = h.bad \/ (h.todo \ {i}) \cup h.open = {}
    <3>1. /\ h.todo \ {i} \in SUBSET Items /\ h.open \in SUBSET Items /\ h.bad \in SUBSET Items
          /\ Hook(t, h.todo \ {i}, h.open, h.bad)
      BY <1>2, <1>6
    <3> QED  BY <1>0, <3>1, HookFields
  <2>2. \A j \in Items : src'[j] = IF i \in Up[j] THEN "none" ELSE src[j]
    BY <1>6 DEF Without, Under
  <2>3. HookInv(r)'
    <3>1. src'[i] = "none"  BY <2>2, TreeFacts
    <3>2. \A c \in Items : src[c] = "none" => src'[c] = "none"  BY <2>2
    <3>3. r.open \subseteq Dirs  BY <1>2, <2>1 DEF HookInv
    <3>4. ASSUME NEW o \in r.open, NEW c \in Children(o)
          PROVE  c \in r.todo \cup r.open \cup r.bad \/ src'[c] = "none"
      <4>1. c \in Items  BY <3>4 DEF Children
      <4>2. c \in h.todo \cup h.open \cup h.bad \/ src[c] = "none"
        BY <1>2, <2>1, <3>4 DEF HookInv
      <4>3. r.bad = h.bad  BY <2>1, <3>4
      <4> QED  BY <2>1, <3>1, <3>2, <4>1, <4>2, <4>3
    <3> QED  BY <3>3, <3>4 DEF HookInv, Children
  <2>4. \A j \in Items \ Dirs : i \in Up[j] => Mistaken(j) \/ src[j] = "none" \/ dst[j] = "new"
    BY <1>2, <1>6, FileArrived DEF TaskRest
  <2>5. ASSUME NEW j \in Items \ Dirs, NEW k \in Items, NEW p \in Items,
               k \in Up[j], p \in Up[k], p \in h.todo, src'[j] # "none"
        PROVE  \E q \in Up[k] : q \in r.todo
    <3>1. p \in Up[j]  BY <2>5, TreeFacts
    <3>2. p # i  BY <2>2, <2>5, <3>1
    <3> QED  BY <2>1, <2>5, <3>2
  <2>6. Hooked(t, r)
    BY <1>0, <1>1, <1>3, <1>4, <1>6, <2>1, <2>4, <2>5 DEF Hooked
  <2> QED  BY <2>3, <2>6, HookStep
<1>7. CASE /\ src[i] = "dir" /\ dst[i] = "dir"
           /\ Hook(t, (h.todo \ {i}) \cup {j \in Children(i) : src[j] # "none"}, h.open \cup {i}, h.bad)
           /\ UNCHANGED src
  <2>0. PICK todo : todo = (h.todo \ {i}) \cup {j \in Children(i) : src[j] # "none"}  OBVIOUS
  <2>1. PICK r \in Task :
           /\ task' = [task EXCEPT ![t] = r]
           /\ r.st = h.st /\ r.item = h.item /\ r.group = h.group
           /\ r.left = h.left /\ r.todo = todo /\ r.open = h.open \cup {i}
           /\ r.bad = h.bad
    <3>1. /\ todo \in SUBSET Items /\ h.open \cup {i} \in SUBSET Items /\ h.bad \in SUBSET Items
          /\ Hook(t, todo, h.open \cup {i}, h.bad)
      BY <1>2, <1>7, <2>0 DEF Children
    <3>2. todo \cup (h.open \cup {i}) # {}  OBVIOUS
    <3> QED  BY <1>0, <3>1, <3>2, HookFields
  <2>2. i \in Dirs  BY <1>2, <1>7 DEF SrcInv
  <2>3. HookInv(r)'
    <3>1. r.open \subseteq Dirs  BY <1>2, <2>1, <2>2 DEF HookInv
    <3>2. ASSUME NEW o \in r.open, NEW c \in Children(o)
          PROVE  c \in r.todo \cup r.open \cup r.bad \/ src[c] = "none"
      <4>1. CASE o = i  BY <2>0, <2>1, <3>2, <4>1
      <4>2. CASE o # i
        <5>1. c \in h.todo \cup h.open \cup h.bad \/ src[c] = "none"
          BY <1>2, <2>1, <3>2, <4>2 DEF HookInv
        <5> QED  BY <2>0, <2>1, <5>1
      <4> QED  BY <4>1, <4>2
    <3> QED  BY <1>7, <3>1, <3>2 DEF HookInv, Children
  <2>4. ASSUME NEW j \in Items \ Dirs, NEW k \in Items, NEW p \in Items,
               k \in Up[j], p \in Up[k], File(dst, k), p \in h.todo, src'[j] # "none"
        PROVE  \E q \in Up[k] : q \in r.todo
    <3>1. CASE p # i  BY <2>0, <2>1, <2>4, <3>1
    <3>2. CASE p = i
      <4>1. \E c \in Up[k] : c \in Children(i) /\ src[c] # "none"
        BY <1>2, <1>7, <2>4, <3>2, SourceAbove
      <4> QED  BY <2>0, <2>1, <4>1
    <3> QED  BY <3>1, <3>2
  <2>5. Hooked(t, r)
    BY <1>0, <1>1, <1>3, <1>4, <1>7, <2>1, <2>4 DEF Hooked
  <2> QED  BY <2>3, <2>5, HookStep
<1> QED  BY <1>0, <1>5, <1>6, <1>7 DEF Verify

LEMMA VerifyFailsStep ==
  ASSUME IInv, NEW t \in Tasks, NEW i \in Items, VerifyFails(t, i)
  PROVE  IInv'
<1>1. TaskRest  BY TaskKnown
<1>2. faults' \in 0 .. MaxFaults /\ faults' # 0
  BY <1>1, TransferAssumption DEF VerifyFails, Fault, TaskRest
<1>3. /\ i \in task[t].todo
      /\ Hook(t, task[t].todo \ {i}, task[t].open, task[t].bad \cup {i})
      /\ UNCHANGED <<kind, src, dst, before, group, manual, restarts>>
  BY DEF VerifyFails
<1> QED  BY <1>2, <1>3, FoundWanting

LEMMA RemoveDirStep ==
  ASSUME IInv, NEW t \in Tasks, NEW i \in Items, RemoveDir(t, i)
  PROVE  IInv'
<1>0. PICK h : h = task[t]  OBVIOUS
<1>1. /\ i \in h.open /\ Children(i) \cap (h.todo \cup h.open) = {}
      /\ UNCHANGED <<kind, dst, before, group, faults, manual, restarts>>
  BY <1>0 DEF RemoveDir
<1>2. /\ h \in Task /\ HookInv(h) /\ SrcInv /\ DstInv /\ TaskRest
      /\ h.todo \subseteq Items /\ h.open \subseteq Items /\ h.bad \subseteq Items
  BY <1>0, TaskKnown
<1>3. h.st \notin Unfinished  BY <1>0, <1>1, HookKnown
<1>4. faults' \in 0 .. MaxFaults /\ (faults' = 0 => faults = 0)  BY <1>1, <1>2 DEF TaskRest
<1>5. CASE Hook(t, h.todo, h.open \ {i}, h.bad \cup {i}) /\ UNCHANGED src
  <2>1. PICK r \in Task :
           /\ task' = [task EXCEPT ![t] = r]
           /\ r.st = h.st /\ r.item = h.item /\ r.group = h.group
           /\ r.left = h.left /\ r.todo = h.todo /\ r.open = h.open \ {i}
           /\ r.bad = h.bad \cup {i} \/ h.todo \cup (h.open \ {i}) = {}
    <3>1. /\ h.todo \in SUBSET Items /\ h.open \ {i} \in SUBSET Items /\ h.bad \cup {i} \in SUBSET Items
          /\ Hook(t, h.todo, h.open \ {i}, h.bad \cup {i})
      BY <1>2, <1>5
    <3> QED  BY <1>0, <3>1, HookFields
  <2>2. HookInv(r)'
    <3>1. HookInv(r)  BY <1>2, <2>1 DEF HookInv
    <3> QED  BY <1>5, <3>1 DEF HookInv, Children
  <2>3. Hooked(t, r)
    BY <1>0, <1>1, <1>3, <1>4, <1>5, <2>1 DEF Hooked
  <2> QED  BY <2>2, <2>3, HookStep
<1>6. CASE /\ Children(i) \cap h.bad = {}
           /\ Hook(t, h.todo, h.open \ {i}, h.bad) /\ src' = Without(src, i)
  <2>1. PICK r \in Task :
           /\ task' = [task EXCEPT ![t] = r]
           /\ r.st = h.st /\ r.item = h.item /\ r.group = h.group
           /\ r.left = h.left /\ r.todo = h.todo /\ r.open = h.open \ {i}
           /\ r.bad = h.bad \/ h.todo \cup (h.open \ {i}) = {}
    <3>1. /\ h.todo \in SUBSET Items /\ h.open \ {i} \in SUBSET Items /\ h.bad \in SUBSET Items
          /\ Hook(t, h.todo, h.open \ {i}, h.bad)
      BY <1>2, <1>6
    <3> QED  BY <1>0, <3>1, HookFields
  <2>2. \A j \in Items : src'[j] = IF i \in Up[j] THEN "none" ELSE src[j]
    BY <1>6 DEF Without, Under
  <2>3. HookInv(r)'
    <3>1. src'[i] = "none"  BY <2>2, TreeFacts
    <3>2. \A c \in Items : src[c] = "none" => src'[c] = "none"  BY <2>2
    <3>3. r.open \subseteq Dirs  BY <1>2, <2>1 DEF HookInv
    <3>4. ASSUME NEW o \in r.open, NEW c \in Children(o)
          PROVE  c \in r.todo \cup r.open \cup r.bad \/ src'[c] = "none"
      <4>1. c \in Items  BY <3>4 DEF Children
      <4>2. c \in h.todo \cup h.open \cup h.bad \/ src[c] = "none"
        BY <1>2, <2>1, <3>4 DEF HookInv
      <4>3. r.bad = h.bad  BY <2>1, <3>4
      <4> QED  BY <2>1, <3>1, <3>2, <4>1, <4>2, <4>3
    <3> QED  BY <3>3, <3>4 DEF HookInv, Children
  <2>4. ASSUME NEW j \in Items \ Dirs, i \in Up[j]  PROVE src[j] = "none"
    <3>1. i \in Dirs  BY <1>1, <1>2 DEF HookInv
    <3>2. PICK c \in Up[j] : c \in Children(i)  BY <2>4, <3>1, TreeFacts
    <3>3. src[c] = "none"  BY <1>1, <1>2, <1>6, <3>2 DEF HookInv
    <3>4. c \in Items /\ j \in Under(c)  BY <3>2, TreeFacts DEF Under
    <3> QED  BY <1>2, <3>3, <3>4 DEF SrcInv
  <2>5. Hooked(t, r)
    BY <1>0, <1>1, <1>3, <1>4, <1>6, <2>1, <2>4 DEF Hooked
  <2> QED  BY <2>3, <2>5, HookStep
<1> QED  BY <1>0, <1>5, <1>6 DEF RemoveDir

-----------------------------------------------------------------------------
(* The theorems                                                            *)

LEMMA InitInv ==
  ASSUME Init  PROVE IInv
<1>1. Tasks = {} /\ task \in Seq(Task) /\ Len(task) = 0
  BY DEF Init, Tasks
<1>2. GroupType
  <2>1. NoGroup \in Group  BY DEF NoGroup, Group
  <2> QED  BY <2>1 DEF Init, GroupType
<1>3. TaskRest  BY TransferAssumption DEF Init, TaskRest
<1>4. TypeOK  BY <1>1, <1>2, <1>3, TypeParts
<1>5. PendingExact
  <2>1. \A g \in Groups : Live(task, g) = {}  BY <1>1 DEF Live
  <2>2. \A g \in Groups : group[g].pending = 0  BY DEF Init, NoGroup
  <2> QED  BY <2>1, <2>2, FS_EmptySet, PendingIsLive
<1>6. SrcInv  BY DEF Init, SrcInv
<1>7. DstInv
  <2>1. \A i \in Items : dst[i] \in {"none", "dir", "old"}  BY DEF Init
  <2> QED  BY <2>1 DEF Init, DstInv
<1>8. NothingLost  BY DEF Init, NothingLost
<1>9. PayInv  BY <1>1 DEF Init, PayInv, NoGroup
<1>10. MoveInv  BY <1>1 DEF MoveInv
<1> QED  BY <1>1, <1>4, <1>5, <1>6, <1>7, <1>8, <1>9, <1>10 DEF IInv

LEMMA StutterInv ==
  ASSUME IInv, UNCHANGED vars  PROVE IInv'
<1> USE DEF vars
<1>1. TypeOK' /\ PendingExact'  BY DEF IInv, TypeOK, PendingExact, Tasks
<1>2. SrcInv' /\ DstInv' /\ NothingLost'  BY StorageSame DEF IInv, StorageInv
<1>3. \A t \in Tasks' : HookInv(task[t])' /\ TaskInv(task[t])'
  BY DEF IInv, HookInv, TaskInv, Tasks
<1>4. PayInv'  BY DEF IInv, PayInv, Tasks
<1>5. MoveInv'  BY DEF IInv, MoveInv, Scope, Coming, Awaited, File, Tasks
<1> QED  BY <1>1, <1>2, <1>3, <1>4, <1>5 DEF IInv

LEMMA StepInv ==
  ASSUME IInv, [Next]_vars  PROVE IInv'
<1>1. CASE UNCHANGED vars  BY <1>1, StutterInv
<1>2. ASSUME NEW i \in Roots, Start(i) \/ StartRequest(i)  PROVE IInv'
  BY <1>2, StartStep
<1>3. CASE Restart  BY <1>3, RestartStep
<1>4. ASSUME NEW t \in Tasks, Step(t) \/ Cancelled(t) \/ ManualRetry(t)  PROVE IInv'
  <2>1. CASE ListDir(t)  BY <2>1, ListDirStep
  <2>2. CASE DirDone(t) \/ OnSucceeded(t) \/ OnFailed(t)  BY <2>2, TaskEnds
  <2>3. CASE CopyFile(t)  BY <2>3, CopyFileStep
  <2>14. CASE CopyBegins(t)
    <3>1. task[t].item \in Items  BY TaskKnown DEF Task
    <3> QED  BY <2>14, <3>1, CopyBeginsStep DEF CopyBegins, Unfinished
  <2>4. CASE Fails(t) \/ Cancelled(t)  BY <2>4, FailsStep
  <2>5. CASE RequestEnds(t)  BY <2>5, RequestEndsStep
  <2>6. CASE ManualRetry(t)  BY <2>6, RetryStep
  <2>7. ASSUME NEW i \in Items, AddChild(t, i)  PROVE IInv'  BY <2>7, AddChildStep
  <2>8. ASSUME NEW i \in Items, RequestDir(t, i)  PROVE IInv'  BY <2>8, RequestDirStep
  <2>9. ASSUME NEW i \in Items, RequestFile(t, i)  PROVE IInv'  BY <2>9, RequestFileStep
  <2>15. ASSUME NEW i \in Items, RequestBegins(t, i)  PROVE IInv'
    BY <2>15, CopyBeginsStep DEF RequestBegins, Unfinished
  <2>10. ASSUME NEW i \in Items, RequestFails(t, i)  PROVE IInv'  BY <2>10, RequestFailsStep
  <2>11. ASSUME NEW i \in Items, Verify(t, i)  PROVE IInv'  BY <2>11, VerifyStep
  <2>12. ASSUME NEW i \in Items, VerifyFails(t, i)  PROVE IInv'  BY <2>12, VerifyFailsStep
  <2>13. ASSUME NEW i \in Items, RemoveDir(t, i)  PROVE IInv'  BY <2>13, RemoveDirStep
  <2> QED
    BY <1>4, <2>1, <2>2, <2>3, <2>4, <2>5, <2>6, <2>7, <2>8, <2>9, <2>10, <2>11, <2>12, <2>13,
       <2>14, <2>15
    DEF Step
<1> QED  BY <1>1, <1>2, <1>3, <1>4 DEF Next, Tasks

\* The inductive invariant holds in every reachable state.
THEOREM Invariance == Spec => []IInv
<1>1. Init => IInv  BY InitInv
<1>2. IInv /\ [Next]_vars => IInv'  BY StepInv
<1> QED  BY <1>1, <1>2, PTL DEF Spec

\* Tasks, groups and storages have their types.
THEOREM TypeCorrect == Spec => []TypeOK
<1>1. IInv => TypeOK  BY DEF IInv
<1> QED  BY <1>1, Invariance, PTL

\* A group's pending count is the number of its tasks that are not over (AddTask, Done,
\* SetRetry), whatever fails, is retried, or is loaded again after a restart.
THEOREM GroupsCountTheirTasks == Spec => []PendingExact
<1>1. IInv => PendingExact  BY DEF IInv
<1> QED  BY <1>1, Invariance, PTL

\* HookAndRemove and verifyAndRemove remove a source only when its files have arrived, or
\* when a file was in their place, or a part of the file is: what a copy that goes on has
\* written, or one that failed has left behind.
THEOREM MovesLoseNothing == Spec => []NothingLost
<1>1. IInv => NothingLost  BY DEF IInv
<1> QED  BY <1>1, Invariance, PTL

\* When every task of a move has succeeded and every hook is over, no file is left at the
\* source: the hook of the group came after the last copy and had every source.
THEOREM MovesComplete == Spec => []MovedAway
<1>1. ASSUME IInv  PROVE MovedAway
  <2> SUFFICES ASSUME kind = "move", restarts = 0,
                      \A t \in Tasks : task[t].st = "ok" /\ task[t].todo \cup task[t].open = {},
                      \A i \in Roots : Started(i),
                      NEW i \in Items \ Dirs, src[i] # "none", ~(faults > 0)
               PROVE  FALSE
    BY DEF MovedAway
  <2>1. faults = 0
    <3>1. faults \in 0 .. MaxFaults  BY <1>1, TypeParts DEF IInv, TaskRest
    <3> QED  BY <3>1
  <2>2. PICK p \in Roots : p \in Up[i]  BY TransferAssumption
  <2>3. PICK t \in Tasks : task[t].item = p  BY DEF Started, Tasks
  <2>4. (\E u \in Tasks : Scope(u, i)) \/ Coming(i)
    BY <1>1, <2>1, <2>2, <2>3 DEF IInv, MoveInv
  <2>5. \A u \in Tasks : ~Scope(u, i)  BY DEF Scope
  <2>6. ASSUME NEW q \in Items, Awaited(q)  PROVE FALSE
    <3>1. PICK g \in Groups : group[g].pending > 0  BY <2>6 DEF Awaited
    <3>2. Live(task, g) = {}  BY DEF Live, Counts, Tasks, Unfinished
    <3>3. group[g].pending = 0  BY <1>1, <3>2, FS_EmptySet, PendingIsLive DEF IInv
    <3> QED  BY <3>1, <3>3
  <2> QED  BY <2>4, <2>5, <2>6, TreeFacts DEF Coming
<1> QED  BY <1>1, Invariance, PTL
=============================================================================
