------------------------------ MODULE FtpStage ------------------------------
(***************************************************************************)
(* server/ftp: an upload without a known length goes to a temp file, which *)
(* a task puts into the storage after the client has closed it.  Until the *)
(* task is over the file is in the stage (upload_stage.go), where clients  *)
(* see, read, rename and remove it.  A rename leaves a soft link to the    *)
(* same file; when the last holder drops the file a callback renames it in *)
(* the storage.  Rights and the FTP protocol are left out.                 *)
(***************************************************************************)
EXTENDS Integers, FiniteSets

CONSTANTS
  Files,      \* uploads, the content each brings
  Dirs, Names,
  Readers,    \* downloads of staged files, finitely many
  NoFile,
  MaxMoves    \* bound: renames of staged files

Paths == Dirs \X Names
NoPath == << >>

ASSUME FtpStageAssumption ==
  /\ NoFile \notin Files
  /\ IsFiniteSet(Readers)
  /\ MaxMoves \in Nat

VARIABLES
  stage,      \* path -> the file its entry leads to, directly or through a soft link
  up,         \* file -> UploadingFile, and where its FileUploadProxy and its task are
  reader,     \* reader -> the path it borrowed, and history: the file it got
  store,      \* path -> the content the storage has there
  disturbed   \* history: contents changed by something that is not their upload

vars == <<stage, up, reader, store, disturbed>>

NewUpload == [close |-> "new", task |-> "none", at |-> NoPath, cur |-> NoPath, links |-> {},
              ref |-> 0, cb |-> FALSE, stop |-> FALSE, put |-> FALSE, mv |-> "none", via |-> NoPath]
Idle == [path |-> NoPath, file |-> NoFile]

Upload == [close : {"new", "open", "made", "tasked", "done", "refused"},
           task : {"none", "queued", "closing", "over"}, at : Paths \cup {NoPath},
           cur : Paths \cup {NoPath}, links : SUBSET Paths, ref : Nat, cb : BOOLEAN,
           stop : BOOLEAN, put : BOOLEAN, mv : {"none", "rename", "move", "done", "failed"}, via : Paths \cup {NoPath}]

TypeOK ==
  /\ stage \in [Paths -> Files \cup {NoFile}]
  /\ up \in [Files -> Upload]
  /\ reader \in [Readers -> [path : Paths \cup {NoPath}, file : Files \cup {NoFile}]]
  /\ store \in [Paths -> Files \cup {NoFile}]
  /\ disturbed \subseteq Files

Init ==
  /\ stage = [p \in Paths |-> NoFile]
  /\ up = [f \in Files |-> NewUpload]
  /\ reader = [r \in Readers |-> Idle]
  /\ store = [p \in Paths |-> NoFile]
  /\ disturbed = {}

\* The storage becomes s; own: the file on whose behalf.
Change(s, own) ==
  /\ store' = s
  /\ disturbed' = disturbed \cup
       {g \in Files \ {own} : \E p \in Paths : store[p] = g /\ s[p] # g}

\* A storage moves what it has at one path to another.
Moved(from, to) == [store EXCEPT ![to] = store[from], ![from] = NoFile]

Staged(p) == stage[p] # NoFile
\* Borrow, StatStage, MoveStage and RemoveStage find the file under this name.
Shown(p) == Staged(p) /\ up[stage[p]].cur = p

\* Bug: the soft links stay.
BugDrop(u, path) ==
  LET f == stage[path]
      last == Staged(path) /\ u[f].ref = 1
  IN /\ up' = IF ~Staged(path) THEN u
              ELSE [u EXCEPT ![f].ref = @ - 1,
                             ![f].via = IF last THEN path ELSE @,
                             ![f].mv = IF last /\ u[f].cur \notin {path, NoPath} THEN "rename" ELSE @]
     /\ stage' = IF last THEN [stage EXCEPT ![path] = NoFile] ELSE stage

\* Bug: the callback is not called.
BugDropNoMove(u, path) ==
  LET f == stage[path]
      last == Staged(path) /\ u[f].ref = 1
  IN /\ up' = IF ~Staged(path) THEN u
              ELSE [u EXCEPT ![f].ref = @ - 1, ![f].via = IF last THEN path ELSE @]
     /\ stage' = IF last THEN [p \in Paths |-> IF p \in u[f].links \cup {path} THEN NoFile ELSE stage[p]]
                 ELSE stage

\* The upload after a drop of the handle that knows it as path
Dropped(v, path) ==
  LET last == v.ref = 1 IN
  [v EXCEPT !.ref = @ - 1,
            !.via = IF last THEN path ELSE @,
            !.mv = IF last /\ v.cur \notin {path, NoPath} THEN "rename" ELSE @]

\* drop; u: the uploads after what else the step does.
Drop(u, path) ==
  LET f == stage[path]
      last == Staged(path) /\ u[f].ref = 1
  IN /\ up' = IF ~Staged(path) THEN u ELSE [u EXCEPT ![f] = Dropped(u[f], path)]
     /\ stage' = IF last THEN [p \in Paths |-> IF p \in u[f].links \cup {path} THEN NoFile ELSE stage[p]]
                 ELSE stage

-----------------------------------------------------------------------------
(* An upload: GetHandle, OpenUpload, FileUploadProxy.Close                 *)

Open(f, p) ==
  /\ up[f].close = "new" /\ ~Staged(p)
  /\ up' = [up EXCEPT ![f] = [@ EXCEPT !.close = "open", !.at = p]]
  /\ UNCHANGED <<stage, reader, store, disturbed>>

\* MakeStage
MakeStage(f) ==
  LET p == up[f].at IN
  /\ up[f].close = "open"
  /\ IF Staged(p)
     THEN /\ up' = [up EXCEPT ![f].close = "refused"]
          /\ UNCHANGED stage
     ELSE /\ up' = [up EXCEPT ![f] = [@ EXCEPT !.close = "made", !.ref = 1, !.cur = p]]
          /\ stage' = [stage EXCEPT ![p] = f]
  /\ UNCHANGED <<reader, store, disturbed>>

\* What the upload replaces is removed, if the client asked for it and the storage can;
\* PutAsTask.
Submit(f) ==
  /\ up[f].close = "made"
  /\ up' = [up EXCEPT ![f] = [@ EXCEPT !.close = "tasked", !.task = "queued"]]
  /\ \/ UNCHANGED <<store, disturbed>>
     \/ Change([store EXCEPT ![up[f].at] = NoFile], f)
  /\ UNCHANGED <<stage, reader>>

\* PutAsTask fails and the stream is closed, the upload's own handle with it.
SubmitFails(f) ==
  /\ up[f].close = "made"
  /\ Drop([up EXCEPT ![f] = [@ EXCEPT !.close = "refused", !.task = "over"]], up[f].at)
  /\ \/ UNCHANGED <<store, disturbed>>
     \/ Change([store EXCEPT ![up[f].at] = NoFile], f)
  /\ UNCHANGED reader

SetRemoveCallback(f) ==
  /\ up[f].close = "tasked"
  /\ up' = [up EXCEPT ![f] = [@ EXCEPT !.close = "done", !.cb = TRUE]]
  /\ UNCHANGED <<stage, reader, store, disturbed>>

\* op.Put writes the file under its first name; a cancelled task may succeed yet.
TaskPuts(f) ==
  /\ up[f].task = "queued"
  /\ up' = [up EXCEPT ![f] = [@ EXCEPT !.task = "closing", !.put = TRUE]]
  /\ Change([store EXCEPT ![up[f].at] = f], f)
  /\ UNCHANGED <<stage, reader>>

\* The stream is closed all the same.
TaskFails(f) ==
  /\ up[f].task = "queued"
  /\ Drop([up EXCEPT ![f].task = "over"], up[f].at)
  /\ UNCHANGED <<reader, store, disturbed>>

\* op.Put closes the stream.
TaskCloses(f) ==
  /\ up[f].task = "closing"
  /\ Drop([up EXCEPT ![f].task = "over"], up[f].at)
  /\ UNCHANGED <<reader, store, disturbed>>

-----------------------------------------------------------------------------
(* Clients meet a staged file: GetHandle, Rename, Remove                   *)

\* Bug: the reader's handle is not counted.
BugBorrow(r, p) ==
  /\ reader[r] = Idle /\ Shown(p)
  /\ reader' = [reader EXCEPT ![r] = [path |-> p, file |-> stage[p]]]
  /\ UNCHANGED <<stage, up, store, disturbed>>

\* Also for a client that wants to write: it is refused, and the handle is never closed.
Borrow(r, p) ==
  /\ reader[r] = Idle /\ Shown(p)
  /\ reader' = [reader EXCEPT ![r] = [path |-> p, file |-> stage[p]]]
  /\ up' = [up EXCEPT ![stage[p]].ref = @ + 1]
  /\ UNCHANGED <<stage, store, disturbed>>

ReaderCloses(r) ==
  /\ reader[r] # Idle
  /\ reader' = [reader EXCEPT ![r] = Idle]
  /\ Drop(up, reader[r].path)
  /\ UNCHANGED <<store, disturbed>>

\* Renames of staged files so far.
Moves == Cardinality({m \in Files \X Paths : m[2] \in up[m[1]].links})

\* moveStage on the UploadingFile
MovedTo(v, q) == [v EXCEPT !.cur = q, !.links = @ \cup {q}]

MoveStage(p, q) ==
  /\ Shown(p) /\ ~Staged(q) /\ Moves < MaxMoves
  /\ stage' = [stage EXCEPT ![q] = stage[p]]
  /\ up' = [up EXCEPT ![stage[p]] = MovedTo(up[stage[p]], q)]
  /\ UNCHANGED <<reader, store, disturbed>>

\* The callback cancels the task, if it has been set.
RemoveStage(p) ==
  /\ Shown(p)
  /\ up' = [up EXCEPT ![stage[p]] = [@ EXCEPT !.cur = NoPath, !.stop = up[stage[p]].cb]]
  /\ UNCHANGED <<stage, reader, store, disturbed>>

\* A name that is not staged is the storage's.
RenameStored(p, q) ==
  /\ ~Staged(p) /\ store[p] # NoFile /\ p # q
  /\ Change(Moved(p, q), NoFile)
  /\ UNCHANGED <<stage, up, reader>>

RemoveStored(p) ==
  /\ ~Staged(p) /\ store[p] # NoFile
  /\ Change([store EXCEPT ![p] = NoFile], NoFile)
  /\ UNCHANGED <<stage, up, reader>>

-----------------------------------------------------------------------------
(* mvCallback, in a goroutine of its own                                   *)

\* The first rename's target: the new name in the old directory.
Halfway(f) == <<up[f].at[1], up[f].cur[2]>>

\* What a step of the callback leads to.
NextMv(f) == IF up[f].mv = "rename" /\ Halfway(f) # up[f].cur THEN "move" ELSE "done"

\* A step of the callback moves from to to, if there is something and the storage can.
MvStep(f, from, to) ==
  \/ /\ from = to
     /\ up' = [up EXCEPT ![f].mv = NextMv(f)]
     /\ UNCHANGED <<store, disturbed>>
  \/ /\ from # to /\ store[from] # NoFile
     /\ up' = [up EXCEPT ![f].mv = NextMv(f)]
     /\ Change(Moved(from, to), f)
  \/ /\ from # to
     /\ up' = [up EXCEPT ![f].mv = "failed"]
     /\ UNCHANGED <<store, disturbed>>

\* fs.Rename in the file's first directory; no call if the name is the same.
MvRename(f) ==
  /\ up[f].mv = "rename"
  /\ MvStep(f, up[f].at, Halfway(f))
  /\ UNCHANGED <<stage, reader>>

\* fs.Move to the other directory.
MvMove(f) ==
  /\ up[f].mv = "move"
  /\ MvStep(f, Halfway(f), up[f].cur)
  /\ UNCHANGED <<stage, reader>>

Next ==
  \/ \E f \in Files :
       \/ \E p \in Paths : Open(f, p)
       \/ MakeStage(f) \/ Submit(f) \/ SubmitFails(f) \/ SetRemoveCallback(f)
       \/ TaskPuts(f) \/ TaskFails(f) \/ TaskCloses(f)
       \/ MvRename(f) \/ MvMove(f)
  \/ \E r \in Readers : ReaderCloses(r) \/ \E p \in Paths : Borrow(r, p)
  \/ \E p \in Paths : RemoveStage(p) \/ RemoveStored(p)
  \/ \E p, q \in Paths : MoveStage(p, q) \/ RenameStored(p, q)

Spec == Init /\ [][Next]_vars

-----------------------------------------------------------------------------
(* Properties                                                              *)

\* The handle the upload itself holds.
OwnHandle(f) == up[f].close \in {"made", "tasked", "done"} /\ up[f].task # "over"

\* The open handles of a file.
Handles(f) == Cardinality({r \in Readers : reader[r].file = f}) + IF OwnHandle(f) THEN 1 ELSE 0

\* drop finds a file by the name it was borrowed under, long after it may have been
\* renamed or removed: the name still leads to that file, so that every drop counts
\* down what its Borrow counted up, and no handle outlives its file.
DropsItsOwn ==
  /\ \A r \in Readers : reader[r] # Idle => stage[reader[r].path] = reader[r].file
  /\ \A f \in Files : OwnHandle(f) => stage[up[f].at] = f
  /\ \A f \in Files : up[f].ref = Handles(f)

\* A name is free again when the file has no holder: else it was left by drop, which
\* deletes the soft links and the name it was called with, but not the first name
\* when the last holder knew the file by another.
NamesFreed ==
  \A p \in Paths : Staged(p) =>
    LET f == stage[p] IN
    \/ up[f].ref > 0
    \/ p = up[f].at /\ up[f].via \in up[f].links

\* A file that was renamed while it was uploaded is in the storage under the new name
\* when everybody is done with it: unless it had been removed, the storage refused, its
\* content was changed there by others (a later upload of the old name, say), or its
\* last holder had borrowed it under the new name (drop calls mvCallback only if the
\* names differ).
RenameLands ==
  \A f \in Files :
    /\ up[f].put /\ up[f].task = "over" /\ up[f].ref = 0
    /\ up[f].mv \in {"none", "done"}
    /\ up[f].cur # NoPath /\ f \notin disturbed
    /\ up[f].via \in {up[f].at} \cup (up[f].links \ {up[f].cur})
    => store[up[f].cur] = f
=============================================================================
