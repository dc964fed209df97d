---------------------------- MODULE FtpStageProofs ----------------------------
(***************************************************************************)
(* Theorems about the staged uploads of FtpStage, for any number of        *)
(* uploads, names, readers and renames.                                    *)
(***************************************************************************)
EXTENDS FtpStage, FiniteSetTheorems, TLAPS

\* Nothing of the upload is in the stage yet, or MakeStage refused it.
Fresh(f) == up[f].close \in {"new", "open"} \/ (up[f].close = "refused" /\ up[f].task = "none")

\* An upload, its names in the stage and its handles.
UploadInv(f) ==
  LET u == up[f] IN
  /\ u.close # "new" => u.at \in Paths
  /\ u.close \in {"new", "open", "made"} => u.task = "none"
  /\ u.close \in {"tasked", "done"} => u.task # "none"
  /\ u.close = "refused" => u.task \in {"none", "over"}
  /\ Fresh(f) => u.links = {} /\ u.cur = NoPath /\ u.mv = "none" /\ ~u.put
  /\ u.cur \in u.links \cup {u.at, NoPath}
  /\ u.at \notin u.links /\ (u.links # {} => u.cur # u.at)
  /\ u.ref > 0 => ~Fresh(f) /\ \A p \in Paths : stage[p] = f <=> p \in u.links \cup {u.at}
  /\ u.ref = 0 => \A p \in Paths : stage[p] = f => p = u.at /\ u.via \in u.links
  /\ u.mv # "none" => u.ref = 0 /\ u.cur \in Paths
  /\ u.ref = 0 /\ u.task = "over" /\ u.mv = "none" => u.cur \in {u.via, NoPath}
  /\ u.put => u.task \in {"closing", "over"}
  /\ u.ref = Handles(f)

\* A download that is under way.
ReaderInv(r) ==
  \/ reader[r] = Idle
  \/ /\ reader[r].path \in Paths /\ reader[r].file \in Files
     /\ stage[reader[r].path] = reader[r].file

\* Where the storage has the file, unless somebody else has changed it.
StoreInv(f) ==
  up[f].put /\ f \notin disturbed =>
    /\ up[f].mv \in {"none", "rename"} => store[up[f].at] = f
    /\ up[f].mv = "move" => store[Halfway(f)] = f
    /\ up[f].mv = "done" => store[up[f].cur] = f

\* The inductive invariant.
IInv == /\ TypeOK
        /\ \A f \in Files : UploadInv(f) /\ StoreInv(f)
        /\ \A r \in Readers : ReaderInv(r)

-----------------------------------------------------------------------------
(* Facts                                                                   *)

Holding(rd, f) == {r \in Readers : rd[r].file = f}

LEMMA NoPathIsNone == NoPath \notin Paths
BY DEF NoPath, Paths

\* The downloads of a file are finitely many.
LEMMA HoldingFinite ==
  ASSUME NEW rd, NEW f
  PROVE  /\ IsFiniteSet(Holding(rd, f)) /\ Cardinality(Holding(rd, f)) \in Nat
         /\ Cardinality(Holding(rd, f)) = 0 => \A r \in Readers : rd[r].file # f
<1>1. IsFiniteSet(Holding(rd, f))
  BY FS_Subset, FtpStageAssumption DEF Holding
<1>2. Cardinality(Holding(rd, f)) \in Nat /\ (Cardinality(Holding(rd, f)) = 0 <=> Holding(rd, f) = {})
  BY <1>1, FS_CardinalityType, FS_EmptySet
<1>3. Holding(rd, f) = {} => \A r \in Readers : rd[r].file # f
  BY DEF Holding
<1> HIDE DEF Holding
<1> QED  BY <1>1, <1>2, <1>3

\* The handles of a file are a number, and none of them is open when it is 0.
LEMMA HandlesCount ==
  ASSUME NEW f
  PROVE  /\ Handles(f) = Cardinality(Holding(reader, f)) + IF OwnHandle(f) THEN 1 ELSE 0
         /\ Handles(f)' = Cardinality(Holding(reader', f)) + IF OwnHandle(f)' THEN 1 ELSE 0
         /\ Handles(f) \in Nat /\ Handles(f)' \in Nat
         /\ Handles(f) = 0 => ~OwnHandle(f) /\ \A r \in Readers : reader[r].file # f
         /\ Handles(f)' = 0 => ~OwnHandle(f)' /\ \A r \in Readers : reader'[r].file # f
<1>1. Handles(f) = Cardinality(Holding(reader, f)) + IF OwnHandle(f) THEN 1 ELSE 0
  BY DEF Handles, Holding
<1>2. Handles(f)' = Cardinality(Holding(reader', f)) + IF OwnHandle(f)' THEN 1 ELSE 0
  BY DEF Handles, Holding
<1>3. /\ Cardinality(Holding(reader, f)) \in Nat /\ Cardinality(Holding(reader', f)) \in Nat
      /\ Cardinality(Holding(reader, f)) = 0 => \A r \in Readers : reader[r].file # f
      /\ Cardinality(Holding(reader', f)) = 0 => \A r \in Readers : reader'[r].file # f
  BY HoldingFinite
<1> QED  BY <1>1, <1>2, <1>3

\* The handles of a file whose readers and whose upload go on as before.
LEMMA HandlesKept ==
  ASSUME NEW f, OwnHandle(f)' <=> OwnHandle(f),
         \A r \in Readers : reader'[r].file = f <=> reader[r].file = f
  PROVE  Handles(f)' = Handles(f)
<1>1. {r \in Readers : reader[r].file = f}' = {r \in Readers : reader[r].file = f}
  OBVIOUS
<1> QED  BY <1>1 DEF Handles

LEMMA IdleHasNoFile == Idle.file \notin Files /\ Idle.path = NoPath
BY FtpStageAssumption DEF Idle

LEMMA DroppedFields ==
  ASSUME NEW v \in Upload, NEW path
  PROVE  LET w == Dropped(v, path) IN
         /\ w.ref = v.ref - 1
         /\ w.via = IF v.ref = 1 THEN path ELSE v.via
         /\ w.mv = IF v.ref = 1 /\ v.cur \notin {path, NoPath} THEN "rename" ELSE v.mv
         /\ w.close = v.close /\ w.task = v.task /\ w.at = v.at /\ w.cur = v.cur
         /\ w.links = v.links /\ w.put = v.put
         /\ v.ref > 0 /\ path \in Paths => w \in Upload
<1>1. LET w == Dropped(v, path) IN
         /\ w.ref = v.ref - 1
         /\ w.via = IF v.ref = 1 THEN path ELSE v.via
         /\ w.mv = IF v.ref = 1 /\ v.cur \notin {path, NoPath} THEN "rename" ELSE v.mv
         /\ w.close = v.close /\ w.task = v.task /\ w.at = v.at /\ w.cur = v.cur
         /\ w.links = v.links /\ w.put = v.put
  BY DEF Dropped, Upload
<1>2. ASSUME v.ref > 0, path \in Paths  PROVE Dropped(v, path) \in Upload
  <2>2. v.ref - 1 \in Nat  BY <1>2 DEF Upload
  <2> DEFINE q == IF v.ref = 1 THEN path ELSE v.via
             m == IF v.ref = 1 /\ v.cur \notin {path, NoPath} THEN "rename" ELSE v.mv
  <2>3. q \in Paths \cup {NoPath} /\ m \in {"none", "rename", "move", "done", "failed"}
    BY <1>2 DEF Upload
  <2>4. Dropped(v, path) = [v EXCEPT !.ref = v.ref - 1, !.via = q, !.mv = m]
    BY DEF Dropped
  <2> HIDE DEF q, m
  <2>5. [v EXCEPT !.ref = v.ref - 1, !.via = q, !.mv = m] \in Upload
    BY <2>2, <2>3 DEF Upload
  <2> QED  BY <2>4, <2>5
<1> QED  BY <1>1, <1>2

-----------------------------------------------------------------------------
(* Steps                                                                   *)

\* What does not concern an upload leaves it and its names alone.
LEMMA UploadKept ==
  ASSUME NEW f \in Files, UploadInv(f), up'[f] = up[f],
         \A p \in Paths : stage'[p] = f <=> stage[p] = f,
         \A r \in Readers : reader'[r].file = f <=> reader[r].file = f
  PROVE  UploadInv(f)'
<1>1. (OwnHandle(f)' <=> OwnHandle(f)) /\ (Fresh(f)' <=> Fresh(f))
  BY DEF OwnHandle, Fresh
<1>2. Handles(f)' = Handles(f)  BY <1>1, HandlesKept
<1> QED  BY <1>1, <1>2 DEF UploadInv

\* A change of the storage on behalf of another file does not concern this one, or counts
\* as a disturbance.
LEMMA StoreKept ==
  ASSUME TypeOK, NEW f \in Files, UploadInv(f), StoreInv(f), up'[f] = up[f],
         UNCHANGED <<store, disturbed>> \/ \E s, own : Change(s, own) /\ own # f
  PROVE  StoreInv(f)'
<1>1. Halfway(f)' = Halfway(f)  BY DEF Halfway
<1>2. CASE UNCHANGED <<store, disturbed>>
  BY <1>1, <1>2 DEF StoreInv
<1>3. ASSUME NEW s, NEW own, Change(s, own), own # f  PROVE StoreInv(f)'
  <2> SUFFICES ASSUME up[f].put, f \notin disturbed'
               PROVE  StoreInv(f)'
    BY DEF StoreInv
  <2>1. f \notin disturbed /\ \A p \in Paths : store[p] = f => store'[p] = f
    BY <1>3 DEF Change
  <2>2. up[f].at \in Paths /\ up[f] \in Upload
    BY DEF UploadInv, TypeOK, Fresh
  <2>3. up[f].mv # "none" => up[f].cur \in Paths /\ Halfway(f) \in Paths
    BY <2>2 DEF UploadInv, Halfway, Paths
  <2> QED  BY <1>1, <2>1, <2>2, <2>3 DEF StoreInv
<1> QED  BY <1>2, <1>3

\* One upload's record changes, its names and handles do not.
LEMMA RecordStep ==
  ASSUME IInv, NEW f \in Files, NEW v \in Upload, up' = [up EXCEPT ![f] = v], UNCHANGED <<stage, reader>>,
         v.at = up[f].at \/ up[f].close = "new", v.links = up[f].links, v.ref = up[f].ref,
         v.via = up[f].via,
         v.cur = up[f].cur \/ (v.cur = NoPath /\ ~Fresh(f) /\ up[f].mv = "none"),
         v.mv = up[f].mv \/ (up[f].mv # "none" /\ v.mv # "none"),
         v.close # "new", v.at \in Paths,
         v.close \in {"open", "made"} => v.task = "none",
         v.close \in {"tasked", "done"} => v.task # "none",
         v.close = "refused" => v.task \in {"none", "over"},
         v.close = "open" \/ (v.close = "refused" /\ v.task = "none") => Fresh(f) /\ ~v.put,
         ~Fresh(f) => v.close # "open" /\ ~(v.close = "refused" /\ v.task = "none"),
         v.put => v.task \in {"closing", "over"},
         v.task = "over" => up[f].task = "over",
         OwnHandle(f)' <=> OwnHandle(f)
  PROVE  /\ up' \in [Files -> Upload]
         /\ \A g \in Files : UploadInv(g)'
         /\ \A r \in Readers : ReaderInv(r)'
<1>1. up \in [Files -> Upload] /\ \A g \in Files : UploadInv(g)  BY DEF IInv, TypeOK
<1>2. up'[f] = v /\ \A g \in Files : g # f => up'[g] = up[g]  BY <1>1
<1>3. \A g \in Files : g # f => UploadInv(g)'  BY <1>1, <1>2, UploadKept
<1>4. \A r \in Readers : ReaderInv(r)'  BY DEF IInv, ReaderInv
<1>5. Handles(f)' = Handles(f)  BY HandlesKept
<1>6. Fresh(f)' => Fresh(f)  BY <1>2 DEF Fresh
<1>7. Fresh(f) => up[f].links = {} /\ up[f].ref = 0 /\ up[f].mv = "none" /\ up[f].cur = NoPath
  BY <1>1 DEF UploadInv, Upload
<1>8. UploadInv(f)'
  <2> DEFINE u == up[f]
  <2>1. u.close = "new" => Fresh(f)  BY DEF Fresh
  <2>2. UploadInv(f) /\ u \in Upload  BY <1>1
  <2>3. Fresh(f)' <=> v.close = "open" \/ (v.close = "refused" /\ v.task = "none")
    BY <1>2 DEF Fresh
  <2>4. Handles(f)' = Handles(f) /\ UNCHANGED stage /\ NoPath \notin Paths
    BY <1>5, NoPathIsNone
  <2>5. CASE Fresh(f)
    <3>1. /\ v.links = {} /\ v.ref = 0 /\ v.mv = "none" /\ v.cur = NoPath
          /\ \A p \in Paths : stage[p] # f
      BY <1>7, <2>2, <2>5 DEF UploadInv
    <3>2. v.task # "over" \/ v.cur = NoPath  BY <3>1
    <3> QED  BY <1>2, <2>2, <2>3, <2>4, <3>1, <3>2 DEF UploadInv
  <2>6. CASE ~Fresh(f)
    <3>1. v.at = u.at /\ ~Fresh(f)'  BY <1>6, <2>1, <2>6
    <3>2. v.cur \in v.links \cup {v.at, NoPath} /\ v.at \notin v.links /\ (v.links # {} => v.cur # v.at)
      BY <2>2, <2>4, <3>1 DEF UploadInv
    <3>3. /\ v.ref > 0 => \A p \in Paths : stage'[p] = f <=> p \in v.links \cup {v.at}
          /\ v.ref = 0 => \A p \in Paths : stage'[p] = f => p = v.at /\ v.via \in v.links
      BY <2>2, <2>4, <2>6, <3>1 DEF UploadInv
    <3>4. /\ v.mv # "none" => v.ref = 0 /\ v.cur \in Paths
          /\ v.ref = 0 /\ v.task = "over" /\ v.mv = "none" => v.cur \in {v.via, NoPath}
          /\ v.ref = Handles(f)'
      BY <2>2, <2>4, <2>6 DEF UploadInv
    <3> HIDE DEF u
    <3> QED  BY <1>2, <2>3, <2>4, <3>1, <3>2, <3>3, <3>4 DEF UploadInv
  <2> QED  BY <2>5, <2>6
<1> QED  BY <1>1, <1>2, <1>3, <1>4, <1>8

\* A handle is dropped that knows the file by one of its names.
LEMMA DropStep ==
  ASSUME IInv, NEW f \in Files, NEW path \in Paths, stage[path] = f,
         NEW v \in Upload, NEW u, u = [up EXCEPT ![f] = v], Drop(u, path),
         v.at = up[f].at, v.links = up[f].links, v.ref = up[f].ref, v.via = up[f].via,
         v.cur = up[f].cur, v.mv = up[f].mv, v.put = up[f].put,
         v.close = up[f].close \/ v.close = "refused",
         v.task = up[f].task \/ v.task = "over",
         v.close \in {"tasked", "done"} => v.task # "none",
         v.close = "refused" => v.task = "over",
         v.close = "made" => v.task = "none",
         Handles(f)' = Handles(f) - 1,
         \A g \in Files \ {f}, r \in Readers : reader'[r].file = g <=> reader[r].file = g
  PROVE  /\ up' \in [Files -> Upload] /\ stage' \in [Paths -> Files \cup {NoFile}]
         /\ \A g \in Files : UploadInv(g)'
         /\ \A p \in Paths : stage'[p] = stage[p] \/ (stage[p] = f /\ Handles(f)' = 0)
         /\ \A g \in Files \ {f} : up'[g] = up[g]
         /\ up'[f].put = up[f].put /\ up'[f].at = up[f].at /\ up'[f].cur = up[f].cur
         /\ up[f].mv = "none" /\ up'[f].mv \in {"none", "rename"}
<1> DEFINE w == Dropped(v, path)  last == up[f].ref = 1
<1>1. /\ up \in [Files -> Upload] /\ stage \in [Paths -> Files \cup {NoFile}]
      /\ \A g \in Files : UploadInv(g)
      /\ NoFile \notin Files /\ NoPath \notin Paths
  BY FtpStageAssumption, NoPathIsNone DEF IInv, TypeOK
<1>2. Handles(f) \in Nat /\ Handles(f)' \in Nat  BY HandlesCount
<1>3. up[f].ref > 0 /\ up[f].ref = Handles(f) /\ up[f].ref \in Nat
  BY <1>1, <1>2 DEF UploadInv
<1>4. u[f] = v /\ Staged(path)
  BY <1>1 DEF Staged
<1>5. /\ up' = [u EXCEPT ![f] = w]
      /\ ~last => stage' = stage
      /\ last => /\ stage' \in [Paths -> Files \cup {NoFile}]
                 /\ \A p \in Paths : stage'[p] = IF p \in up[f].links \cup {path} THEN NoFile ELSE stage[p]
  <2>1. /\ up' = [u EXCEPT ![stage[path]] = Dropped(u[stage[path]], path)]
        /\ stage' = IF u[stage[path]].ref = 1
                    THEN [p \in Paths |-> IF p \in u[stage[path]].links \cup {path} THEN NoFile ELSE stage[p]]
                    ELSE stage
    BY <1>4 DEF Drop
  <2>2. u[stage[path]].ref = 1 <=> last  BY <1>4
  <2>3. u[stage[path]].links = up[f].links  BY <1>4
  <2> QED  BY <1>1, <1>4, <2>1, <2>2, <2>3
<1>6. /\ w.ref = v.ref - 1
      /\ w.via = IF v.ref = 1 THEN path ELSE v.via
      /\ w.mv = IF v.ref = 1 /\ v.cur \notin {path, NoPath} THEN "rename" ELSE v.mv
      /\ w.close = v.close /\ w.task = v.task /\ w.at = v.at /\ w.cur = v.cur
      /\ w.links = v.links /\ w.put = v.put
      /\ w \in Upload
  BY <1>3, DroppedFields
<1> HIDE DEF w
<1>7. up'[f] = w /\ (\A g \in Files \ {f} : up'[g] = up[g]) /\ up' \in [Files -> Upload]
  BY <1>1, <1>5, <1>6
<1>8. /\ ~Fresh(f) /\ \A p \in Paths : stage[p] = f <=> p \in up[f].links \cup {up[f].at}
      /\ up[f].mv = "none" /\ up[f].at \in Paths /\ up[f].links \subseteq Paths
      /\ up[f].close \notin {"new", "open"}
  BY <1>1, <1>3 DEF UploadInv, Upload, Fresh
<1>9. /\ stage' \in [Paths -> Files \cup {NoFile}]
      /\ \A p \in Paths : stage'[p] = stage[p] \/ (stage[p] = f /\ last /\ stage'[p] = NoFile)
      /\ last => \A p \in Paths : stage'[p] = f => p = up[f].at /\ path \in up[f].links
      /\ ~last => stage' = stage
  BY <1>1, <1>5, <1>8
<1>10. ASSUME NEW g \in Files, g # f  PROVE UploadInv(g)'
  <2>1. \A p \in Paths : stage'[p] = g <=> stage[p] = g  BY <1>1, <1>9, <1>10
  <2> QED  BY <1>1, <1>7, <1>10, <2>1, UploadKept
<1>11. UploadInv(f)'
  <2>1. ~Fresh(f)' /\ w.close \notin {"new", "open"}
    BY <1>6, <1>7, <1>8 DEF Fresh
  <2>2. /\ w.close \in {"new", "open", "made"} => w.task = "none"
        /\ w.close \in {"tasked", "done"} => w.task # "none"
        /\ w.close = "refused" => w.task = "over"
        /\ w.put => w.task \in {"closing", "over"}
    BY <1>1, <1>6, <2>1 DEF UploadInv
  <2>3. /\ w.cur \in w.links \cup {w.at, NoPath}
        /\ w.at \notin w.links /\ (w.links # {} => w.cur # w.at)
    BY <1>1, <1>6 DEF UploadInv
  <2>4. w.ref = Handles(f)'  BY <1>3, <1>6
  <2>5. CASE last
    <3>1. w.ref = 0 /\ w.via = path  BY <1>6, <2>5
    <3>2. w.mv # "none" => w.cur \in Paths
      BY <1>6, <1>8, <2>3, <2>5
    <3>3. w.mv = "none" => w.cur \in {w.via, NoPath}
      BY <1>6, <1>8, <2>5
    <3>4. \A p \in Paths : stage'[p] = f => p = w.at /\ w.via \in w.links
      BY <1>6, <1>9, <2>5, <3>1
    <3> QED  BY <1>6, <1>7, <1>8, <2>1, <2>2, <2>3, <2>4, <3>1, <3>2, <3>3, <3>4 DEF UploadInv
  <2>6. CASE ~last
    <3>1. w.ref > 0 /\ w.mv = "none"  BY <1>3, <1>6, <1>8, <2>6
    <3>2. \A p \in Paths : stage'[p] = f <=> p \in w.links \cup {w.at}
      BY <1>6, <1>8, <1>9, <2>6
    <3> QED  BY <1>6, <1>7, <1>8, <2>1, <2>2, <2>3, <2>4, <3>1, <3>2 DEF UploadInv
  <2> QED  BY <2>5, <2>6
<1>12. last => Handles(f)' = 0  BY <1>3
<1> QED  BY <1>6, <1>7, <1>8, <1>9, <1>10, <1>11, <1>12

\* No download loses its name by a drop: the file it reads has a handle.
LEMMA DropReaders ==
  ASSUME IInv, NEW f \in Files,
         \A p \in Paths : stage'[p] = stage[p] \/ (stage[p] = f /\ Handles(f)' = 0),
         \A r \in Readers : reader'[r] \in {reader[r], Idle}
  PROVE  \A r \in Readers : ReaderInv(r)'
<1> TAKE r \in Readers
<1>1. CASE reader'[r] = Idle  BY <1>1 DEF ReaderInv
<1>2. CASE reader'[r] = reader[r] /\ reader[r] # Idle
  <2>1. /\ reader[r].path \in Paths /\ reader[r].file \in Files
        /\ stage[reader[r].path] = reader[r].file
    BY <1>2 DEF IInv, ReaderInv
  <2>2. reader[r].file = f => Handles(f)' # 0  BY <1>2, HandlesCount
  <2>3. stage'[reader[r].path] = reader[r].file  BY <2>1, <2>2
  <2> QED  BY <1>2, <2>1, <2>3 DEF ReaderInv
<1> QED  BY <1>1, <1>2

\* The upload's own handle is dropped.
LEMMA OwnDrop ==
  ASSUME IInv, NEW f \in Files, OwnHandle(f), UNCHANGED reader,
         NEW v \in Upload, NEW u, u = [up EXCEPT ![f] = v], Drop(u, up[f].at),
         v.at = up[f].at, v.links = up[f].links, v.ref = up[f].ref, v.via = up[f].via,
         v.cur = up[f].cur, v.mv = up[f].mv, v.put = up[f].put,
         v.close = up[f].close \/ v.close = "refused", v.task = "over", v.close # "made"
  PROVE  /\ up' \in [Files -> Upload] /\ stage' \in [Paths -> Files \cup {NoFile}]
         /\ \A g \in Files : UploadInv(g)'
         /\ \A r \in Readers : ReaderInv(r)'
         /\ \A g \in Files \ {f} : up'[g] = up[g]
         /\ up'[f].put = up[f].put /\ up'[f].at = up[f].at /\ up'[f].cur = up[f].cur
         /\ up[f].mv = "none" /\ up'[f].mv \in {"none", "rename"}
<1> DEFINE path == up[f].at
<1>1. /\ up \in [Files -> Upload] /\ UploadInv(f) /\ up[f].ref \in Nat
      /\ stage \in [Paths -> Files \cup {NoFile}]
  BY DEF IInv, TypeOK, Upload
<1>2. up[f].ref > 0
  <2>1. Handles(f) # 0  BY HandlesCount
  <2> QED  BY <1>1, <2>1 DEF UploadInv
<1>3. path \in Paths /\ stage[path] = f
  BY <1>1, <1>2 DEF UploadInv, Fresh
<1> DEFINE w == Dropped(v, path)
<1>4. /\ up'[f] = w /\ \A g \in Files \ {f} : up'[g] = up[g]
      /\ w.task = "over" /\ w.put = up[f].put /\ w.at = up[f].at /\ w.cur = up[f].cur
      /\ up[f].mv = "none" /\ w.mv \in {"none", "rename"}
  <2>1. u[f] = v /\ Staged(path) /\ stage[path] = f
    BY <1>1, <1>3, FtpStageAssumption DEF Staged
  <2>2. up' = [u EXCEPT ![f] = w]  BY <2>1 DEF Drop
  <2>3. up[f].mv = "none"  BY <1>1, <1>2 DEF UploadInv
  <2>4. w.task = v.task /\ w.put = v.put /\ w.at = v.at /\ w.cur = v.cur /\ w.mv \in {v.mv, "rename"}
    BY DroppedFields
  <2> HIDE DEF w
  <2> QED  BY <1>1, <2>2, <2>3, <2>4
<1> HIDE DEF w
<1>5. Handles(f)' = Handles(f) - 1
  <2>1. ~OwnHandle(f)'  BY <1>4 DEF OwnHandle
  <2>2. Cardinality(Holding(reader', f)) = Cardinality(Holding(reader, f))  BY DEF Holding
  <2> QED  BY <2>1, <2>2, HandlesCount, HoldingFinite
<1>6. /\ v.close \in {"tasked", "done"} => v.task # "none"
      /\ v.close = "refused" => v.task = "over"
      /\ v.close = "made" => v.task = "none"
      /\ v.task = up[f].task \/ v.task = "over"
      /\ \A g \in Files \ {f}, r \in Readers : reader'[r].file = g <=> reader[r].file = g
  OBVIOUS
<1> HIDE DEF path
<1>7. Drop(u, path)  BY DEF path
<1>8. /\ up' \in [Files -> Upload] /\ stage' \in [Paths -> Files \cup {NoFile}]
      /\ \A g \in Files : UploadInv(g)'
      /\ \A p \in Paths : stage'[p] = stage[p] \/ (stage[p] = f /\ Handles(f)' = 0)
      /\ \A g \in Files \ {f} : up'[g] = up[g]
      /\ up'[f].put = up[f].put /\ up'[f].at = up[f].at /\ up'[f].cur = up[f].cur
      /\ up[f].mv = "none" /\ up'[f].mv \in {"none", "rename"}
  <2>1. up' \in [Files -> Upload] /\ stage' \in [Paths -> Files \cup {NoFile}]
    BY <1>3, <1>5, <1>6, <1>7, DropStep
  <2>2. \A g \in Files : UploadInv(g)'
    BY <1>3, <1>5, <1>6, <1>7, DropStep
  <2>3. \A p \in Paths : stage'[p] = stage[p] \/ (stage[p] = f /\ Handles(f)' = 0)
    BY <1>3, <1>5, <1>6, <1>7, DropStep
  <2> QED  BY <1>4, <2>1, <2>2, <2>3
<1>9. \A r \in Readers : ReaderInv(r)'  BY <1>8, DropReaders
<1> QED  BY <1>8, <1>9

\* The storage is as it was, and the callback at most about to begin.
LEMMA StoreSame ==
  ASSUME NEW f \in Files, StoreInv(f), UNCHANGED <<store, disturbed>>,
         up'[f].put => up[f].put, up'[f].at = up[f].at,
         \/ up'[f].mv = up[f].mv /\ up'[f].cur = up[f].cur
         \/ up[f].mv = "none" /\ up'[f].mv \in {"none", "rename"}
  PROVE  StoreInv(f)'
BY DEF StoreInv, Halfway

\* A file that is shown under a name has a handle, and that name.
LEMMA ShownHasHandle ==
  ASSUME IInv, NEW p \in Paths, Shown(p), NEW f, f = stage[p]
  PROVE  /\ f \in Files /\ up[f] \in Upload /\ UploadInv(f)
         /\ up[f].ref > 0 /\ up[f].mv = "none" /\ ~Fresh(f) /\ up[f].cur = p
         /\ \A q \in Paths : stage[q] = f <=> q \in up[f].links \cup {up[f].at}
<1>1. f \in Files /\ up[f].cur = p  BY DEF Shown, Staged, IInv, TypeOK
<1>2. up[f] \in Upload /\ UploadInv(f)  BY <1>1 DEF IInv, TypeOK
<1>3. up[f].ref # 0
  <2> SUFFICES ASSUME up[f].ref = 0  PROVE FALSE
    OBVIOUS
  <2>1. p = up[f].at /\ up[f].via \in up[f].links  BY <1>2 DEF UploadInv
  <2> QED  BY <1>1, <1>2, <2>1 DEF UploadInv
<1>4. up[f].ref > 0  BY <1>2, <1>3 DEF Upload
<1> QED  BY <1>1, <1>2, <1>4 DEF UploadInv

\* What a step has to show.
Kept == /\ up' \in [Files -> Upload] /\ stage' \in [Paths -> Files \cup {NoFile}]
        /\ \A g \in Files : UploadInv(g)'
        /\ \A r \in Readers : ReaderInv(r)'

StoreType == store' \in [Paths -> Files \cup {NoFile}] /\ disturbed' \subseteq Files

\* The steps of an upload that neither enter nor leave the stage.
LEMMA UploadSteps ==
  ASSUME IInv, NEW f \in Files,
         Submit(f) \/ SetRemoveCallback(f) \/ TaskPuts(f) \/ \E p \in Paths : Open(f, p)
  PROVE  Kept /\ StoreType /\ \A g \in Files : StoreInv(g)'
<1> DEFINE u == up[f]
<1>1. /\ u \in Upload /\ UploadInv(f) /\ StoreInv(f) /\ TypeOK
      /\ up \in [Files -> Upload] /\ stage \in [Paths -> Files \cup {NoFile}]
      /\ store \in [Paths -> Files \cup {NoFile}] /\ disturbed \subseteq Files
      /\ \A g \in Files : UploadInv(g) /\ StoreInv(g)
  BY DEF IInv, TypeOK
<1>2. ASSUME NEW p \in Paths, Open(f, p)  PROVE Kept /\ StoreType /\ \A g \in Files : StoreInv(g)'
  <2> DEFINE v == [u EXCEPT !.close = "open", !.at = p]
  <2>1. v \in Upload  BY <1>1 DEF Upload
  <2>2. /\ v.close = "open" /\ v.at = p /\ v.task = u.task /\ v.links = u.links /\ v.ref = u.ref
        /\ v.via = u.via /\ v.cur = u.cur /\ v.mv = u.mv /\ v.put = u.put
    BY <1>1 DEF Upload
  <2>3. /\ up' = [up EXCEPT ![f] = v] /\ u.close = "new" /\ UNCHANGED <<stage, reader, store, disturbed>>
    BY <1>2 DEF Open
  <2> HIDE DEF v
  <2>4. up'[f] = v /\ \A g \in Files \ {f} : up'[g] = up[g]  BY <1>1, <2>3
  <2>5. u.task = "none" /\ ~u.put  BY <1>1, <2>3 DEF UploadInv, Fresh
  <2>6. Fresh(f) /\ ~OwnHandle(f) /\ ~OwnHandle(f)'  BY <2>2, <2>3, <2>4 DEF Fresh, OwnHandle
  <2>7. Kept  BY <1>1, <2>1, <2>2, <2>3, <2>5, <2>6, RecordStep DEF Kept
  <2>8. StoreInv(f)'  BY <2>2, <2>4, <2>5 DEF StoreInv
  <2> QED  BY <1>1, <2>3, <2>4, <2>7, <2>8, StoreKept DEF StoreType
<1>3. CASE Submit(f)
  <2> DEFINE v == [u EXCEPT !.close = "tasked", !.task = "queued"]
  <2>1. v \in Upload  BY <1>1 DEF Upload
  <2>2. /\ v.close = "tasked" /\ v.at = u.at /\ v.task = "queued" /\ v.links = u.links /\ v.ref = u.ref
        /\ v.via = u.via /\ v.cur = u.cur /\ v.mv = u.mv /\ v.put = u.put
    BY <1>1 DEF Upload
  <2>3. /\ up' = [up EXCEPT ![f] = v] /\ u.close = "made" /\ UNCHANGED <<stage, reader>>
        /\ UNCHANGED <<store, disturbed>> \/ Change([store EXCEPT ![up[f].at] = NoFile], f)
    BY <1>3 DEF Submit
  <2> HIDE DEF v
  <2>4. up'[f] = v /\ \A g \in Files \ {f} : up'[g] = up[g]  BY <1>1, <2>3
  <2>5. u.task = "none" /\ ~u.put /\ u.at \in Paths  BY <1>1, <2>3 DEF UploadInv
  <2>6. ~Fresh(f) /\ OwnHandle(f) /\ OwnHandle(f)'  BY <2>2, <2>3, <2>4, <2>5 DEF Fresh, OwnHandle
  <2>7. Kept  BY <1>1, <2>1, <2>2, <2>3, <2>5, <2>6, RecordStep DEF Kept
  <2>8. StoreInv(f)'  BY <2>2, <2>4, <2>5 DEF StoreInv
  <2>9. \A g \in Files \ {f} : StoreInv(g)'  BY <1>1, <2>3, <2>4, StoreKept
  <2>10. StoreType  BY <1>1, <2>3, <2>5 DEF StoreType, Change
  <2> QED  BY <2>7, <2>8, <2>9, <2>10
<1>4. CASE SetRemoveCallback(f)
  <2> DEFINE v == [u EXCEPT !.close = "done", !.cb = TRUE]
  <2>1. v \in Upload  BY <1>1 DEF Upload
  <2>2. /\ v.close = "done" /\ v.at = u.at /\ v.task = u.task /\ v.links = u.links /\ v.ref = u.ref
        /\ v.via = u.via /\ v.cur = u.cur /\ v.mv = u.mv
    BY <1>1 DEF Upload
  <2>10. v.put = u.put  BY <1>1 DEF Upload
  <2>3. /\ up' = [up EXCEPT ![f] = v] /\ u.close = "tasked" /\ UNCHANGED <<stage, reader, store, disturbed>>
    BY <1>4 DEF SetRemoveCallback
  <2> HIDE DEF v
  <2>4. up'[f] = v /\ \A g \in Files \ {f} : up'[g] = up[g]  BY <1>1, <2>3
  <2>5. u.task # "none" /\ u.at \in Paths /\ (v.put => v.task \in {"closing", "over"})
    BY <1>1, <2>2, <2>3, <2>10 DEF UploadInv
  <2>6. ~Fresh(f) /\ (OwnHandle(f)' <=> OwnHandle(f))  BY <2>2, <2>3, <2>4, <2>5 DEF Fresh, OwnHandle
  <2>7. Kept  BY <1>1, <2>1, <2>2, <2>3, <2>5, <2>6, RecordStep DEF Kept
  <2>8. StoreInv(f)'  BY <1>1, <2>2, <2>3, <2>4, <2>10, StoreSame
  <2> QED  BY <1>1, <2>3, <2>4, <2>7, <2>8, StoreKept DEF StoreType
<1>5. CASE TaskPuts(f)
  <2> DEFINE v == [u EXCEPT !.task = "closing", !.put = TRUE]
  <2>1. v \in Upload  BY <1>1 DEF Upload
  <2>2. /\ v.close = u.close /\ v.at = u.at /\ v.task = "closing" /\ v.links = u.links /\ v.ref = u.ref
        /\ v.via = u.via /\ v.cur = u.cur /\ v.mv = u.mv
    BY <1>1 DEF Upload
  <2>3. /\ up' = [up EXCEPT ![f] = v] /\ u.task = "queued" /\ UNCHANGED <<stage, reader>>
        /\ Change([store EXCEPT ![up[f].at] = f], f)
    BY <1>5 DEF TaskPuts
  <2> HIDE DEF v
  <2>4. up'[f] = v /\ \A g \in Files \ {f} : up'[g] = up[g]  BY <1>1, <2>3
  <2>5. u.close \notin {"new", "open", "made", "refused"} /\ u.at \in Paths  BY <1>1, <2>3 DEF UploadInv
  <2>6. ~Fresh(f) /\ (OwnHandle(f)' <=> OwnHandle(f))  BY <2>2, <2>3, <2>4, <2>5 DEF Fresh, OwnHandle
  <2>11. /\ v.close # "new" /\ v.at \in Paths
         /\ v.close \in {"open", "made"} => v.task = "none"
         /\ v.close \in {"tasked", "done"} => v.task # "none"
         /\ v.close = "refused" => v.task \in {"none", "over"}
         /\ v.close = "open" \/ (v.close = "refused" /\ v.task = "none") => Fresh(f) /\ ~v.put
         /\ ~Fresh(f) => v.close # "open" /\ ~(v.close = "refused" /\ v.task = "none")
         /\ v.task = "over" => up[f].task = "over"
    BY <2>2, <2>5
  <2>7. Kept  BY <1>1, <2>1, <2>2, <2>3, <2>5, <2>6, <2>11, RecordStep DEF Kept
  <2>8. StoreInv(f)'
    <3>1. store'[u.at] = f  BY <1>1, <2>3, <2>5 DEF Change
    <3>2. u.mv = "none"
      <4>1. OwnHandle(f)  BY <1>1, <2>3, <2>5 DEF OwnHandle, Upload
      <4>2. Handles(f) # 0  BY <4>1, HandlesCount
      <4> QED  BY <1>1, <4>2 DEF UploadInv
    <3> QED  BY <2>2, <2>4, <3>1, <3>2 DEF StoreInv
  <2>9. \A g \in Files \ {f} : StoreInv(g)'  BY <1>1, <2>3, <2>4, StoreKept
  <2>10. StoreType  BY <1>1, <2>3, <2>5 DEF StoreType, Change
  <2> QED  BY <2>7, <2>8, <2>9, <2>10
<1> QED  BY <1>2, <1>3, <1>4, <1>5

\* A step of the callback: the record changes in mv only, and the storage has the file
\* where the next step looks for it.
LEMMA MvSteps ==
  ASSUME IInv, NEW f \in Files, MvRename(f) \/ MvMove(f)
  PROVE  Kept /\ StoreType /\ \A g \in Files : StoreInv(g)'
<1> DEFINE u == up[f]
           from == IF u.mv = "rename" THEN u.at ELSE Halfway(f)
           to == IF u.mv = "rename" THEN Halfway(f) ELSE u.cur
<1>1. /\ u \in Upload /\ UploadInv(f) /\ StoreInv(f) /\ TypeOK
      /\ up \in [Files -> Upload] /\ stage \in [Paths -> Files \cup {NoFile}]
      /\ store \in [Paths -> Files \cup {NoFile}] /\ disturbed \subseteq Files
      /\ \A g \in Files : UploadInv(g) /\ StoreInv(g)
  BY DEF IInv, TypeOK
<1>2. u.mv \in {"rename", "move"} /\ MvStep(f, from, to) /\ UNCHANGED <<stage, reader>>
  BY DEF MvRename, MvMove
<1>3. ~Fresh(f) /\ u.close # "new" /\ u.at \in Paths /\ u.cur \in Paths
  BY <1>1, <1>2 DEF UploadInv, Fresh
<1>4. Halfway(f) \in Paths  BY <1>3 DEF Halfway, Paths
<1>5. from \in Paths /\ to \in Paths  BY <1>3, <1>4
<1>6. NextMv(f) \in {"move", "done"}
  BY DEF NextMv
<1>7. PICK m \in {"move", "done", "failed"} :
        /\ up' = [up EXCEPT ![f].mv = m]
        /\ \/ m = "failed" /\ UNCHANGED <<store, disturbed>>
           \/ m = NextMv(f) /\ from = to /\ UNCHANGED <<store, disturbed>>
           \/ m = NextMv(f) /\ from # to /\ Change(Moved(from, to), f)
  <2> HIDE DEF from, to
  <2> QED  BY <1>2, <1>6 DEF MvStep
<1> DEFINE v == [u EXCEPT !.mv = m]
<1>8. v \in Upload  BY <1>1 DEF Upload
<1>9. /\ v.close = u.close /\ v.at = u.at /\ v.task = u.task /\ v.links = u.links /\ v.ref = u.ref
      /\ v.via = u.via /\ v.cur = u.cur /\ v.mv = m
  BY <1>1 DEF Upload
<1>10. v.put = u.put  BY <1>1 DEF Upload
<1>11. up' = [up EXCEPT ![f] = v]  BY <1>1, <1>7
<1> HIDE DEF v
<1>12. up'[f] = v /\ \A g \in Files \ {f} : up'[g] = up[g]  BY <1>1, <1>11
<1>13. OwnHandle(f)' <=> OwnHandle(f)  BY <1>9, <1>12 DEF OwnHandle
<1>14. v.put => v.task \in {"closing", "over"}
  BY <1>1, <1>9, <1>10 DEF UploadInv
<1>15. /\ v.close # "new" /\ v.at \in Paths /\ v.close # "open"
       /\ v.close \in {"open", "made"} => v.task = "none"
       /\ v.close \in {"tasked", "done"} => v.task # "none"
       /\ v.close = "refused" => v.task = "over"
  BY <1>1, <1>3, <1>9 DEF UploadInv, Fresh
<1>16. Kept
  <2> HIDE DEF u, from, to
  <2>1. /\ v.at = up[f].at /\ v.links = up[f].links /\ v.ref = up[f].ref
        /\ v.via = up[f].via /\ v.cur = up[f].cur /\ up[f].mv # "none" /\ v.mv # "none"
        /\ v.task = up[f].task
    BY <1>2, <1>9 DEF u
  <2>2. /\ v.close = "open" \/ (v.close = "refused" /\ v.task = "none") => Fresh(f) /\ ~v.put
        /\ ~Fresh(f) => v.close # "open" /\ ~(v.close = "refused" /\ v.task = "none")
        /\ v.close = "refused" => v.task \in {"none", "over"}
        /\ v.task = "over" => up[f].task = "over"
    BY <1>15, <2>1
  <2> QED  BY <1>1, <1>2, <1>8, <1>11, <1>13, <1>14, <1>15, <2>1, <2>2, RecordStep DEF Kept
<1>17. Halfway(f)' = Halfway(f)  BY <1>9, <1>12 DEF Halfway
<1>18. StoreInv(f)'
  <2> SUFFICES ASSUME u.put, f \notin disturbed', m # "failed"
               PROVE  /\ m = "move" => store'[Halfway(f)] = f
                      /\ m = "done" => store'[u.cur] = f
    BY <1>7, <1>9, <1>10, <1>12, <1>17 DEF StoreInv
  <2>1. f \notin disturbed  BY <1>7 DEF Change
  <2>2. store[from] = f  BY <1>1, <1>2, <2>1 DEF StoreInv
  <2>3. store'[to] = f
    <3> HIDE DEF from, to
    <3>1. CASE from = to /\ UNCHANGED <<store, disturbed>>  BY <2>2, <3>1
    <3>2. CASE from # to /\ Change(Moved(from, to), f)
      BY <1>1, <1>5, <2>2, <3>2 DEF Change, Moved
    <3> QED  BY <1>7, <3>1, <3>2
  <2>4. m = "move" => to = Halfway(f)  BY <1>7 DEF NextMv
  <2>5. m = "done" => to = u.cur  BY <1>2, <1>7 DEF NextMv
  <2> QED  BY <2>3, <2>4, <2>5
<1>19. \A g \in Files \ {f} : StoreInv(g)'
  BY <1>1, <1>7, <1>12, StoreKept
<1>20. StoreType
  <2> HIDE DEF from, to
  <2> QED  BY <1>1, <1>5, <1>7 DEF StoreType, Change, Moved
<1> QED  BY <1>16, <1>18, <1>19, <1>20

\* The steps that close the upload's own handle.
LEMMA OwnDropSteps ==
  ASSUME IInv, NEW f \in Files, SubmitFails(f) \/ TaskFails(f) \/ TaskCloses(f)
  PROVE  Kept /\ StoreType /\ \A g \in Files : StoreInv(g)'
<1> DEFINE u == up[f]
           c == IF u.close = "made" THEN "refused" ELSE u.close
           v == [u EXCEPT !.close = c, !.task = "over"]
<1>1. /\ u \in Upload /\ UploadInv(f) /\ StoreInv(f) /\ TypeOK
      /\ up \in [Files -> Upload] /\ stage \in [Paths -> Files \cup {NoFile}]
      /\ store \in [Paths -> Files \cup {NoFile}] /\ disturbed \subseteq Files
      /\ \A g \in Files : UploadInv(g) /\ StoreInv(g)
  BY DEF IInv, TypeOK
<1>2. u.close \in {"made", "tasked", "done"} /\ u.task # "over" /\ u.at \in Paths
      /\ (u.close = "made" => ~u.put)
  <2>1. u.close = "made" \/ u.task \in {"queued", "closing"}
    BY DEF SubmitFails, TaskFails, TaskCloses
  <2>2. u.close = "made" => u.task = "none"  BY <1>1 DEF UploadInv
  <2>3. u.close \in {"made", "tasked", "done"} /\ u.task # "over"
    BY <1>1, <2>1, <2>2 DEF UploadInv, Upload
  <2>4. u.at \in Paths  BY <1>1, <2>3 DEF UploadInv
  <2>5. u.close = "made" => ~u.put  BY <1>1, <2>2 DEF UploadInv
  <2> QED  BY <2>3, <2>4, <2>5
<1>3. OwnHandle(f)  BY <1>2 DEF OwnHandle
<1>4. v \in Upload
  <2>1. c \in {"new", "open", "made", "tasked", "done", "refused"}  BY <1>1 DEF Upload
  <2> HIDE DEF c
  <2> QED  BY <1>1, <2>1 DEF Upload
<1>5. /\ v.close = c /\ v.at = u.at /\ v.task = "over" /\ v.links = u.links /\ v.ref = u.ref
      /\ v.via = u.via /\ v.cur = u.cur /\ v.mv = u.mv /\ v.put = u.put
  <2> HIDE DEF c
  <2> QED  BY <1>1 DEF Upload
<1>6. /\ Drop([up EXCEPT ![f] = v], u.at) /\ UNCHANGED reader
      /\ \/ UNCHANGED <<store, disturbed>>
         \/ u.close = "made" /\ Change([store EXCEPT ![u.at] = NoFile], f)
  <2>1. CASE SubmitFails(f)
    <3>1. v = [u EXCEPT !.close = "refused", !.task = "over"] /\ u.close = "made"
      BY <2>1 DEF SubmitFails
    <3> HIDE DEF v
    <3> QED  BY <1>1, <2>1, <3>1 DEF SubmitFails
  <2>2. CASE TaskFails(f) \/ TaskCloses(f)
    <3>1. u.close # "made"
      BY <1>1, <2>2 DEF TaskFails, TaskCloses, UploadInv
    <3>2. c = u.close  BY <3>1
    <3>3. v = [u EXCEPT !.task = "over"]
      <4> HIDE DEF c
      <4> QED  BY <1>1, <3>2 DEF Upload
    <3> HIDE DEF v, c
    <3>4. [up EXCEPT ![f].task = "over"] = [up EXCEPT ![f] = v]
      BY <1>1, <3>3
    <3> QED  BY <2>2, <3>4 DEF TaskFails, TaskCloses
  <2> QED  BY <2>1, <2>2
<1>7. c = u.close \/ c = "refused"  OBVIOUS
<1>8. c # "made"  OBVIOUS
<1> HIDE DEF c, v
<1> DEFINE w == [up EXCEPT ![f] = v]
<1>9. w = [up EXCEPT ![f] = v] /\ Drop(w, up[f].at)  BY <1>6
<1> HIDE DEF w
<1>10. /\ Kept
       /\ \A g \in Files \ {f} : up'[g] = up[g]
       /\ up'[f].put = up[f].put /\ up'[f].at = up[f].at /\ up'[f].cur = up[f].cur
       /\ up[f].mv = "none" /\ up'[f].mv \in {"none", "rename"}
  <2>1. UNCHANGED reader /\ v.close # "made" /\ v.task = "over"
        /\ (v.close = up[f].close \/ v.close = "refused")
    BY <1>5, <1>6, <1>7, <1>8
  <2>2. /\ v.at = up[f].at /\ v.links = up[f].links /\ v.ref = up[f].ref /\ v.via = up[f].via
        /\ v.cur = up[f].cur /\ v.mv = up[f].mv
    BY <1>5
  <2>3. v.put = up[f].put  BY <1>5
  <2> QED  BY <1>3, <1>4, <1>9, <2>1, <2>2, <2>3, OwnDrop DEF Kept
<1>11. StoreInv(f)'
  <2>1. CASE u.close = "made"  BY <1>2, <1>10, <2>1 DEF StoreInv
  <2>2. CASE UNCHANGED <<store, disturbed>>  BY <1>1, <1>10, <2>2, StoreSame
  <2> QED  BY <1>6, <2>1, <2>2
<1>12. \A g \in Files \ {f} : StoreInv(g)'
  BY <1>1, <1>6, <1>10, StoreKept
<1>13. StoreType  BY <1>1, <1>2, <1>6 DEF StoreType, Change
<1> QED  BY <1>10, <1>11, <1>12, <1>13

\* The file enters the stage with the upload's own handle, or its name is taken.
LEMMA MakeStageStep ==
  ASSUME IInv, NEW f \in Files, MakeStage(f)
  PROVE  Kept /\ StoreType /\ \A g \in Files : StoreInv(g)'
<1> DEFINE u == up[f]
<1>1. /\ u \in Upload /\ UploadInv(f) /\ StoreInv(f) /\ TypeOK
      /\ up \in [Files -> Upload] /\ stage \in [Paths -> Files \cup {NoFile}]
      /\ store \in [Paths -> Files \cup {NoFile}] /\ disturbed \subseteq Files
      /\ \A g \in Files : UploadInv(g) /\ StoreInv(g)
  BY DEF IInv, TypeOK
<1>2. u.close = "open" /\ UNCHANGED <<reader, store, disturbed>>  BY DEF MakeStage
<1>3. /\ Fresh(f) /\ u.task = "none" /\ ~u.put /\ u.at \in Paths /\ u.links = {} /\ u.mv = "none"
      /\ u.cur = NoPath /\ u.ref = 0 /\ \A p \in Paths : stage[p] # f
  BY <1>1, <1>2 DEF UploadInv, Upload, Fresh
<1>4. CASE Staged(u.at)
  <2> DEFINE v == [u EXCEPT !.close = "refused"]
  <2>1. v \in Upload  BY <1>1 DEF Upload
  <2>2. /\ v.close = "refused" /\ v.at = u.at /\ v.task = u.task /\ v.links = u.links /\ v.ref = u.ref
        /\ v.via = u.via /\ v.cur = u.cur /\ v.mv = u.mv /\ v.put = u.put
    BY <1>1 DEF Upload
  <2>3. up' = [up EXCEPT ![f] = v] /\ UNCHANGED stage  BY <1>1, <1>4 DEF MakeStage
  <2> HIDE DEF v
  <2>4. up'[f] = v /\ \A g \in Files \ {f} : up'[g] = up[g]  BY <1>1, <2>3
  <2>5. ~OwnHandle(f)' /\ ~OwnHandle(f)  BY <1>2, <2>2, <2>4 DEF OwnHandle
  <2>6. Kept  BY <1>1, <1>2, <1>3, <2>1, <2>2, <2>3, <2>5, RecordStep DEF Kept
  <2>7. StoreInv(f)'  BY <1>3, <2>2, <2>4 DEF StoreInv
  <2> QED  BY <1>1, <1>2, <2>4, <2>6, <2>7, StoreKept DEF StoreType
<1>5. CASE ~Staged(u.at)
  <2> DEFINE v == [u EXCEPT !.close = "made", !.ref = 1, !.cur = u.at]
  <2>1. v \in Upload  BY <1>1, <1>3 DEF Upload
  <2>2. /\ v.close = "made" /\ v.at = u.at /\ v.task = u.task /\ v.links = u.links /\ v.ref = 1
        /\ v.via = u.via /\ v.cur = u.at /\ v.mv = u.mv /\ v.put = u.put
    BY <1>1 DEF Upload
  <2>3. up' = [up EXCEPT ![f] = v] /\ stage' = [stage EXCEPT ![u.at] = f] /\ stage[u.at] = NoFile
    BY <1>1, <1>5 DEF MakeStage, Staged
  <2> HIDE DEF v
  <2>4. up'[f] = v /\ up' \in [Files -> Upload] /\ \A g \in Files \ {f} : up'[g] = up[g]
    BY <1>1, <2>1, <2>3
  <2>5. /\ stage' \in [Paths -> Files \cup {NoFile}] /\ stage'[u.at] = f
        /\ \A p \in Paths \ {u.at} : stage'[p] = stage[p]
    BY <1>1, <1>3, <2>3
  <2>6. OwnHandle(f)' /\ ~OwnHandle(f)  BY <1>2, <1>3, <2>2, <2>4 DEF OwnHandle
  <2>7. Handles(f)' = 1
    <3>1. Handles(f) = 0  BY <1>1, <1>3 DEF UploadInv
    <3>2. Holding(reader', f) = Holding(reader, f)  BY <1>2
    <3> QED  BY <2>6, <3>1, <3>2, HandlesCount, HoldingFinite
  <2>8. UploadInv(f)'
    <3>1. ~Fresh(f)'  BY <2>2, <2>4 DEF Fresh
    <3>2. \A p \in Paths : stage'[p] = f <=> p = u.at  BY <1>3, <2>5
    <3> QED  BY <1>3, <2>2, <2>4, <2>7, <3>1, <3>2 DEF UploadInv
  <2>9. ASSUME NEW g \in Files \ {f}  PROVE UploadInv(g)'
    <3>1. \A p \in Paths : stage'[p] = g <=> stage[p] = g
      BY <2>3, <2>5, FtpStageAssumption
    <3> QED  BY <1>1, <1>2, <2>4, <3>1, UploadKept
  <2>10. ASSUME NEW r \in Readers  PROVE ReaderInv(r)'
    BY <1>2, <2>3, <2>5, FtpStageAssumption DEF IInv, ReaderInv
  <2>11. StoreInv(f)'  BY <1>3, <2>2, <2>4 DEF StoreInv
  <2>12. \A g \in Files : StoreInv(g)'  BY <1>1, <1>2, <2>4, <2>11, StoreKept
  <2>13. StoreType  BY <1>1, <1>2 DEF StoreType
  <2> QED  BY <2>4, <2>5, <2>8, <2>9, <2>10, <2>12, <2>13 DEF Kept
<1> QED  BY <1>4, <1>5

\* A download begins: one more handle.
LEMMA BorrowStep ==
  ASSUME IInv, NEW r \in Readers, NEW p \in Paths, Borrow(r, p)
  PROVE  Kept /\ StoreType /\ \A g \in Files : StoreInv(g)'
<1>0. PICK f : f = stage[p]  OBVIOUS
<1> DEFINE u == up[f]  v == [u EXCEPT !.ref = u.ref + 1]
<1>1. /\ TypeOK /\ up \in [Files -> Upload] /\ stage \in [Paths -> Files \cup {NoFile}]
      /\ store \in [Paths -> Files \cup {NoFile}] /\ disturbed \subseteq Files
      /\ reader \in [Readers -> [path : Paths \cup {NoPath}, file : Files \cup {NoFile}]]
      /\ \A g \in Files : UploadInv(g) /\ StoreInv(g)
  BY DEF IInv, TypeOK
<1>2. /\ reader[r] = Idle /\ Shown(p) /\ UNCHANGED <<stage, store, disturbed>>
      /\ reader' = [reader EXCEPT ![r] = [path |-> p, file |-> f]]
      /\ up' = [up EXCEPT ![f].ref = @ + 1]
  BY <1>0 DEF Borrow
<1>3. /\ f \in Files /\ u \in Upload /\ UploadInv(f)
      /\ u.ref > 0 /\ u.mv = "none" /\ ~Fresh(f) /\ u.cur = p
      /\ \A q \in Paths : stage[q] = f <=> q \in u.links \cup {u.at}
  BY <1>0, <1>2, ShownHasHandle
<1>4. v \in Upload  BY <1>3 DEF Upload
<1>5. /\ v.close = u.close /\ v.at = u.at /\ v.task = u.task /\ v.links = u.links /\ v.ref = u.ref + 1
      /\ v.via = u.via /\ v.cur = u.cur /\ v.mv = u.mv /\ v.put = u.put
  BY <1>3 DEF Upload
<1>6. up' = [up EXCEPT ![f] = v]  BY <1>1, <1>2
<1> HIDE DEF v
<1>7. up'[f] = v /\ up' \in [Files -> Upload] /\ \A g \in Files \ {f} : up'[g] = up[g]
  BY <1>1, <1>3, <1>4, <1>6
<1>8. reader'[r].file = f /\ reader'[r].path = p /\ \A s \in Readers \ {r} : reader'[s] = reader[s]
  BY <1>1, <1>2
<1>9. OwnHandle(f)' <=> OwnHandle(f)  BY <1>5, <1>7 DEF OwnHandle
<1>10. Handles(f)' = Handles(f) + 1
  <2>1. Holding(reader', f) = Holding(reader, f) \cup {r} /\ r \notin Holding(reader, f)
    BY <1>2, <1>3, <1>8, IdleHasNoFile DEF Holding
  <2>2. Cardinality(Holding(reader', f)) = Cardinality(Holding(reader, f)) + 1
    BY <2>1, HoldingFinite, FS_AddElement
  <2> QED  BY <1>9, <2>2, HandlesCount, HoldingFinite
<1>11. UploadInv(f)'
  <2>1. ~Fresh(f)'  BY <1>3, <1>5, <1>7 DEF Fresh
  <2>2. v.ref > 0 /\ v.ref = Handles(f)'  BY <1>3, <1>5, <1>10 DEF UploadInv, Upload
  <2>3. \A q \in Paths : stage'[q] = f <=> q \in v.links \cup {v.at}  BY <1>2, <1>3, <1>5
  <2>4. /\ v.close \in {"new", "open", "made"} => v.task = "none"
        /\ v.close \in {"tasked", "done"} => v.task # "none"
        /\ v.close = "refused" => v.task \in {"none", "over"}
        /\ v.put => v.task \in {"closing", "over"}
        /\ v.close # "new" => v.at \in Paths
        /\ v.cur \in v.links \cup {v.at, NoPath}
        /\ v.at \notin v.links /\ (v.links # {} => v.cur # v.at)
    BY <1>3, <1>5 DEF UploadInv
  <2>5. v.mv = "none" /\ v.ref # 0  BY <1>3, <1>5, <2>2
  <2> QED  BY <1>7, <2>1, <2>2, <2>3, <2>4, <2>5 DEF UploadInv
<1>12. ASSUME NEW g \in Files \ {f}  PROVE UploadInv(g)'
  <2>1. \A s \in Readers : reader'[s].file = g <=> reader[s].file = g
    BY <1>2, <1>8, IdleHasNoFile
  <2> QED  BY <1>1, <1>2, <1>7, <2>1, UploadKept
<1>13. ASSUME NEW s \in Readers  PROVE ReaderInv(s)'
  <2>1. CASE s = r  BY <1>0, <1>2, <1>3, <1>8, <2>1 DEF ReaderInv
  <2>2. CASE s # r  BY <1>2, <1>8, <2>2 DEF IInv, ReaderInv
  <2> QED  BY <2>1, <2>2
<1>14. StoreInv(f)'  BY <1>1, <1>2, <1>3, <1>5, <1>7, StoreSame
<1>15. \A g \in Files \ {f} : StoreInv(g)'  BY <1>1, <1>2, <1>7, StoreKept
<1>16. StoreType  BY <1>1, <1>2 DEF StoreType
<1> QED  BY <1>1, <1>2, <1>7, <1>11, <1>12, <1>13, <1>14, <1>15, <1>16 DEF Kept

\* A download ends and drops its handle.
LEMMA ReaderClosesStep ==
  ASSUME IInv, NEW r \in Readers, ReaderCloses(r)
  PROVE  Kept /\ StoreType /\ \A g \in Files : StoreInv(g)'
<1>0. PICK f, path : f = reader[r].file /\ path = reader[r].path  OBVIOUS
<1> DEFINE v == up[f]
<1>1. /\ TypeOK /\ up \in [Files -> Upload] /\ stage \in [Paths -> Files \cup {NoFile}]
      /\ store \in [Paths -> Files \cup {NoFile}] /\ disturbed \subseteq Files
      /\ reader \in [Readers -> [path : Paths \cup {NoPath}, file : Files \cup {NoFile}]]
      /\ \A g \in Files : UploadInv(g) /\ StoreInv(g)
  BY DEF IInv, TypeOK
<1>2. /\ reader[r] # Idle /\ Drop(up, path) /\ UNCHANGED <<store, disturbed>>
      /\ reader' = [reader EXCEPT ![r] = Idle]
  BY <1>0 DEF ReaderCloses
<1>3. path \in Paths /\ f \in Files /\ stage[path] = f
  BY <1>0, <1>2 DEF IInv, ReaderInv
<1>4. v \in Upload /\ UploadInv(f) /\ up = [up EXCEPT ![f] = v]  BY <1>1, <1>3
<1>5. reader'[r] = Idle /\ \A s \in Readers \ {r} : reader'[s] = reader[s]  BY <1>1, <1>2
<1>6. /\ v.close \in {"tasked", "done"} => v.task # "none"
      /\ v.close = "made" => v.task = "none"
      /\ v.close = "refused" => v.task = "over"
  <2>1. Handles(f) # 0  BY <1>0, <1>3, HandlesCount
  <2>2. up[f].ref > 0  BY <1>4, <2>1, HandlesCount DEF UploadInv, Upload
  <2> QED  BY <1>4, <2>2 DEF UploadInv, Fresh
<1>7. Handles(f)' = Handles(f) - 1
  <2>1. Holding(reader', f) = Holding(reader, f) \ {r} /\ r \in Holding(reader, f)
    BY <1>0, <1>3, <1>5, IdleHasNoFile DEF Holding
  <2>2. Cardinality(Holding(reader', f)) = Cardinality(Holding(reader, f)) - 1
    BY <2>1, HoldingFinite, FS_RemoveElement
  <2>3. (OwnHandle(f)' <=> OwnHandle(f))
    <3>1. up'[f].close = v.close /\ up'[f].task = v.task
      <4>1. up' = [up EXCEPT ![f] = Dropped(up[f], path)]
        BY <1>2, <1>3, FtpStageAssumption DEF Drop, Staged
      <4>2. Dropped(v, path).close = v.close /\ Dropped(v, path).task = v.task
        BY <1>4, DroppedFields
      <4> QED  BY <1>1, <1>3, <4>1, <4>2
    <3> QED  BY <3>1 DEF OwnHandle
  <2> QED  BY <2>2, <2>3, HandlesCount, HoldingFinite
<1>8. \A g \in Files \ {f}, s \in Readers : reader'[s].file = g <=> reader[s].file = g
  BY <1>0, <1>5, IdleHasNoFile
<1>9. /\ up' \in [Files -> Upload] /\ stage' \in [Paths -> Files \cup {NoFile}]
      /\ \A g \in Files : UploadInv(g)'
      /\ \A p \in Paths : stage'[p] = stage[p] \/ (stage[p] = f /\ Handles(f)' = 0)
      /\ \A g \in Files \ {f} : up'[g] = up[g]
      /\ up'[f].put = up[f].put /\ up'[f].at = up[f].at /\ up'[f].cur = up[f].cur
      /\ up[f].mv = "none" /\ up'[f].mv \in {"none", "rename"}
  BY <1>2, <1>3, <1>4, <1>6, <1>7, <1>8, DropStep
<1>10. \A s \in Readers : ReaderInv(s)'  BY <1>3, <1>5, <1>9, DropReaders
<1>11. StoreInv(f)'  BY <1>1, <1>2, <1>3, <1>9, StoreSame
<1>12. \A g \in Files \ {f} : StoreInv(g)'  BY <1>1, <1>2, <1>9, StoreKept
<1> QED  BY <1>1, <1>2, <1>9, <1>10, <1>11, <1>12 DEF Kept, StoreType

\* A rename in the stage gives the file one more name.
LEMMA MoveStageStep ==
  ASSUME IInv, NEW p \in Paths, NEW q \in Paths, MoveStage(p, q)
  PROVE  Kept /\ StoreType /\ \A g \in Files : StoreInv(g)'
<1>0. PICK f : f = stage[p]  OBVIOUS
<1> DEFINE u == up[f]  v == MovedTo(u, q)
<1>1. /\ TypeOK /\ up \in [Files -> Upload] /\ stage \in [Paths -> Files \cup {NoFile}]
      /\ store \in [Paths -> Files \cup {NoFile}] /\ disturbed \subseteq Files
      /\ \A g \in Files : UploadInv(g) /\ StoreInv(g)
  BY DEF IInv, TypeOK
<1>2. /\ Shown(p) /\ stage[q] = NoFile /\ UNCHANGED <<reader, store, disturbed>>
      /\ stage' = [stage EXCEPT ![q] = f] /\ up' = [up EXCEPT ![f] = v]
  BY <1>0 DEF MoveStage, Staged
<1>3. /\ f \in Files /\ u \in Upload /\ UploadInv(f)
      /\ u.ref > 0 /\ u.mv = "none" /\ ~Fresh(f) /\ u.cur = p
      /\ \A s \in Paths : stage[s] = f <=> s \in u.links \cup {u.at}
  BY <1>0, <1>2, ShownHasHandle
<1>4. v \in Upload
  <2>1. u.links \cup {q} \in SUBSET Paths  BY <1>3 DEF Upload
  <2> QED  BY <1>3, <2>1 DEF Upload, MovedTo
<1>5. /\ v.close = u.close /\ v.at = u.at /\ v.task = u.task /\ v.links = u.links \cup {q}
      /\ v.ref = u.ref /\ v.via = u.via /\ v.cur = q /\ v.mv = u.mv /\ v.put = u.put
  BY <1>3 DEF Upload, MovedTo
<1> HIDE DEF v
<1>6. up'[f] = v /\ up' \in [Files -> Upload] /\ \A g \in Files \ {f} : up'[g] = up[g]
  BY <1>1, <1>2, <1>3, <1>4
<1>7. /\ stage' \in [Paths -> Files \cup {NoFile}] /\ stage'[q] = f
      /\ \A s \in Paths \ {q} : stage'[s] = stage[s]
  BY <1>1, <1>2, <1>3
<1>8. (OwnHandle(f)' <=> OwnHandle(f)) /\ Handles(f)' = Handles(f)
  <2>1. OwnHandle(f)' <=> OwnHandle(f)  BY <1>5, <1>6 DEF OwnHandle
  <2> QED  BY <1>2, <2>1, HandlesKept
<1>9. UploadInv(f)'
  <2>1. ~Fresh(f)'  BY <1>3, <1>5, <1>6 DEF Fresh
  <2>2. q \notin u.links \cup {u.at}  BY <1>2, <1>3, FtpStageAssumption
  <2>3. /\ v.cur \in v.links \cup {v.at, NoPath}
        /\ v.at \notin v.links /\ (v.links # {} => v.cur # v.at)
    BY <1>3, <1>5, <2>2 DEF UploadInv
  <2>4. \A s \in Paths : stage'[s] = f <=> s \in v.links \cup {v.at}
    BY <1>3, <1>5, <1>7
  <2>5. /\ v.close \in {"new", "open", "made"} => v.task = "none"
        /\ v.close \in {"tasked", "done"} => v.task # "none"
        /\ v.close = "refused" => v.task \in {"none", "over"}
        /\ v.put => v.task \in {"closing", "over"}
        /\ v.close # "new" => v.at \in Paths
        /\ v.ref = Handles(f)'
    BY <1>3, <1>5, <1>8 DEF UploadInv
  <2>6. v.ref > 0 /\ v.ref # 0 /\ v.mv = "none"  BY <1>3, <1>5
  <2> QED  BY <1>6, <2>1, <2>3, <2>4, <2>5, <2>6 DEF UploadInv
<1>10. ASSUME NEW g \in Files \ {f}  PROVE UploadInv(g)'
  <2>1. \A s \in Paths : stage'[s] = g <=> stage[s] = g
    BY <1>2, <1>7, FtpStageAssumption
  <2> QED  BY <1>1, <1>2, <1>6, <2>1, UploadKept
<1>11. ASSUME NEW r \in Readers  PROVE ReaderInv(r)'
  BY <1>2, <1>7, FtpStageAssumption DEF IInv, ReaderInv
<1>12. StoreInv(f)'  BY <1>1, <1>2, <1>3, <1>5, <1>6, StoreSame
<1>13. \A g \in Files \ {f} : StoreInv(g)'  BY <1>1, <1>2, <1>6, StoreKept
<1>14. StoreType  BY <1>1, <1>2 DEF StoreType
<1> QED  BY <1>6, <1>7, <1>9, <1>10, <1>11, <1>12, <1>13, <1>14 DEF Kept

\* A removed file is no longer shown; its names and handles stay.
LEMMA RemoveStageStep ==
  ASSUME IInv, NEW p \in Paths, RemoveStage(p)
  PROVE  Kept /\ StoreType /\ \A g \in Files : StoreInv(g)'
<1>0. PICK f : f = stage[p]  OBVIOUS
<1> DEFINE u == up[f]  v == [u EXCEPT !.cur = NoPath, !.stop = u.cb]
<1>1. /\ TypeOK /\ up \in [Files -> Upload] /\ stage \in [Paths -> Files \cup {NoFile}]
      /\ store \in [Paths -> Files \cup {NoFile}] /\ disturbed \subseteq Files
      /\ \A g \in Files : UploadInv(g) /\ StoreInv(g)
  BY DEF IInv, TypeOK
<1>2. Shown(p) /\ UNCHANGED <<stage, reader, store, disturbed>> /\ up' = [up EXCEPT ![f] = v]
  BY <1>0 DEF RemoveStage
<1>3. /\ f \in Files /\ u \in Upload /\ UploadInv(f)
      /\ u.ref > 0 /\ u.mv = "none" /\ ~Fresh(f)
  BY <1>0, <1>2, ShownHasHandle
<1>4. v \in Upload  BY <1>3 DEF Upload
<1>5. /\ v.close = u.close /\ v.at = u.at /\ v.task = u.task /\ v.links = u.links
      /\ v.ref = u.ref /\ v.via = u.via /\ v.cur = NoPath /\ v.mv = u.mv
  BY <1>3 DEF Upload
<1>6. v.put = u.put  BY <1>3 DEF Upload
<1> HIDE DEF v
<1>7. up'[f] = v /\ \A g \in Files \ {f} : up'[g] = up[g]  BY <1>1, <1>2, <1>3
<1>8. /\ v.close # "new" /\ v.at \in Paths /\ v.close # "open"
      /\ v.close \in {"open", "made"} => v.task = "none"
      /\ v.close \in {"tasked", "done"} => v.task # "none"
      /\ v.close = "refused" => v.task = "over"
      /\ v.put => v.task \in {"closing", "over"}
  BY <1>3, <1>5, <1>6 DEF UploadInv, Fresh
<1>9. OwnHandle(f)' <=> OwnHandle(f)  BY <1>5, <1>7 DEF OwnHandle
<1>10. Kept
  <2> HIDE DEF u
  <2>1. /\ v.at = up[f].at /\ v.links = up[f].links /\ v.ref = up[f].ref
        /\ v.via = up[f].via /\ v.cur = NoPath /\ up[f].mv = "none" /\ v.mv = up[f].mv
        /\ v.task = up[f].task
    BY <1>3, <1>5 DEF u
  <2>2. /\ v.close = "open" \/ (v.close = "refused" /\ v.task = "none") => Fresh(f) /\ ~v.put
        /\ ~Fresh(f) => v.close # "open" /\ ~(v.close = "refused" /\ v.task = "none")
        /\ v.close = "refused" => v.task \in {"none", "over"}
        /\ v.task = "over" => up[f].task = "over"
    BY <1>8, <2>1
  <2> QED  BY <1>1, <1>2, <1>3, <1>4, <1>8, <1>9, <2>1, <2>2, RecordStep DEF Kept
<1>11. StoreInv(f)'  BY <1>1, <1>2, <1>3, <1>5, <1>6, <1>7, StoreSame
<1>12. \A g \in Files \ {f} : StoreInv(g)'  BY <1>1, <1>2, <1>7, StoreKept
<1> QED  BY <1>1, <1>2, <1>10, <1>11, <1>12 DEF StoreType

\* Clients change what the storage itself has: nobody's upload, so everyone's disturbance.
LEMMA StoredSteps ==
  ASSUME IInv, NEW p \in Paths,
         RemoveStored(p) \/ \E q \in Paths : RenameStored(p, q)
  PROVE  Kept /\ StoreType /\ \A g \in Files : StoreInv(g)'
<1>1. /\ TypeOK /\ up \in [Files -> Upload] /\ stage \in [Paths -> Files \cup {NoFile}]
      /\ store \in [Paths -> Files \cup {NoFile}] /\ disturbed \subseteq Files
      /\ \A g \in Files : UploadInv(g) /\ StoreInv(g)
  BY DEF IInv, TypeOK
<1>2. UNCHANGED <<stage, up, reader>>
  BY DEF RemoveStored, RenameStored
<1>3. PICK s \in [Paths -> Files \cup {NoFile}] : Change(s, NoFile)
  <2>1. CASE RemoveStored(p)
    BY <1>1, <2>1 DEF RemoveStored
  <2>2. ASSUME NEW q \in Paths, RenameStored(p, q)
        PROVE  \E s \in [Paths -> Files \cup {NoFile}] : Change(s, NoFile)
    <3>1. Moved(p, q) \in [Paths -> Files \cup {NoFile}]  BY <1>1 DEF Moved
    <3> QED  BY <2>2, <3>1 DEF RenameStored
  <2> QED  BY <2>1, <2>2
<1>4. \A g \in Files : UploadInv(g)'  BY <1>1, <1>2, UploadKept
<1>5. \A r \in Readers : ReaderInv(r)'  BY <1>2 DEF IInv, ReaderInv
<1>6. \A g \in Files : StoreInv(g)'
  BY <1>1, <1>2, <1>3, FtpStageAssumption, StoreKept
<1>7. StoreType  BY <1>1, <1>3 DEF StoreType, Change
<1> QED  BY <1>1, <1>2, <1>4, <1>5, <1>6, <1>7 DEF Kept

-----------------------------------------------------------------------------
(* Theorems                                                                *)

LEMMA InitInv == Init => IInv
<1> SUFFICES ASSUME Init  PROVE IInv
  OBVIOUS
<1>1. NewUpload \in Upload
  BY DEF NewUpload, Upload
<1>2. Idle \in [path : Paths \cup {NoPath}, file : Files \cup {NoFile}]
  BY DEF Idle
<1>3. TypeOK  BY <1>1, <1>2 DEF Init, TypeOK
<1>4. ASSUME NEW f \in Files  PROVE UploadInv(f) /\ StoreInv(f)
  <2>1. up[f] = NewUpload /\ (\A r \in Readers : reader[r].file # f) /\ \A p \in Paths : stage[p] # f
    BY FtpStageAssumption, IdleHasNoFile DEF Init
  <2>2. Handles(f) = 0
    <3>1. Holding(reader, f) = {}  BY <2>1 DEF Holding
    <3>2. ~OwnHandle(f)  BY <2>1 DEF OwnHandle, NewUpload
    <3> QED  BY <3>1, <3>2, HandlesCount, HoldingFinite, FS_EmptySet
  <2>3. Fresh(f)  BY <2>1 DEF Fresh, NewUpload
  <2>4. UploadInv(f)  BY <2>1, <2>2, <2>3 DEF UploadInv, NewUpload
  <2>5. StoreInv(f)  BY <2>1 DEF StoreInv, NewUpload
  <2> QED  BY <2>4, <2>5
<1>5. ASSUME NEW r \in Readers  PROVE ReaderInv(r)
  BY DEF Init, ReaderInv
<1> QED  BY <1>3, <1>4, <1>5 DEF IInv

\* Every step of the module keeps the reader's record well-formed.
LEMMA ReaderType ==
  ASSUME IInv, Next
  PROVE  reader' \in [Readers -> [path : Paths \cup {NoPath}, file : Files \cup {NoFile}]]
<1>1. /\ reader \in [Readers -> [path : Paths \cup {NoPath}, file : Files \cup {NoFile}]]
      /\ stage \in [Paths -> Files \cup {NoFile}]
      /\ Idle \in [path : Paths \cup {NoPath}, file : Files \cup {NoFile}]
  BY DEF IInv, TypeOK, Idle
<1>2. ASSUME NEW r \in Readers, NEW p \in Paths, Borrow(r, p)
      PROVE  reader' \in [Readers -> [path : Paths \cup {NoPath}, file : Files \cup {NoFile}]]
  BY <1>1, <1>2 DEF Borrow
<1>3. ASSUME NEW r \in Readers, ReaderCloses(r)
      PROVE  reader' \in [Readers -> [path : Paths \cup {NoPath}, file : Files \cup {NoFile}]]
  BY <1>1, <1>3 DEF ReaderCloses
<1>4. CASE UNCHANGED reader  BY <1>1, <1>4
<1>5. \/ UNCHANGED reader
      \/ \E r \in Readers : ReaderCloses(r) \/ \E p \in Paths : Borrow(r, p)
  BY DEF Next, Open, MakeStage, Submit, SubmitFails, SetRemoveCallback, TaskPuts, TaskFails,
         TaskCloses, MvRename, MvMove, RemoveStage, RemoveStored, MoveStage, RenameStored
<1> QED  BY <1>2, <1>3, <1>4, <1>5

LEMMA StepInv == IInv /\ [Next]_vars => IInv'
<1> SUFFICES ASSUME IInv, [Next]_vars  PROVE IInv'
  OBVIOUS
<1>1. CASE Next
  <2>1. Kept /\ StoreType /\ \A g \in Files : StoreInv(g)'
    <3>1. ASSUME NEW f \in Files, \E p \in Paths : Open(f, p)
          PROVE  Kept /\ StoreType /\ \A g \in Files : StoreInv(g)'
      BY <3>1, UploadSteps
    <3>2. ASSUME NEW f \in Files, Submit(f) \/ SetRemoveCallback(f) \/ TaskPuts(f)
          PROVE  Kept /\ StoreType /\ \A g \in Files : StoreInv(g)'
      BY <3>2, UploadSteps
    <3>3. ASSUME NEW f \in Files, MakeStage(f)
          PROVE  Kept /\ StoreType /\ \A g \in Files : StoreInv(g)'
      BY <3>3, MakeStageStep
    <3>4. ASSUME NEW f \in Files, SubmitFails(f) \/ TaskFails(f) \/ TaskCloses(f)
          PROVE  Kept /\ StoreType /\ \A g \in Files : StoreInv(g)'
      BY <3>4, OwnDropSteps
    <3>5. ASSUME NEW f \in Files, MvRename(f) \/ MvMove(f)
          PROVE  Kept /\ StoreType /\ \A g \in Files : StoreInv(g)'
      BY <3>5, MvSteps
    <3>6. ASSUME NEW r \in Readers, ReaderCloses(r) \/ \E p \in Paths : Borrow(r, p)
          PROVE  Kept /\ StoreType /\ \A g \in Files : StoreInv(g)'
      BY <3>6, ReaderClosesStep, BorrowStep
    <3>7. ASSUME NEW p \in Paths, RemoveStage(p)
          PROVE  Kept /\ StoreType /\ \A g \in Files : StoreInv(g)'
      BY <3>7, RemoveStageStep
    <3>8. ASSUME NEW p \in Paths, RemoveStored(p) \/ \E q \in Paths : RenameStored(p, q)
          PROVE  Kept /\ StoreType /\ \A g \in Files : StoreInv(g)'
      BY <3>8, StoredSteps
    <3>9. ASSUME NEW p \in Paths, NEW q \in Paths, MoveStage(p, q)
          PROVE  Kept /\ StoreType /\ \A g \in Files : StoreInv(g)'
      BY <3>9, MoveStageStep
    <3> QED  BY <1>1, <3>1, <3>2, <3>3, <3>4, <3>5, <3>6, <3>7, <3>8, <3>9 DEF Next
  <2>2. TypeOK'  BY <1>1, <2>1, ReaderType DEF TypeOK, Kept, StoreType
  <2> QED  BY <2>1, <2>2 DEF IInv, Kept
<1>2. CASE UNCHANGED vars
  <2>1. UNCHANGED <<stage, up, reader, store, disturbed>>  BY <1>2 DEF vars
  <2>2. TypeOK'  BY <2>1 DEF IInv, TypeOK
  <2>3. \A f \in Files : UploadInv(f)'  BY <2>1, UploadKept DEF IInv
  <2>4. \A f \in Files : StoreInv(f)'  BY <2>1, StoreKept DEF IInv
  <2>5. \A r \in Readers : ReaderInv(r)'  BY <2>1 DEF IInv, ReaderInv
  <2> QED  BY <2>2, <2>3, <2>4, <2>5 DEF IInv
<1> QED  BY <1>1, <1>2

\* The inductive invariant holds in every reachable state.
THEOREM Invariance == Spec => []IInv
<1> QED  BY InitInv, StepInv, PTL DEF Spec

\* upload_stage.go: the type invariant.
THEOREM TypeCorrect == Spec => []TypeOK
<1>1. IInv => TypeOK  BY DEF IInv
<1> QED  BY <1>1, Invariance, PTL

\* drop (upload_stage.go) finds the file its handle was borrowed for by the name the
\* handle remembers, whatever renames and removals came between, and the reference
\* count is the number of open handles.
THEOREM EveryDropIsItsOwn == Spec => []DropsItsOwn
<1>1. IInv => DropsItsOwn
  <2> SUFFICES ASSUME IInv  PROVE DropsItsOwn
    OBVIOUS
  <2>1. \A r \in Readers : reader[r] # Idle => stage[reader[r].path] = reader[r].file
    BY DEF IInv, ReaderInv
  <2>2. ASSUME NEW f \in Files, OwnHandle(f)  PROVE stage[up[f].at] = f
    <3>1. UploadInv(f) /\ up[f] \in Upload  BY DEF IInv, TypeOK
    <3>2. up[f].ref > 0  BY <2>2, <3>1, HandlesCount DEF UploadInv, Upload
    <3> QED  BY <3>1, <3>2 DEF UploadInv, Fresh
  <2>3. \A f \in Files : up[f].ref = Handles(f)  BY DEF IInv, UploadInv
  <2> QED  BY <2>1, <2>2, <2>3 DEF DropsItsOwn
<1> QED  BY <1>1, Invariance, PTL

\* A name is still taken only while its file has a holder, but for the first name of a
\* file whose last holder knew it by another (drop forgets that one).
THEOREM NamesComeFree == Spec => []NamesFreed
<1>1. IInv => NamesFreed
  <2> SUFFICES ASSUME IInv, NEW p \in Paths, Staged(p), NEW f, f = stage[p]
               PROVE  up[f].ref > 0 \/ (p = up[f].at /\ up[f].via \in up[f].links)
    BY DEF NamesFreed
  <2>1. f \in Files /\ up[f] \in Upload /\ UploadInv(f)  BY DEF IInv, TypeOK, Staged
  <2> QED  BY <2>1 DEF UploadInv, Upload
<1> QED  BY <1>1, Invariance, PTL

\* mvCallback brings the storage up to the renames of a staged file: what was renamed
\* while it was uploaded ends under its new name.
THEOREM RenamesReachTheStorage == Spec => []RenameLands
<1>1. IInv => RenameLands
  <2> SUFFICES ASSUME IInv, NEW f \in Files, up[f].put, up[f].task = "over", up[f].ref = 0,
                      up[f].mv \in {"none", "done"}, up[f].cur # NoPath, f \notin disturbed,
                      up[f].via \in {up[f].at} \cup (up[f].links \ {up[f].cur})
               PROVE  store[up[f].cur] = f
    BY DEF RenameLands
  <2>1. UploadInv(f) /\ StoreInv(f)  BY DEF IInv
  <2>2. CASE up[f].mv = "done"  BY <2>1, <2>2 DEF StoreInv
  <2>3. CASE up[f].mv = "none"
    <3>1. up[f].cur = up[f].via  BY <2>1, <2>3 DEF UploadInv
    <3>2. up[f].cur = up[f].at  BY <3>1
    <3> QED  BY <2>1, <2>3, <3>2 DEF StoreInv
  <2> QED  BY <2>2, <2>3
<1> QED  BY <1>1, Invariance, PTL
=============================================================================
