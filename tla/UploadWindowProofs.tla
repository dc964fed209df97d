-------------------------- MODULE UploadWindowProofs --------------------------
(***************************************************************************)
(* Theorems about the ring of UploadWindow, for every chunk size, file     *)
(* size, number of slots, set of requests and set of contents.             *)
(***************************************************************************)
EXTENDS UploadWindow, SequenceTheorems, FiniteSetTheorems, WellFoundedInduction, TLAPS

-----------------------------------------------------------------------------
(* Arithmetic of the ring                                                  *)

\* The quotient of a division is determined by its bounds.
LEMMA DivUnique ==
  ASSUME NEW a \in Nat, NEW n \in Nat \ {0}, NEW q \in Nat,
         q * n <= a, a < q * n + n
  PROVE  a \div n = q
BY SMT

\* The bounds of the quotient: used for the chunk that holds byte a.
LEMMA DivBounds ==
  ASSUME NEW a \in Nat, NEW n \in Nat \ {0}
  PROVE  /\ a \div n \in Nat
         /\ (a \div n) * n <= a
         /\ a < (a \div n) * n + n
BY SMT

\* Two chunks that map to the same slot are a multiple of Slots apart: in a
\* window of Slots chunks they are the same.
LEMMA SameSlot ==
  ASSUME NEW i \in Nat, NEW j \in Nat, NEW n \in Nat \ {0},
         i % n = j % n, i <= j, j < i + n
  PROVE  i = j
<1>1. ASSUME NEW x \in Int, NEW y \in Int, NEW r \in Int,
             i = n * x + r, j = n * y + r
      PROVE  i = j
  <2>1. n * x \in Int /\ n * y \in Int  OBVIOUS
  <2>2. n * x <= n * y /\ n * y < n * x + n  BY <1>1, <2>1
  <2>3. x = y  BY <2>2
  <2> QED  BY <1>1, <2>3
<1>2. /\ i = n * (i \div n) + (i % n)
      /\ j = n * (j \div n) + (j % n)
      /\ i \div n \in Int /\ j \div n \in Int /\ i % n \in Int
  OBVIOUS
<1> QED  BY <1>1, <1>2

\* TotalChunks and ChunkLen: the chunks tile the file.
LEMMA Tiling ==
  /\ Total \in Nat \ {0}
  /\ Total * ChunkSize >= TotalSize
  /\ (Total - 1) * ChunkSize < TotalSize
  /\ \A i \in Chunks :
       /\ ChunkLen(i) \in 1 .. ChunkSize
       /\ i * ChunkSize + ChunkLen(i) <= TotalSize
       /\ i = Total - 1 => i * ChunkSize + ChunkLen(i) = TotalSize
       /\ i # Total - 1 => ChunkLen(i) = ChunkSize
       /\ SlotOf(i) \in SlotIds
<1> USE WindowAssumption
<1> DEFINE a == TotalSize + ChunkSize - 1
<1>1. a \in Nat  OBVIOUS
<1>2. /\ Total \in Nat
      /\ Total * ChunkSize <= a
      /\ a < Total * ChunkSize + ChunkSize
  BY <1>1, DivBounds DEF Total
<1>3. Total # 0  BY <1>2
<1>4. (Total - 1) * ChunkSize = Total * ChunkSize - ChunkSize  BY <1>2
<1>5. Total * ChunkSize >= TotalSize /\ (Total - 1) * ChunkSize < TotalSize
  BY <1>2, <1>4
<1>6. ASSUME NEW i \in Chunks
      PROVE  /\ ChunkLen(i) \in 1 .. ChunkSize
             /\ i * ChunkSize + ChunkLen(i) <= TotalSize
             /\ i = Total - 1 => i * ChunkSize + ChunkLen(i) = TotalSize
             /\ i # Total - 1 => ChunkLen(i) = ChunkSize
  <2>1. i \in Nat /\ i <= Total - 1  BY <1>2, <1>3 DEF Chunks
  <2>2. CASE i = Total - 1
    <3>1. i * ChunkSize \in Nat  BY <2>1
    <3> QED  BY <1>2, <1>4, <1>5, <2>2, <3>1 DEF ChunkLen
  <2>3. CASE i # Total - 1
    <3>1. i <= Total - 2  BY <2>1, <2>3, <1>2
    <3>2. \A x, y \in Nat : x <= y => x * ChunkSize <= y * ChunkSize  BY SMT
    <3>3. (i + 1) * ChunkSize <= (Total - 1) * ChunkSize
      BY <3>1, <3>2, <2>1, <1>2, <1>3
    <3>4. (i + 1) * ChunkSize = i * ChunkSize + ChunkSize  BY <2>1
    <3>5. i * ChunkSize \in Nat /\ (Total - 1) * ChunkSize \in Int
      BY <1>2, <2>1
    <3>6. ChunkLen(i) = ChunkSize  BY <2>3 DEF ChunkLen
    <3> HIDE DEF a
    <3> QED  BY ONLY <1>5, <2>3, <3>3, <3>4, <3>5, <3>6, WindowAssumption
  <2> QED  BY <2>2, <2>3
<1>7. \A i \in Chunks : SlotOf(i) \in SlotIds
  BY <1>2 DEF Chunks, SlotOf, SlotIds
<1> QED  BY <1>2, <1>3, <1>5, <1>6, <1>7

EndAt(p) == FrontierAt(p) * ChunkSize + ChunkLen(FrontierAt(p))

\* The frontier is the chunk that holds the next byte to read.
LEMMA FrontierBounds ==
  ASSUME NEW p \in 0 .. TotalSize
  PROVE  /\ FrontierAt(p) \in 0 .. Total
         /\ p < TotalSize => /\ FrontierAt(p) \in Chunks
                             /\ FrontierAt(p) * ChunkSize <= p
                             /\ p < EndAt(p)
                             /\ EndAt(p) <= TotalSize
<1> USE WindowAssumption
<1>1. CASE p >= TotalSize
  BY <1>1, Tiling DEF FrontierAt
<1>2. CASE p < TotalSize
  <2> DEFINE q == p \div ChunkSize
  <2>1. q \in Nat /\ q * ChunkSize <= p /\ p < q * ChunkSize + ChunkSize
    BY DivBounds
  <2>2. FrontierAt(p) = q  BY <1>2 DEF FrontierAt
  <2>3. q < Total
    <3> SUFFICES ASSUME q >= Total PROVE FALSE  BY <2>1, Tiling
    <3>1. \A x, y \in Nat : x <= y => x * ChunkSize <= y * ChunkSize  BY SMT
    <3>2. Total * ChunkSize <= q * ChunkSize  BY <2>1, <3>1, Tiling
    <3> QED  BY <1>2, <2>1, <3>2, Tiling
  <2>4. q \in Chunks  BY <2>1, <2>3, Tiling DEF Chunks
  <2> HIDE DEF q
  <2>5. p < q * ChunkSize + ChunkLen(q)
    BY <1>2, <2>1, <2>4, Tiling
  <2> QED  BY <1>2, <2>1, <2>2, <2>3, <2>4, <2>5, Tiling DEF EndAt
<1> QED  BY <1>1, <1>2

\* Reading up to the end of the current chunk, and no further, moves the
\* frontier by one exactly when the end is reached.
LEMMA FrontierAdvance ==
  ASSUME NEW p \in 0 .. TotalSize, p < TotalSize,
         NEW q \in p .. EndAt(p)
  PROVE  /\ q <= TotalSize
         /\ q < EndAt(p) => FrontierAt(q) = FrontierAt(p)
         /\ q >= EndAt(p) => FrontierAt(q) = FrontierAt(p) + 1
         /\ q < EndAt(p) => q \div ChunkSize = FrontierAt(p)
<1> USE WindowAssumption
<1> DEFINE f == FrontierAt(p)
<1>1. /\ f \in Chunks /\ f \in Nat /\ f * ChunkSize <= p
      /\ EndAt(p) = f * ChunkSize + ChunkLen(f) /\ EndAt(p) <= TotalSize
      /\ ChunkLen(f) \in 1 .. ChunkSize
      /\ f * ChunkSize \in Nat /\ f <= Total - 1 /\ Total \in Nat
  BY FrontierBounds, Tiling DEF EndAt, Chunks
<1> HIDE DEF f
<1>2. q \in Nat /\ q <= TotalSize  BY <1>1
<1>3. CASE q < EndAt(p)
  <2>1. q \div ChunkSize = f  BY <1>1, <1>2, <1>3, DivUnique
  <2>2. FrontierAt(q) = f  BY <1>1, <1>2, <1>3, <2>1 DEF FrontierAt
  <2> QED  BY <1>1, <1>2, <1>3, <2>1, <2>2 DEF f
<1>4. CASE q >= EndAt(p)
  <2>1. q = EndAt(p)  BY <1>1, <1>4
  <2>2. CASE f = Total - 1
    <3>1. q = TotalSize  BY <1>1, <2>1, <2>2, Tiling
    <3> QED  BY <1>1, <1>2, <2>1, <2>2, <3>1 DEF FrontierAt, f
  <2>3. CASE f # Total - 1
    <3>1. q = (f + 1) * ChunkSize  BY <1>1, <2>1, <2>3, Tiling
    <3>2. f + 1 \in Chunks  BY <1>1, <2>3 DEF Chunks
    <3>3. q < TotalSize  BY <1>1, <1>2, <3>1, <3>2, Tiling
    <3>4. q \div ChunkSize = f + 1  BY <1>1, <1>2, <3>1, DivUnique
    <3> QED  BY <1>1, <1>2, <2>1, <3>3, <3>4 DEF FrontierAt, f
  <2> QED  BY <2>2, <2>3
<1> QED  BY <1>3, <1>4, <1>1

-----------------------------------------------------------------------------
(* Type correctness                                                        *)

\* Every step of the window, written once for the case splits below.
LEMMA NextCases ==
  ASSUME Next
  PROVE  \/ \E w \in Writers : \/ AdmitReturns(w) \/ AdmitTakesSlot(w)
                               \/ AdmitTimesOut(w) \/ AdmitParks(w)
                               \/ DeadlinePasses(w) \/ TimerFires(w)
                               \/ CopyByte(w) \/ CopyEnds(w) \/ StallBreaks(w)
                               \/ CommitLost(w) \/ CommitFails(w) \/ CommitReady(w)
         \/ \E w \in Writers, i \in Chunks, c \in Contents, fate \in Fates :
              CallWrite(w, i, c, fate)
         \/ \E n \in 1 .. ChunkSize : CallRead(n)
         \/ ReadReturns \/ ReadFinds \/ ReadParks \/ ReadAt \/ ReadUpdates
         \/ Close \/ CloseFile
BY DEF Next, WriterStep, ReaderStep, Admit, Copy, Commit

\* The slot of a call, the bytes it still has to copy, and the chunk under the
\* reader are in range.
LEMMA CallRange ==
  ASSUME TypeOK, NEW w \in Writers
  PROVE  /\ call[w].idx \in Chunks
         /\ call[w].idx \in Nat
         /\ call[w].content \in Contents
         /\ SlotOf(call[w].idx) \in SlotIds
         /\ ChunkLen(call[w].idx) \in 1 .. ChunkSize
         /\ Payload(w) \in 0 .. ChunkLen(call[w].idx)
<1>1. call[w] \in Calls  BY DEF TypeOK
<1>2. call[w].idx \in Chunks /\ call[w].content \in Contents  BY <1>1 DEF Calls
<1>3. call[w].idx \in Nat  BY <1>2, Tiling DEF Chunks
<1> QED  BY <1>2, <1>3, Tiling DEF Payload

LEMMA CurrentChunk ==
  ASSUME TypeOK, readPos < TotalSize
  PROVE  /\ frontier \in Chunks /\ frontier \in Nat
         /\ SlotOf(frontier) \in SlotIds
         /\ ChunkLen(frontier) \in 1 .. ChunkSize
         /\ ChunkStart \in Nat /\ ChunkEnd \in Nat
         /\ ChunkEnd = ChunkStart + ChunkLen(frontier)
         /\ ChunkEnd = EndAt(readPos)
         /\ ChunkStart <= readPos /\ readPos < ChunkEnd /\ ChunkEnd <= TotalSize
         /\ readPos \in Nat
<1> USE WindowAssumption
<1>1. readPos \in 0 .. TotalSize  BY DEF TypeOK
<1>2. /\ frontier \in Chunks /\ ChunkStart <= readPos
      /\ readPos < EndAt(readPos) /\ EndAt(readPos) <= TotalSize
  BY <1>1, FrontierBounds DEF frontier, ChunkStart
<1>3. frontier \in Nat  BY <1>2, Tiling DEF Chunks
<1>4. ChunkEnd = EndAt(readPos)  BY DEF ChunkEnd, ChunkStart, EndAt, frontier
<1>5. ChunkStart \in Nat  BY <1>3 DEF ChunkStart
<1>6. ChunkLen(frontier) \in 1 .. ChunkSize /\ SlotOf(frontier) \in SlotIds
  BY <1>2, Tiling
<1> QED  BY <1>1, <1>2, <1>3, <1>4, <1>5, <1>6 DEF ChunkEnd

LEMMA TypeStep ==
  ASSUME IInv, Next
  PROVE  TypeOK'
<1> USE WindowAssumption DEF callVars, slotVars, readerVars
<1>0. TypeOK  BY DEF IInv
<1>1. ASSUME NEW w \in Writers,
             \/ AdmitReturns(w) \/ AdmitTimesOut(w) \/ CommitLost(w)
      PROVE  TypeOK'
  <2>1. \E r \in Results : Return(w, r)
    BY <1>1 DEF AdmitReturns, AdmitTimesOut, CommitLost, Results
  <2> QED  BY <1>0, <2>1 DEF Return, FrameEnds, TypeOK
<1>2. ASSUME NEW w \in Writers, AdmitTakesSlot(w)
      PROVE  TypeOK'
  BY <1>0, <1>2, CallRange DEF AdmitTakesSlot, TypeOK
<1>3. ASSUME NEW w \in Writers, \/ AdmitParks(w) \/ DeadlinePasses(w) \/ CopyEnds(w) \/ StallBreaks(w)
      PROVE  TypeOK'
  BY <1>0, <1>3 DEF AdmitParks, DeadlinePasses, CopyEnds, StallBreaks, Stalled, TypeOK
<1>4. ASSUME NEW w \in Writers, TimerFires(w)
      PROVE  TypeOK'
  BY <1>0, <1>4 DEF TimerFires, WakeAll, TypeOK
<1>5. ASSUME NEW w \in Writers, CopyByte(w)
      PROVE  TypeOK'
  <2>1. copied[w] + 1 \in 0 .. ChunkSize /\ copied[w] \in Offsets
    BY <1>0, <1>5, CallRange DEF CopyByte, TypeOK, Offsets
  <2> QED  BY <1>0, <1>5, <2>1, CallRange DEF CopyByte, TypeOK
<1>6. ASSUME NEW w \in Writers, CommitFails(w)
      PROVE  TypeOK'
  BY <1>0, <1>6, CallRange DEF CommitFails, FrameEnds, TypeOK, Results
<1>7. ASSUME NEW w \in Writers, CommitReady(w)
      PROVE  TypeOK'
  BY <1>0, <1>7, CallRange DEF CommitReady, FrameEnds, WakeAll, TypeOK, Results
<1>8. ASSUME NEW w \in Writers, NEW i \in Chunks, NEW c \in Contents,
             NEW fate \in Fates, CallWrite(w, i, c, fate)
      PROVE  TypeOK'
  BY <1>0, <1>8 DEF CallWrite, TypeOK, Calls, Results
<1>9. ASSUME NEW n \in 1 .. ChunkSize, CallRead(n)
      PROVE  TypeOK'
  BY <1>0, <1>9 DEF CallRead, TypeOK
<1>10. ASSUME ReadReturns \/ ReadParks \/ CloseFile
       PROVE  TypeOK'
  BY <1>0, <1>10 DEF ReadReturns, ReadParks, CloseFile, TypeOK
<1>11. ASSUME ReadFinds
       PROVE  TypeOK'
  <2>1. want' \in 0 .. ChunkSize
    BY <1>0, <1>11, CurrentChunk DEF ReadFinds, TypeOK
  <2> QED  BY <1>0, <1>11, <2>1 DEF ReadFinds, TypeOK
<1>12. ASSUME ReadAt
       PROVE  TypeOK'
  <2>1. PICK n \in 0 .. want :
          got' = [k \in 1 .. n |-> ring[SlotOf(frontier)][readPos - ChunkStart + k - 1]]
    BY <1>12 DEF ReadAt
  <2>2. readPos < TotalSize /\ readPos + want <= ChunkEnd /\ want \in Nat
    BY <1>0, <1>12 DEF ReadAt, IInv, ReaderInv, Reading, TypeOK
  <2>3. /\ SlotOf(frontier) \in SlotIds
        /\ \A k \in 1 .. n : readPos - ChunkStart + k - 1 \in Offsets
    BY <1>0, <2>2, CurrentChunk DEF Offsets
  <2>4. got' \in Seq(Contents \cup {NoContent})
    BY <1>0, <2>1, <2>2, <2>3 DEF TypeOK
  <2> QED  BY <1>0, <1>12, <2>4 DEF ReadAt, TypeOK
<1>13. ASSUME ReadUpdates
       PROVE  TypeOK'
  <2>1. /\ readPos < TotalSize /\ readPos + want <= ChunkEnd
        /\ Len(got) <= want /\ want \in Nat /\ Len(got) \in Nat
    BY <1>0, <1>13 DEF ReadUpdates, IInv, ReaderInv, Reading, TypeOK
  <2>2. readPos' \in 0 .. TotalSize /\ SlotOf(frontier) \in SlotIds
    BY <1>0, <1>13, <2>1, CurrentChunk DEF ReadUpdates
  <2>3. out' \in Seq(Contents \cup {NoContent}) /\ got' \in Seq(Contents \cup {NoContent})
    BY <1>0, <1>13 DEF ReadUpdates, TypeOK
  <2>4. /\ slotState' \in [SlotIds -> {"free", "filling", "ready"}]
        /\ slotChunk' \in [SlotIds -> Chunks \cup {-1}]
        /\ pc' \in [Writers -> {"idle", "admit", "parked", "copy", "commit"}]
    BY <1>0, <1>13, <2>2 DEF ReadUpdates, WakeWriters, TypeOK
  <2>5. rpc' \in {"idle", "failed"}  BY <1>13 DEF ReadUpdates
  <2>6. UNCHANGED <<crcs, err, file, ring, call, copied, late, timer, res, want, faults>>
    BY <1>13 DEF ReadUpdates
  <2> QED  BY <1>0, <2>2, <2>3, <2>4, <2>5, <2>6 DEF TypeOK
<1>14. ASSUME Close
       PROVE  TypeOK'
  BY <1>0, <1>14 DEF Close, WakeWriters, TypeOK
<1> QED
  BY <1>1, <1>2, <1>3, <1>4, <1>5, <1>6, <1>7, <1>8, <1>9, <1>10, <1>11, <1>12,
     <1>13, <1>14, NextCases

-----------------------------------------------------------------------------
(* The inductive invariant                                                 *)

LEMMA InitInv == Init => IInv
<1> SUFFICES ASSUME Init PROVE IInv  OBVIOUS
<1> USE WindowAssumption DEF Init
<1>1. TypeOK
  <2>1. 0 \in Chunks  BY Tiling DEF Chunks
  <2>2. call \in [Writers -> Calls]  BY <2>1 DEF Calls, Fates
  <2> QED  BY <2>2 DEF TypeOK, Results
<1>2. WindowBound  BY DEF WindowBound
<1>3. OwnerInv  BY DEF OwnerInv, OwnsSlot, Owner
<1>4. AcceptedInv  BY DEF AcceptedInv
<1>5. ReaderInv  BY DEF ReaderInv, Reading
<1>6. StreamIntact  BY DEF StreamIntact
<1> QED  BY <1>1, <1>2, <1>3, <1>4, <1>5, <1>6 DEF IInv

\* A step that leaves slots, bytes and positions alone, makes no new owner of a
\* slot and starts no read preserves everything but the types.
LEMMA QuietStep ==
  ASSUME IInv, TypeOK',
         UNCHANGED <<slotState, slotChunk, readPos, crcs, err, ring, got, out>>,
         \A w \in Writers : Owner(w)' =>
            Owner(w) /\ call'[w] = call[w] /\ copied'[w] = copied[w],
         Reading' => Reading /\ rpc' = rpc /\ want' = want,
         rpc' = "idle" \/ want' > 0
  PROVE  IInv'
<1>1. /\ frontier' = frontier /\ ChunkEnd' = ChunkEnd
      /\ \A i : Filled(i)' <=> Filled(i)
      /\ \A i, st : Holds(i, st)' <=> Holds(i, st)
  BY DEF frontier, ChunkEnd, ChunkStart, Filled, Holds
<1>2. WindowBound'  BY <1>1 DEF IInv, WindowBound
<1>3. OwnerInv'
  <2> SUFFICES ASSUME NEW w \in Writers, Owner(w)'
               PROVE  OwnsSlot(w)'
    BY DEF OwnerInv
  <2> QED  BY <1>1 DEF IInv, OwnerInv, OwnsSlot
<1>4. AcceptedInv'  BY <1>1 DEF IInv, AcceptedInv
<1>5. ReaderInv'  BY <1>1 DEF IInv, ReaderInv, Reading
<1>6. StreamIntact'  BY DEF IInv, StreamIntact
<1> QED  BY <1>2, <1>3, <1>4, <1>5, <1>6 DEF IInv

\* An owner's slot is in use while the window is open: no other chunk holds it,
\* the reader is not on it.
LEMMA OwnerSlot ==
  ASSUME IInv, NEW w \in Writers, Owner(w), err = "none"
  PROVE  /\ slotState[SlotOf(call[w].idx)] = "filling"
         /\ slotChunk[SlotOf(call[w].idx)] = call[w].idx
         /\ crcs[call[w].idx] = NoContent
BY DEF IInv, OwnerInv, OwnsSlot, Holds

\* A chunk that WriteChunk does not answer as consumed is not behind the frontier.
LEMMA NotBehind ==
  ASSUME TypeOK, NEW i \in Chunks, ~Consumed(i)
  PROVE  i >= frontier
<1> USE WindowAssumption
<1>1. /\ i \in Nat /\ ChunkLen(i) \in 1 .. ChunkSize /\ i * ChunkSize \in Nat
      /\ i * ChunkSize + ChunkLen(i) <= TotalSize
      /\ readPos \in 0 .. TotalSize
  BY Tiling DEF Chunks, TypeOK
<1>2. readPos < TotalSize  BY <1>1 DEF Consumed
<1>3. frontier \in Nat /\ ChunkStart <= readPos /\ ChunkStart = frontier * ChunkSize
  BY <1>2, CurrentChunk DEF ChunkStart
<1> SUFFICES ASSUME i < frontier PROVE FALSE  BY <1>1, <1>3
<1>4. \A x, y \in Nat : x <= y => x * ChunkSize <= y * ChunkSize  BY SMT
<1>5. (i + 1) * ChunkSize <= frontier * ChunkSize  BY <1>1, <1>3, <1>4
<1>6. (i + 1) * ChunkSize = i * ChunkSize + ChunkSize  BY <1>1
<1>7. frontier * ChunkSize \in Nat  BY <1>3
<1> QED  BY <1>1, <1>3, <1>5, <1>6, <1>7 DEF Consumed

\* A slot in use holds a chunk of the file that maps to it.
LEMMA UsedSlot ==
  ASSUME IInv, NEW t \in SlotIds, slotState[t] # "free"
  PROVE  /\ err = "none" /\ slotChunk[t] \in Chunks /\ SlotOf(slotChunk[t]) = t
         /\ slotChunk[t] >= frontier /\ slotChunk[t] < frontier + Slots
<1> USE WindowAssumption
<1>1. /\ err = "none" /\ SlotOf(slotChunk[t]) = t
      /\ slotChunk[t] \in frontier .. frontier + Slots - 1
  BY DEF IInv, WindowBound
<1>2. frontier \in Nat
  BY FrontierBounds, Tiling DEF IInv, TypeOK, frontier
<1>3. slotChunk[t] \in Chunks \cup {-1}  BY DEF IInv, TypeOK
<1> QED  BY <1>1, <1>2, <1>3

LEMMA StepTakesSlot ==
  ASSUME IInv, TypeOK', NEW w \in Writers, AdmitTakesSlot(w)
  PROVE  IInv'
<1> USE WindowAssumption
<1> DEFINE i == call[w].idx
           s == SlotOf(i)
<1>0. /\ TypeOK /\ i \in Chunks /\ i \in Nat /\ s \in SlotIds
      /\ err = "none" /\ slotState[s] = "free" /\ i < frontier + Slots
      /\ ~Consumed(i) /\ ~Holds(i, "ready")
      /\ pc[w] = "admit"
      /\ slotState' = [slotState EXCEPT ![s] = "filling"]
      /\ slotChunk' = [slotChunk EXCEPT ![s] = i]
      /\ pc' = [pc EXCEPT ![w] = "copy"]
      /\ copied' = [copied EXCEPT ![w] = 0]
      /\ UNCHANGED <<readPos, crcs, err, ring, call, rpc, want, got, out>>
  BY CallRange DEF IInv, AdmitTakesSlot, Undecided, Admissible, readerVars
<1>1. i >= frontier  BY <1>0, NotBehind
<1>2. crcs[i] = NoContent  BY <1>0, <1>1, FrontierBounds DEF IInv, AcceptedInv, TypeOK, frontier
<1>3. /\ frontier' = frontier /\ ChunkEnd' = ChunkEnd /\ frontier \in Int
      /\ \A j : Filled(j)' <=> Filled(j)
      /\ \A j : SlotOf(j)' = SlotOf(j)
  BY <1>0, FrontierBounds DEF frontier, ChunkEnd, ChunkStart, Filled, TypeOK
<1>4. ASSUME NEW j, SlotOf(j) # s, NEW st
      PROVE  Holds(j, st)' <=> Holds(j, st)
  BY <1>0, <1>4 DEF Holds
<1>5. ASSUME NEW j, Holds(j, "ready"), SlotOf(j) = s
      PROVE  FALSE
  BY <1>0, <1>5 DEF Holds
<1>6. WindowBound'
  <2> SUFFICES ASSUME NEW t \in SlotIds
               PROVE  (IF slotState[t] = "free"
                         THEN slotChunk[t] = -1
                         ELSE /\ err = "none"
                              /\ slotChunk[t] \in frontier .. frontier + Slots - 1
                              /\ SlotOf(slotChunk[t]) = t)'
    BY DEF WindowBound
  <2>1. CASE t = s
    BY <1>0, <1>1, <1>3, <2>1 DEF TypeOK
  <2>2. CASE t # s
    BY <1>0, <1>3, <2>2 DEF IInv, WindowBound, TypeOK
  <2> QED  BY <2>1, <2>2
<1>7. OwnerInv'
  <2> SUFFICES ASSUME NEW v \in Writers, Owner(v)'
               PROVE  OwnsSlot(v)'
    BY DEF OwnerInv
  <2>1. ASSUME NEW u \in Writers, u # w, Owner(u)'
        PROVE  Owner(u) /\ SlotOf(call[u].idx) # s
    <3>1. Owner(u)  BY <1>0, <2>1 DEF Owner, TypeOK
    <3> QED  BY <1>0, <3>1, OwnerSlot
  <2>2. CASE v = w
    <3>1. copied'[w] = 0 /\ i \in Nat /\ 0 <= ChunkLen(i)
      BY <1>0, Tiling DEF TypeOK
    <3>2. Holds(i, "filling")'  BY <1>0 DEF Holds, TypeOK
    <3>3. Reading => s # SlotOf(frontier)
      <4>1. Reading => Holds(frontier, "ready")  BY <1>0 DEF IInv, ReaderInv
      <4> QED  BY <1>0, <4>1 DEF Holds
    <3>4. \A u \in Writers : Owner(u)' /\ SlotOf(call[u].idx) = s => u = w
      BY <2>1
    <3> QED  BY <1>0, <1>2, <1>3, <2>2, <3>1, <3>2, <3>3, <3>4
             DEF OwnsSlot, Reading
  <2>3. CASE v # w
    <3>1. Owner(v) /\ SlotOf(call[v].idx) # s  BY <2>1, <2>3
    <3> QED  BY <1>0, <1>3, <1>4, <2>1, <3>1, <2>3 DEF IInv, OwnerInv, OwnsSlot, Reading
  <2> QED  BY <2>2, <2>3
<1>8. AcceptedInv'
  BY <1>0, <1>3, <1>4, <1>5 DEF IInv, AcceptedInv, TypeOK
<1>9. ReaderInv'
  BY <1>0, <1>3, <1>4, <1>5 DEF IInv, ReaderInv, Reading
<1>10. StreamIntact'  BY <1>0 DEF IInv, StreamIntact
<1> QED  BY <1>6, <1>7, <1>8, <1>9, <1>10 DEF IInv

\* One byte of a body reaches the disk: only the owner's slot changes.
LEMMA StepCopyByte ==
  ASSUME IInv, TypeOK', NEW w \in Writers, CopyByte(w)
  PROVE  IInv'
<1> USE WindowAssumption
<1> DEFINE i == call[w].idx
           s == SlotOf(i)
<1>0. /\ TypeOK /\ i \in Chunks /\ s \in SlotIds /\ Owner(w)
      /\ copied[w] \in Nat /\ copied[w] + 1 <= ChunkLen(i)
      /\ copied[w] \in Offsets
      /\ ring' = [ring EXCEPT ![s][copied[w]] = call[w].content]
      /\ copied' = [copied EXCEPT ![w] = @ + 1]
      /\ UNCHANGED <<slotState, slotChunk, readPos, crcs, err, pc, call, rpc, want, got, out>>
  <2>1. TypeOK /\ pc[w] = "copy" /\ copied[w] < Payload(w)
    BY DEF IInv, CopyByte
  <2>2. copied[w] \in Nat  BY <2>1 DEF TypeOK
  <2>3. /\ i \in Chunks /\ s \in SlotIds /\ ChunkLen(i) \in 1 .. ChunkSize
        /\ Payload(w) \in 0 .. ChunkLen(i)
    BY <2>1, CallRange
  <2>4. copied[w] + 1 <= ChunkLen(i) /\ copied[w] \in Offsets
    BY <2>1, <2>2, <2>3 DEF Offsets
  <2> QED
    BY <2>1, <2>2, <2>3, <2>4 DEF CopyByte, Owner, slotVars, readerVars
<1>1. /\ frontier' = frontier /\ ChunkEnd' = ChunkEnd
      /\ \A j, st : Holds(j, st)' <=> Holds(j, st)
      /\ \A v : Owner(v)' <=> Owner(v)
      /\ Reading' <=> Reading
  BY <1>0 DEF frontier, ChunkEnd, ChunkStart, Holds, Owner, Reading
<1>2. \A j \in Chunks : SlotOf(j) # s => (Filled(j)' <=> Filled(j))
  BY <1>0, Tiling DEF Filled, TypeOK
<1>3. Reading => s # SlotOf(frontier)  BY <1>0 DEF IInv, OwnerInv, OwnsSlot
<1>4. \A t \in SlotIds : slotState[t] = "ready" => t # s /\ slotChunk[t] \in Chunks /\ SlotOf(slotChunk[t]) = t
  <2> SUFFICES ASSUME NEW t \in SlotIds, slotState[t] = "ready"
               PROVE  t # s /\ slotChunk[t] \in Chunks /\ SlotOf(slotChunk[t]) = t
    OBVIOUS
  <2> QED  BY <1>0, UsedSlot, OwnerSlot
<1>5. WindowBound'  BY <1>0, <1>1 DEF IInv, WindowBound
<1>6. OwnerInv'
  <2> SUFFICES ASSUME NEW v \in Writers, Owner(v)'
               PROVE  OwnsSlot(v)'
    BY DEF OwnerInv
  <2>1. Owner(v)  BY <1>1
  <2>2. CASE v = w
    <3>1. copied'[w] = copied[w] + 1  BY <1>0 DEF TypeOK
    <3>2. \A o \in 0 .. copied[w] : ring'[s][o] = call[w].content
      <4>1. \A o \in 0 .. copied[w] - 1 : ring[s][o] = call[w].content
        BY <1>0 DEF IInv, OwnerInv, OwnsSlot
      <4>2. ring' [s] = [ring[s] EXCEPT ![copied[w]] = call[w].content]
        BY <1>0 DEF TypeOK
      <4>3. ring[s] \in [Offsets -> Contents \cup {NoContent}]
        BY <1>0 DEF TypeOK
      <4>4. 0 .. copied[w] \subseteq Offsets  BY <1>0 DEF Offsets
      <4> QED  BY <1>0, <4>1, <4>2, <4>3, <4>4
    <3>3. /\ err = "none" => Holds(i, "filling") /\ crcs[i] = NoContent
          /\ Reading => s # SlotOf(frontier)
          /\ \A u \in Writers : Owner(u) /\ SlotOf(call[u].idx) = s => u = w
      BY <1>0 DEF IInv, OwnerInv, OwnsSlot
    <3> QED  BY <1>0, <1>1, <2>2, <3>1, <3>2, <3>3 DEF OwnsSlot
  <2>3. CASE v # w
    <3>1. SlotOf(call[v].idx) # s  BY <1>0, <2>1, <2>3 DEF IInv, OwnerInv, OwnsSlot
    <3>2. ring'[SlotOf(call[v].idx)] = ring[SlotOf(call[v].idx)]
      BY <1>0, <3>1, CallRange DEF TypeOK
    <3> QED  BY <1>0, <1>1, <2>1, <2>3, <3>2 DEF IInv, OwnerInv, OwnsSlot, TypeOK
  <2> QED  BY <2>2, <2>3
<1>7. AcceptedInv'
  BY <1>0, <1>1, <1>2, <1>4 DEF IInv, AcceptedInv
<1>8. ReaderInv'
  BY <1>0, <1>1, <1>2, <1>3, CurrentChunk DEF IInv, ReaderInv
<1>9. StreamIntact'  BY <1>0 DEF IInv, StreamIntact
<1> QED  BY <1>5, <1>6, <1>7, <1>8, <1>9 DEF IInv

\* A failed copy gives the slot back.
LEMMA StepCommitFails ==
  ASSUME IInv, TypeOK', NEW w \in Writers, CommitFails(w)
  PROVE  IInv'
<1> USE WindowAssumption
<1> DEFINE i == call[w].idx
           s == SlotOf(i)
<1>0. /\ TypeOK /\ i \in Chunks /\ s \in SlotIds /\ Owner(w)
      /\ slotState[s] = "filling" /\ slotChunk[s] = i
      /\ slotState' = [slotState EXCEPT ![s] = "free"]
      /\ slotChunk' = [slotChunk EXCEPT ![s] = -1]
      /\ pc' = [pc EXCEPT ![w] = "idle"]
      /\ copied' = [copied EXCEPT ![w] = 0]
      /\ UNCHANGED <<readPos, crcs, err, ring, call, rpc, want, got, out>>
  BY CallRange DEF IInv, CommitFails, FrameEnds, Holds, Owner, readerVars
<1>1. /\ frontier' = frontier /\ ChunkEnd' = ChunkEnd
      /\ \A j : Filled(j)' <=> Filled(j)
      /\ \A j, st : SlotOf(j) # s => (Holds(j, st)' <=> Holds(j, st))
      /\ \A j : Holds(j, "ready") => SlotOf(j) # s
      /\ Reading' <=> Reading
  BY <1>0 DEF frontier, ChunkEnd, ChunkStart, Filled, Holds, Reading
<1>2. \A v \in Writers : Owner(v)' => Owner(v) /\ v # w /\ SlotOf(call[v].idx) # s
  BY <1>0 DEF IInv, OwnerInv, OwnsSlot, Owner, TypeOK
<1>3. WindowBound'  BY <1>0, <1>1 DEF IInv, WindowBound, TypeOK
<1>4. OwnerInv'
  <2> SUFFICES ASSUME NEW v \in Writers, Owner(v)'
               PROVE  OwnsSlot(v)'
    BY DEF OwnerInv
  <2> QED  BY <1>0, <1>1, <1>2 DEF IInv, OwnerInv, OwnsSlot, TypeOK
<1>5. AcceptedInv'  BY <1>0, <1>1 DEF IInv, AcceptedInv, TypeOK
<1>6. ReaderInv'  BY <1>0, <1>1 DEF IInv, ReaderInv
<1>7. StreamIntact'  BY <1>0 DEF IInv, StreamIntact
<1> QED  BY <1>3, <1>4, <1>5, <1>6, <1>7 DEF IInv

\* A complete copy becomes an accepted chunk.
LEMMA StepCommitReady ==
  ASSUME IInv, TypeOK', NEW w \in Writers, CommitReady(w)
  PROVE  IInv'
<1> USE WindowAssumption
<1> DEFINE i == call[w].idx
           s == SlotOf(i)
           c == call[w].content
<1>0. /\ TypeOK /\ i \in Chunks /\ s \in SlotIds /\ Owner(w) /\ c \in Contents
      /\ slotState[s] = "filling" /\ slotChunk[s] = i /\ err = "none"
      /\ copied[w] = ChunkLen(i) /\ crcs[i] = NoContent
      /\ slotState' = [slotState EXCEPT ![s] = "ready"]
      /\ crcs' = [crcs EXCEPT ![i] = c]
      /\ copied' = [copied EXCEPT ![w] = 0]
      /\ UNCHANGED <<slotChunk, readPos, err, ring, call, want, got, out>>
  BY CallRange, OwnerSlot DEF IInv, CommitReady, CopyOk, FrameEnds, Holds, Owner
<1>1. /\ frontier' = frontier /\ ChunkEnd' = ChunkEnd /\ c # NoContent
      /\ \A j \in Chunks : j # i => (Filled(j)' <=> Filled(j))
      /\ \A j, st : SlotOf(j) # s => (Holds(j, st)' <=> Holds(j, st))
      /\ \A j : Holds(j, "ready") => SlotOf(j) # s
      /\ Holds(i, "ready")'
  BY <1>0 DEF frontier, ChunkEnd, ChunkStart, Filled, Holds, TypeOK
<1>2. Filled(i)'  BY <1>0, <1>1 DEF Filled, IInv, OwnerInv, OwnsSlot, TypeOK
<1>3. \A v \in Writers : Owner(v)' => Owner(v) /\ v # w /\ SlotOf(call[v].idx) # s
  BY <1>0 DEF IInv, OwnerInv, OwnsSlot, Owner, CommitReady, WakeAll
<1>4. (Reading' <=> Reading) /\ (rpc' = rpc \/ (rpc = "parked" /\ rpc' = "loop"))
  BY DEF CommitReady, WakeAll, Reading
<1>5. WindowBound'  BY <1>0, <1>1 DEF IInv, WindowBound, TypeOK
<1>6. OwnerInv'
  <2> SUFFICES ASSUME NEW v \in Writers, Owner(v)'
               PROVE  OwnsSlot(v)'
    BY DEF OwnerInv
  <2>1. Owner(v) /\ v # w /\ SlotOf(call[v].idx) # s  BY <1>3
  <2> QED  BY <1>0, <1>1, <1>3, <1>4, <2>1, CallRange DEF IInv, OwnerInv, OwnsSlot, TypeOK
<1>7. AcceptedInv'
  <2>1. ASSUME NEW t \in SlotIds, slotState'[t] = "ready"
        PROVE  Filled(slotChunk[t])'
    <3>1. CASE t = s  BY <1>0, <1>2, <3>1
    <3>2. CASE t # s
      <4>1. slotState[t] = "ready" /\ Filled(slotChunk[t])
        BY <1>0, <2>1, <3>2 DEF IInv, AcceptedInv, TypeOK
      <4>2. SlotOf(slotChunk[t]) = t /\ slotChunk[t] \in Chunks
        BY <4>1, UsedSlot
      <4> QED  BY <1>0, <1>1, <3>2, <4>1, <4>2
    <3> QED  BY <3>1, <3>2
  <2>2. ASSUME NEW j \in Chunks, crcs'[j] # NoContent
        PROVE  j < frontier \/ Holds(j, "ready")'
    BY <1>0, <1>1, <2>2 DEF IInv, AcceptedInv, TypeOK
  <2> QED  BY <1>0, <1>1, <2>1, <2>2 DEF AcceptedInv
<1>8. ReaderInv'
  <2>1. Reading => Holds(frontier, "ready") /\ frontier \in Chunks /\ frontier # i
    BY <1>0, <1>1, CurrentChunk DEF IInv, ReaderInv
  <2>2. Reading => crcs'[frontier] = crcs[frontier]
    BY <1>0, <2>1 DEF TypeOK
  <2>3. Reading => Filled(frontier)' /\ Holds(frontier, "ready")'
    BY <1>1, <2>1 DEF IInv, ReaderInv
  <2>4. rpc = "update" => Reading  BY DEF Reading
  <2> QED  BY <1>0, <1>1, <1>4, <2>1, <2>2, <2>3, <2>4 DEF IInv, ReaderInv
<1>9. StreamIntact'
  BY <1>0 DEF IInv, StreamIntact, TypeOK
<1> QED  BY <1>5, <1>6, <1>7, <1>8, <1>9 DEF IInv

\* The reader commits to the slot of the frontier: no body is being copied there.
LEMMA StepReadFinds ==
  ASSUME IInv, TypeOK', ReadFinds
  PROVE  IInv'
<1> USE WindowAssumption
<1>0. /\ TypeOK /\ readPos < TotalSize /\ Holds(frontier, "ready") /\ err = "none"
      /\ rpc = "loop" /\ rpc' = "read"
      /\ want' = IF want > ChunkEnd - readPos THEN ChunkEnd - readPos ELSE want
      /\ UNCHANGED <<slotState, slotChunk, readPos, crcs, err, ring, pc, call, copied, got, out>>
  BY DEF IInv, ReadFinds, slotVars, callVars
<1>1. /\ frontier' = frontier /\ ChunkEnd' = ChunkEnd
      /\ \A j : Filled(j)' <=> Filled(j)
      /\ \A j, st : Holds(j, st)' <=> Holds(j, st)
      /\ \A v : Owner(v)' <=> Owner(v)
  BY <1>0 DEF frontier, ChunkEnd, ChunkStart, Filled, Holds, Owner
<1>2. want' > 0 /\ readPos + want' <= ChunkEnd
  <2>1. want > 0 /\ want \in Nat  BY <1>0 DEF IInv, ReaderInv, TypeOK
  <2> QED  BY <1>0, <2>1, CurrentChunk
<1>3. Filled(frontier)
  BY <1>0, CurrentChunk DEF Holds, IInv, AcceptedInv
<1>4. WindowBound'  BY <1>0, <1>1 DEF IInv, WindowBound
<1>5. OwnerInv'
  <2> SUFFICES ASSUME NEW v \in Writers, Owner(v)'
               PROVE  OwnsSlot(v)'
    BY DEF OwnerInv
  <2>1. Owner(v) /\ SlotOf(call[v].idx) # SlotOf(frontier)
    BY <1>0, <1>1, OwnerSlot DEF Holds
  <2> QED  BY <1>0, <1>1, <2>1 DEF IInv, OwnerInv, OwnsSlot
<1>6. AcceptedInv'  BY <1>0, <1>1 DEF IInv, AcceptedInv
<1>7. ReaderInv'  BY <1>0, <1>1, <1>2, <1>3 DEF ReaderInv, Reading
<1>8. StreamIntact'  BY <1>0 DEF IInv, StreamIntact
<1> QED  BY <1>4, <1>5, <1>6, <1>7, <1>8 DEF IInv

\* What ReadAt returns are bytes of the accepted body of the frontier's chunk.
LEMMA StepReadAt ==
  ASSUME IInv, TypeOK', ReadAt
  PROVE  IInv'
<1> USE WindowAssumption
<1>0. /\ TypeOK /\ Reading /\ Reading' /\ rpc' = "update"
      /\ UNCHANGED <<slotState, slotChunk, readPos, crcs, err, ring, pc, call, copied, want, out>>
  BY DEF IInv, ReadAt, Reading, slotVars, callVars
<1>1. PICK n \in 0 .. want :
        got' = [k \in 1 .. n |-> ring[SlotOf(frontier)][readPos - ChunkStart + k - 1]]
  BY DEF ReadAt
<1>2. /\ readPos < TotalSize /\ readPos + want <= ChunkEnd /\ Filled(frontier)
      /\ want \in Nat
  BY <1>0 DEF IInv, ReaderInv, TypeOK
<1>3. /\ frontier' = frontier /\ ChunkEnd' = ChunkEnd
      /\ \A j : Filled(j)' <=> Filled(j)
      /\ \A j, st : Holds(j, st)' <=> Holds(j, st)
      /\ \A v : Owner(v)' <=> Owner(v)
  BY <1>0 DEF frontier, ChunkEnd, ChunkStart, Filled, Holds, Owner
<1>4. Len(got') = n /\ \A k \in 1 .. n : got'[k] = crcs[frontier]
  <2>1. \A k \in 1 .. n :
          readPos - ChunkStart + k - 1 \in 0 .. ChunkLen(frontier) - 1
    BY <1>0, <1>2, CurrentChunk
  <2> QED  BY <1>1, <1>2, <2>1 DEF Filled
<1>5. WindowBound'  BY <1>0, <1>3 DEF IInv, WindowBound
<1>6. OwnerInv'
  <2> SUFFICES ASSUME NEW v \in Writers, Owner(v)'
               PROVE  OwnsSlot(v)'
    BY DEF OwnerInv
  <2> QED  BY <1>0, <1>3 DEF IInv, OwnerInv, OwnsSlot
<1>7. AcceptedInv'  BY <1>0, <1>3 DEF IInv, AcceptedInv
<1>8. ReaderInv'
  <2>1. want > 0 /\ (err = "none" => Holds(frontier, "ready"))
    BY <1>0 DEF IInv, ReaderInv, ReadAt
  <2>2. Len(got') <= want' /\ \A k \in 1 .. Len(got') : got'[k] = crcs'[frontier']
    BY <1>0, <1>2, <1>3, <1>4
  <2> QED  BY <1>0, <1>2, <1>3, <2>1, <2>2 DEF ReaderInv
<1>9. StreamIntact'  BY <1>0 DEF IInv, StreamIntact
<1> QED  BY <1>5, <1>6, <1>7, <1>8, <1>9 DEF IInv

\* The reader advances: the bytes go out, a finished chunk frees its slot, and
\* the window moves on by one chunk at most.
LEMMA StepReadUpdates ==
  ASSUME IInv, TypeOK', ReadUpdates
  PROVE  IInv'
<1> USE WindowAssumption
<1> DEFINE s == SlotOf(frontier)
           n == Len(got)
<1>0. /\ TypeOK /\ Reading /\ ~Reading' /\ n \in Nat
      /\ readPos < TotalSize /\ readPos + n <= ChunkEnd /\ Filled(frontier)
      /\ want > 0 /\ want \in Nat
      /\ \A k \in 1 .. n : got[k] = crcs[frontier]
      /\ err = "none" => Holds(frontier, "ready")
      /\ readPos' = readPos + n /\ out' = out \o got
      /\ UNCHANGED <<crcs, err, ring, call, copied, want>>
  <2>1. rpc = "update" /\ Reading /\ ReaderInv /\ TypeOK
    BY DEF IInv, ReadUpdates, Reading
  <2>2. want \in Nat /\ n \in Nat /\ want > 0  BY <2>1 DEF TypeOK, ReaderInv
  <2>3. /\ readPos < TotalSize /\ Filled(frontier) /\ readPos + n <= ChunkEnd
        /\ \A k \in 1 .. n : got[k] = crcs[frontier]
        /\ err = "none" => Holds(frontier, "ready")
    <3>1. /\ readPos < TotalSize /\ Filled(frontier) /\ n <= want
          /\ readPos + want <= ChunkEnd
          /\ \A k \in 1 .. n : got[k] = crcs[frontier]
          /\ err = "none" => Holds(frontier, "ready")
      BY <2>1 DEF ReaderInv
    <3> QED  BY <2>1, <2>2, <3>1, CurrentChunk
  <2>4. rpc' \in {"idle", "failed"}  BY DEF ReadUpdates
  <2> QED  BY <2>1, <2>2, <2>3, <2>4 DEF ReadUpdates, Reading, callVars
<1>1. /\ frontier \in Nat /\ s \in SlotIds /\ frontier \in Chunks
      /\ ChunkEnd = EndAt(readPos) /\ readPos < ChunkEnd /\ readPos \in Nat
      /\ ChunkEnd \in Nat
  BY <1>0, CurrentChunk
<1>2. \/ /\ frontier' = frontier
         /\ UNCHANGED <<slotState, slotChunk>>
      \/ /\ frontier' = frontier + 1
         /\ slotState' = [slotState EXCEPT ![s] = "free"]
         /\ slotChunk' = [slotChunk EXCEPT ![s] = -1]
  <2>1. /\ readPos + n < ChunkEnd => frontier' = frontier
        /\ readPos + n >= ChunkEnd => frontier' = frontier + 1
    <3>1. readPos + n \in readPos .. EndAt(readPos) /\ readPos \in 0 .. TotalSize
      BY <1>0, <1>1 DEF TypeOK
    <3> QED  BY <1>0, <1>1, <3>1, FrontierAdvance DEF frontier
  <2> QED  BY <1>0, <1>1, <2>1 DEF ReadUpdates, slotVars
<1>3. \A v \in Writers : Owner(v)' => Owner(v)
  BY <1>0 DEF ReadUpdates, WakeWriters, Owner, TypeOK
<1>4. WindowBound'
  <2> SUFFICES ASSUME NEW t \in SlotIds
               PROVE  (IF slotState[t] = "free"
                         THEN slotChunk[t] = -1
                         ELSE /\ err = "none"
                              /\ slotChunk[t] \in frontier .. frontier + Slots - 1
                              /\ SlotOf(slotChunk[t]) = t)'
    BY DEF WindowBound
  <2>1. slotState[t] = "free" => slotChunk[t] = -1  BY DEF IInv, WindowBound
  <2>2. slotState[t] # "free" =>
          /\ err = "none" /\ SlotOf(slotChunk[t]) = t /\ slotChunk[t] \in Nat
          /\ slotChunk[t] >= frontier /\ slotChunk[t] < frontier + Slots
    BY UsedSlot, Tiling DEF Chunks
  <2>3. CASE frontier' = frontier /\ UNCHANGED <<slotState, slotChunk>>
    BY <1>0, <2>1, <2>2, <2>3 DEF IInv, WindowBound
  <2>4. CASE /\ frontier' = frontier + 1
             /\ slotState' = [slotState EXCEPT ![s] = "free"]
             /\ slotChunk' = [slotChunk EXCEPT ![s] = -1]
    <3>1. CASE t = s  BY <1>0, <2>4, <3>1 DEF TypeOK
    <3>2. CASE t # s
      <4>1. slotState'[t] = slotState[t] /\ slotChunk'[t] = slotChunk[t]
        BY <1>0, <2>4, <3>2 DEF TypeOK
      <4>2. slotState[t] # "free" => slotChunk[t] # frontier  BY <2>2, <3>2
      <4>3. slotState[t] # "free" => slotChunk[t] \in frontier + 1 .. frontier + Slots
        BY <1>1, <2>2, <4>2
      <4> QED  BY <1>0, <1>1, <2>1, <2>2, <2>4, <4>1, <4>3
    <3> QED  BY <3>1, <3>2
  <2> QED  BY <1>2, <2>3, <2>4
<1>5. OwnerInv'
  <2> SUFFICES ASSUME NEW v \in Writers, Owner(v)'
               PROVE  OwnsSlot(v)'
    BY DEF OwnerInv
  <2>1. Owner(v) /\ OwnsSlot(v) /\ SlotOf(call[v].idx) # s
    BY <1>0, <1>3 DEF IInv, OwnerInv, OwnsSlot
  <2>2. SlotOf(call[v].idx) \in SlotIds  BY <1>0, CallRange
  <2>3. /\ slotState'[SlotOf(call[v].idx)] = slotState[SlotOf(call[v].idx)]
        /\ slotChunk'[SlotOf(call[v].idx)] = slotChunk[SlotOf(call[v].idx)]
    BY <1>0, <1>2, <2>1, <2>2 DEF TypeOK
  <2> QED  BY <1>0, <1>3, <2>1, <2>3 DEF OwnsSlot, Holds
<1>6. AcceptedInv'
  <2>1. \A j : Filled(j)' <=> Filled(j)  BY <1>0 DEF Filled
  <2>2. ASSUME NEW t \in SlotIds, slotState'[t] = "ready"
        PROVE  Filled(slotChunk[t])'
    BY <1>0, <1>1, <1>2, <2>1, <2>2 DEF IInv, AcceptedInv, TypeOK
  <2>3. ASSUME NEW j \in Chunks, crcs[j] # NoContent, err = "none"
        PROVE  j < frontier' \/ Holds(j, "ready")'
    <3>1. j \in Nat /\ SlotOf(j) \in SlotIds  BY Tiling DEF Chunks
    <3>2. j < frontier \/ Holds(j, "ready")  BY <2>3 DEF IInv, AcceptedInv
    <3>3. CASE j < frontier  BY <1>1, <1>2, <3>1, <3>3
    <3>4. CASE Holds(j, "ready") /\ SlotOf(j) = s
      <4>1. j = frontier  BY <1>0, <2>3, <3>4 DEF Holds
      <4> QED  BY <1>1, <1>2, <3>4, <4>1 DEF Holds
    <3>5. CASE Holds(j, "ready") /\ SlotOf(j) # s
      BY <1>0, <1>1, <1>2, <3>1, <3>5 DEF Holds, TypeOK
    <3> QED  BY <3>2, <3>3, <3>4, <3>5
  <2> QED  BY <1>0, <2>2, <2>3 DEF AcceptedInv
<1>7. ReaderInv'  BY <1>0 DEF IInv, ReaderInv, Reading
<1>8. StreamIntact'
  <2>1. out \in Seq(Contents \cup {NoContent}) /\ got \in Seq(Contents \cup {NoContent})
    BY <1>0 DEF TypeOK
  <2>2. Len(out) = readPos  BY DEF IInv, StreamIntact
  <2>3. Len(out') = readPos'
    <3>1. Len(out \o got) = Len(out) + Len(got)  BY ONLY <2>1
    <3> QED  BY <1>0, <2>2, <3>1
  <2>4. ASSUME NEW k \in 1 .. Len(out')
        PROVE  out'[k] # NoContent /\ out'[k] = crcs[(k - 1) \div ChunkSize]
    <3>1. CASE k <= readPos
      <4>1. out'[k] = out[k]  BY <1>0, <2>1, <2>2, <2>4, <3>1
      <4> QED  BY <1>1, <2>2, <2>4, <3>1, <4>1 DEF IInv, StreamIntact
    <3>2. CASE k > readPos
      <4>1. k - readPos \in 1 .. n /\ k \in Nat
        BY <1>0, <1>1, <2>3, <2>4, <3>2
      <4>2. out'[k] = got[k - readPos]  BY <1>0, <2>1, <2>2, <2>4, <3>2
      <4>3. k - 1 \in readPos .. EndAt(readPos) /\ k - 1 < EndAt(readPos)
        BY <1>0, <1>1, <4>1
      <4>4. (k - 1) \div ChunkSize = frontier
        BY <1>0, <4>3, FrontierAdvance DEF frontier, TypeOK
      <4>5. crcs[frontier] # NoContent  BY <1>0 DEF Filled
      <4> QED  BY <1>0, <4>1, <4>2, <4>4, <4>5
    <3> QED  BY <1>1, <2>4, <3>1, <3>2
  <2> QED  BY <1>0, <2>3, <2>4 DEF StreamIntact
<1> QED  BY <1>4, <1>5, <1>6, <1>7, <1>8 DEF IInv

\* The close resets every slot; owners and a read under way find out later.
LEMMA StepClose ==
  ASSUME IInv, TypeOK', Close
  PROVE  IInv'
<1> USE WindowAssumption
<1>0. /\ TypeOK /\ err' = "closed"
      /\ slotState' = [t \in SlotIds |-> "free"] /\ slotChunk' = [t \in SlotIds |-> -1]
      /\ (rpc' = rpc \/ (rpc = "parked" /\ rpc' = "loop"))
      /\ UNCHANGED <<readPos, crcs, ring, call, copied, want, got, out>>
  BY DEF IInv, Close, callVars
<1>1. /\ frontier' = frontier /\ ChunkEnd' = ChunkEnd
      /\ \A j : Filled(j)' <=> Filled(j)
      /\ Reading' <=> Reading
      /\ \A v \in Writers : Owner(v)' <=> Owner(v)
  BY <1>0 DEF frontier, ChunkEnd, ChunkStart, Filled, Owner, Reading, Close, WakeWriters
<1>2. WindowBound'  BY <1>0 DEF WindowBound
<1>3. OwnerInv'
  <2> SUFFICES ASSUME NEW v \in Writers, Owner(v)'
               PROVE  OwnsSlot(v)'
    BY DEF OwnerInv
  <2> QED  BY <1>0, <1>1 DEF IInv, OwnerInv, OwnsSlot
<1>4. AcceptedInv'  BY <1>0 DEF AcceptedInv
<1>5. ReaderInv'  BY <1>0, <1>1 DEF IInv, ReaderInv
<1>6. StreamIntact'  BY <1>0 DEF IInv, StreamIntact
<1> QED  BY <1>2, <1>3, <1>4, <1>5, <1>6 DEF IInv

-----------------------------------------------------------------------------
(* The theorems                                                            *)

LEMMA Inductive ==
  ASSUME IInv, [Next]_vars
  PROVE  IInv'
<1>1. CASE UNCHANGED vars
  BY <1>1 DEF vars, IInv, TypeOK, WindowBound, OwnerInv, OwnsSlot, AcceptedInv,
     ReaderInv, StreamIntact, Reading, Owner, Filled, Holds, frontier,
     ChunkEnd, ChunkStart
<1> SUFFICES ASSUME Next PROVE IInv'  BY <1>1
<1>2. TypeOK'  BY TypeStep
<1> USE DEF slotVars, callVars, readerVars
<1>3. TypeOK /\ ReaderInv  BY DEF IInv
<1>4. ASSUME NEW w \in Writers,
             \/ AdmitReturns(w) \/ AdmitTimesOut(w) \/ CommitLost(w)
      PROVE  IInv'
  <2>1. \E r \in Results : Return(w, r)
    BY <1>4 DEF AdmitReturns, AdmitTimesOut, CommitLost, Results
  <2>2. \A v \in Writers : Owner(v)' => Owner(v) /\ v # w
    BY <1>3, <2>1 DEF Return, Owner, TypeOK
  <2> QED  BY <1>2, <1>3, <2>1, <2>2, QuietStep
           DEF Return, FrameEnds, Reading, ReaderInv, TypeOK
<1>5. ASSUME NEW w \in Writers, AdmitParks(w) \/ DeadlinePasses(w) \/ CopyEnds(w) \/ StallBreaks(w)
      PROVE  IInv'
  BY <1>2, <1>3, <1>5, QuietStep
  DEF AdmitParks, DeadlinePasses, CopyEnds, StallBreaks, Stalled, Owner, Reading, ReaderInv, TypeOK
<1>6. ASSUME NEW w \in Writers, TimerFires(w)
      PROVE  IInv'
  BY <1>2, <1>3, <1>6, QuietStep
  DEF TimerFires, WakeAll, Owner, Reading, ReaderInv, TypeOK
<1>7. ASSUME NEW w \in Writers, NEW i \in Chunks, NEW c \in Contents,
             NEW fate \in Fates, CallWrite(w, i, c, fate)
      PROVE  IInv'
  BY <1>2, <1>3, <1>7, QuietStep DEF CallWrite, Owner, Reading, ReaderInv, TypeOK
<1>8. ASSUME NEW n \in 1 .. ChunkSize, CallRead(n)
      PROVE  IInv'
  BY <1>2, <1>3, <1>8, QuietStep, WindowAssumption
  DEF CallRead, Owner, Reading, ReaderInv, TypeOK
<1>9. ASSUME ReadReturns \/ ReadParks \/ CloseFile
      PROVE  IInv'
  BY <1>2, <1>3, <1>9, QuietStep
  DEF ReadReturns, ReadParks, CloseFile, Owner, Reading, ReaderInv, TypeOK
<1> QED
  BY <1>2, <1>4, <1>5, <1>6, <1>7, <1>8, <1>9, NextCases, StepTakesSlot,
     StepCopyByte, StepCommitFails, StepCommitReady, StepReadFinds, StepReadAt,
     StepReadUpdates, StepClose

\* The conjunction of the window's invariants holds in every reachable state.
THEOREM Invariance == Spec => []IInv
<1>1. Init => IInv  BY InitInv
<1>2. IInv /\ [Next]_vars => IInv'  BY Inductive
<1> QED  BY <1>1, <1>2, PTL DEF Spec

\* Whatever the sizes, the number of slots and the interleaving of requests,
\* Read returns the bytes of the accepted bodies, in stream order.
THEOREM StreamIsIntact == Spec => []StreamIntact
<1>1. IInv => StreamIntact  BY DEF IInv
<1> QED  BY <1>1, Invariance, PTL

\* The ring holds chunks of the window only, each in its slot, and nothing once
\* the window is closed.
THEOREM RingIsBounded == Spec => []WindowBound
<1>1. IInv => WindowBound  BY DEF IInv
<1> QED  BY <1>1, Invariance, PTL

\* Unlocked copies and reads never meet in a slot: window.go has no data race on
\* the ring file.
THEOREM NoOverlap == Spec => []SlotExclusive
<1>1. IInv => SlotExclusive
  BY DEF IInv, OwnerInv, OwnsSlot, Owner, Reading, SlotExclusive
<1> QED  BY <1>1, Invariance, PTL

\* Only the commit of an accepted chunk sets its CRC.
LEMMA CrcStep ==
  ASSUME IInv, [Next]_vars
  PROVE  \A i \in Chunks : crcs'[i] # crcs[i] => crcs[i] = NoContent /\ err = "none"
<1>1. CASE UNCHANGED crcs  BY <1>1
<1>2. ASSUME NEW w \in Writers, CommitReady(w)
      PROVE  \A i \in Chunks : crcs'[i] # crcs[i] => crcs[i] = NoContent /\ err = "none"
  BY <1>2, OwnerSlot DEF CommitReady, Owner, IInv, TypeOK
<1>3. UNCHANGED crcs \/ \E w \in Writers : CommitReady(w)
  <2>1. CASE UNCHANGED vars  BY <2>1 DEF vars
  <2>2. CASE Next
    BY <2>2, NextCases
    DEF AdmitReturns, AdmitTakesSlot, AdmitTimesOut, AdmitParks, Return,
        DeadlinePasses, TimerFires, CopyByte, CopyEnds, StallBreaks, Stalled, CommitLost, CommitFails,
        CallWrite, CallRead, ReadReturns, ReadFinds, ReadParks, ReadAt,
        ReadUpdates, Close, CloseFile
  <2> QED  BY <2>1, <2>2
<1> QED  BY <1>1, <1>2, <1>3

\* A chunk's CRC, once answered, never changes, and none is set after the close.
THEOREM CrcIsFinal == Spec => CrcFinal
<1>1. IInv /\ [Next]_vars =>
        [\A i \in Chunks : crcs'[i] # crcs[i] => crcs[i] = NoContent /\ err = "none"]_vars
  BY CrcStep
<1> QED  BY <1>1, Invariance, PTL DEF Spec, CrcFinal

-----------------------------------------------------------------------------
(* Receipts                                                                *)

\* What the reader has passed was accepted.
LEMMA ConsumedAccepted ==
  ASSUME TypeOK, StreamIntact, NEW i \in Chunks, Consumed(i)
  PROVE  crcs[i] # NoContent
<1> DEFINE k == i * ChunkSize + 1
<1>1. /\ i \in Nat /\ ChunkLen(i) \in 1 .. ChunkSize /\ ChunkSize \in Nat \ {0}
      /\ readPos \in Nat /\ i * ChunkSize \in Nat
  BY Tiling, WindowAssumption DEF Chunks, TypeOK
<1>2. k \in 1 .. Len(out)
  <2>1. i * ChunkSize + ChunkLen(i) <= readPos  BY DEF Consumed
  <2>2. Len(out) = readPos  BY DEF StreamIntact
  <2>3. ASSUME NEW a \in Nat, NEW n \in 1 .. ChunkSize, a + n <= readPos
        PROVE  a + 1 \in 1 .. readPos
    BY <1>1, <2>3
  <2> QED  BY <1>1, <2>1, <2>2, <2>3
<1>3. out[k] # NoContent /\ out[k] = crcs[(k - 1) \div ChunkSize]
  BY <1>2 DEF StreamIntact
<1>4. (k - 1) \div ChunkSize = i
  <2>1. k - 1 = i * ChunkSize  BY <1>1
  <2> QED  BY <1>1, <2>1, DivUnique
<1> QED  BY <1>3, <1>4

\* An answer is kept, or is that of a return or of a commit.
LEMMA AnswerCases ==
  ASSUME TypeOK, [Next]_vars, NEW w \in Writers, res'[w] = "ok"
  PROVE  \/ res'[w] = res[w] /\ call'[w] = call[w]
         \/ AdmitReturns(w) \/ CommitReady(w)
<1> USE DEF TypeOK, slotVars, callVars, readerVars
<1>1. CASE UNCHANGED vars  BY <1>1 DEF vars
<1>2. ASSUME NEW v \in Writers,
             \/ AdmitReturns(v) \/ AdmitTimesOut(v) \/ CommitLost(v)
             \/ CommitFails(v) \/ CommitReady(v)
      PROVE  v = w \/ (res'[w] = res[w] /\ call'[w] = call[w])
  BY <1>2 DEF AdmitReturns, AdmitTimesOut, CommitLost, CommitFails, CommitReady,
     Return, FrameEnds
<1>3. ASSUME NEW v \in Writers, AdmitTimesOut(v) \/ CommitLost(v) \/ CommitFails(v)
      PROVE  res'[v] # "ok"
  BY <1>3 DEF AdmitTimesOut, CommitLost, CommitFails, Return, FrameEnds
<1>4. ASSUME NEW v \in Writers, NEW i \in Chunks, NEW c \in Contents,
             NEW fate \in Fates, CallWrite(v, i, c, fate)
      PROVE  res'[w] = res[w] /\ call'[w] = call[w]
  BY <1>4 DEF CallWrite
<1>5. ASSUME \/ \E v \in Writers : \/ AdmitTakesSlot(v) \/ AdmitParks(v) \/ DeadlinePasses(v)
                                   \/ TimerFires(v) \/ CopyByte(v) \/ CopyEnds(v) \/ StallBreaks(v)
             \/ \E n \in 1 .. ChunkSize : CallRead(n)
             \/ ReadReturns \/ ReadFinds \/ ReadParks \/ ReadAt \/ ReadUpdates
             \/ Close \/ CloseFile
      PROVE  res'[w] = res[w] /\ call'[w] = call[w]
  BY <1>5 DEF AdmitTakesSlot, AdmitParks, DeadlinePasses, TimerFires, CopyByte, CopyEnds, StallBreaks, Stalled,
     CallRead, ReadReturns, ReadFinds, ReadParks, ReadAt, ReadUpdates, Close, CloseFile
<1> QED  BY <1>1, <1>2, <1>3, <1>4, <1>5, NextCases

LEMMA ReceiptStep ==
  ASSUME IInv, AckMeansReceived, [Next]_vars
  PROVE  AckMeansReceived'
<1> SUFFICES ASSUME NEW w \in Writers, res'[w] = "ok"
             PROVE  crcs'[call'[w].idx] # NoContent
  BY DEF AckMeansReceived
<1>1. TypeOK /\ StreamIntact /\ AcceptedInv  BY DEF IInv
<1>2. call[w].idx \in Chunks /\ SlotOf(call[w].idx) \in SlotIds  BY <1>1, CallRange
<1>3. CASE res'[w] = res[w] /\ call'[w] = call[w]
  BY <1>2, <1>3, CrcStep DEF AckMeansReceived
<1>4. CASE AdmitReturns(w)
  <2>1. call' = call /\ crcs' = crcs /\ err = "none"
    BY <1>1, <1>4 DEF AdmitReturns, Return, FrameEnds, TypeOK
  <2>2. Consumed(call[w].idx) \/ Holds(call[w].idx, "ready")
    BY <1>1, <1>4 DEF AdmitReturns, Return, FrameEnds, TypeOK
  <2>3. crcs[call[w].idx] # NoContent
    BY <1>1, <1>2, <2>2, ConsumedAccepted DEF AcceptedInv, Holds, Filled
  <2> QED  BY <2>1, <2>3
<1>5. CASE CommitReady(w)
  BY <1>1, <1>2, <1>5, CallRange, WindowAssumption DEF CommitReady, FrameEnds, TypeOK
<1> QED  BY <1>1, <1>3, <1>4, <1>5, AnswerCases

\* Whatever is resent, cut, overtaken or closed, WriteChunk answers ok for chunks
\* that were accepted, and for no others.
THEOREM ReceiptsAreTrue == Spec => []AckMeansReceived
<1>1. Init => AckMeansReceived  BY DEF Init, AckMeansReceived
<1>2. IInv /\ AckMeansReceived /\ [Next]_vars => AckMeansReceived'  BY ReceiptStep
<1> QED  BY <1>1, <1>2, Invariance, PTL DEF Spec

-----------------------------------------------------------------------------
(* No lost wake-up                                                         *)

\* A chunk at or past the frontier is not consumed.
LEMMA NotConsumed ==
  ASSUME NEW p \in 0 .. TotalSize, NEW i \in Chunks, i >= FrontierAt(p)
  PROVE  ~(i * ChunkSize + ChunkLen(i) <= p)
<1> USE WindowAssumption
<1>1. /\ i \in Nat /\ i <= Total - 1 /\ Total \in Nat /\ ChunkLen(i) \in 1 .. ChunkSize
      /\ i * ChunkSize \in Nat
  BY Tiling DEF Chunks
<1>2. p < TotalSize  BY <1>1 DEF FrontierAt
<1>3. /\ FrontierAt(p) \in Nat /\ p < EndAt(p) /\ FrontierAt(p) * ChunkSize \in Nat
      /\ EndAt(p) = FrontierAt(p) * ChunkSize + ChunkLen(FrontierAt(p))
      /\ ChunkLen(FrontierAt(p)) \in 1 .. ChunkSize
  BY <1>2, FrontierBounds, Tiling DEF Chunks, EndAt
<1>4. CASE i = FrontierAt(p)  BY <1>3, <1>4
<1>5. CASE i # FrontierAt(p)
  <2>1. \A x, y \in Nat : x <= y => x * ChunkSize <= y * ChunkSize  BY SMT
  <2>2. (FrontierAt(p) + 1) * ChunkSize <= i * ChunkSize  BY <1>1, <1>3, <1>5, <2>1
  <2>3. (FrontierAt(p) + 1) * ChunkSize = FrontierAt(p) * ChunkSize + ChunkSize
    BY <1>3
  <2> QED  BY <1>1, <1>3, <2>2, <2>3
<1> QED  BY <1>4, <1>5

\* The condition under which a parked writer must stay parked.
MustWait(w) ==
  /\ err = "none"
  /\ ~Consumed(call[w].idx)
  /\ ~Holds(call[w].idx, "ready") /\ ~Holds(call[w].idx, "filling")
  /\ ~Admissible(call[w].idx)
  /\ timer[w]

ReaderMustWait == err = "none" /\ readPos < TotalSize /\ ~Holds(frontier, "ready")

LEMMA WakeupForm ==
  NoMissedWakeup <=> /\ \A w \in Writers : pc[w] = "parked" => MustWait(w)
                     /\ rpc = "parked" => ReaderMustWait
BY DEF NoMissedWakeup, MustWait, ReaderMustWait

\* The failure path of WriteChunk frees its slot without a Broadcast: whoever is
\* parked for that slot wants a chunk beyond the window.
LEMMA SilentFree ==
  ASSUME IInv, NEW w \in Writers, CommitFails(w), NEW v \in Writers, pc[v] = "parked",
         MustWait(v)
  PROVE  MustWait(v)'
<1> USE WindowAssumption
<1> DEFINE i == call[w].idx
           j == call[v].idx
           s == SlotOf(i)
<1>0. /\ TypeOK /\ i \in Chunks /\ j \in Chunks /\ i \in Nat /\ j \in Nat
      /\ s \in SlotIds /\ SlotOf(j) \in SlotIds /\ v # w
      /\ slotState[s] = "filling" /\ slotChunk[s] = i
      /\ slotState' = [slotState EXCEPT ![s] = "free"]
      /\ slotChunk' = [slotChunk EXCEPT ![s] = -1]
      /\ timer' = [timer EXCEPT ![w] = FALSE]
      /\ UNCHANGED <<readPos, err, call>>
  BY CallRange DEF IInv, CommitFails, FrameEnds, Holds
<1>1. frontier' = frontier /\ (Consumed(j)' <=> Consumed(j)) /\ timer'[v] = timer[v]
  BY <1>0 DEF frontier, Consumed, TypeOK
<1>2. CASE SlotOf(j) # s
  BY <1>0, <1>1, <1>2 DEF MustWait, Holds, Admissible, TypeOK
<1>3. CASE SlotOf(j) = s
  <2>1. j # i  BY <1>0, <1>3 DEF MustWait, Holds
  <2>2. frontier \in Nat
    BY FrontierBounds, Tiling DEF IInv, TypeOK, frontier
  <2>3. j >= frontier  BY <1>0, NotBehind DEF MustWait
  <2>4. i >= frontier /\ i < frontier + Slots  BY <1>0, UsedSlot
  <2>5. ~(j < frontier + Slots)
    <3> SUFFICES ASSUME j < frontier + Slots PROVE FALSE  OBVIOUS
    <3>1. i % Slots = j % Slots  BY <1>3 DEF SlotOf
    <3>2. (i <= j /\ j < i + Slots) \/ (j <= i /\ i < j + Slots)
      BY <1>0, <2>2, <2>3, <2>4
    <3> QED  BY <1>0, <2>1, <3>1, <3>2, SameSlot
  <2>6. slotChunk'[s] = -1  BY <1>0 DEF TypeOK
  <2> QED  BY <1>0, <1>1, <1>3, <2>5, <2>6 DEF MustWait, Holds, Admissible
<1> QED  BY <1>2, <1>3

LEMMA WakeupStep ==
  ASSUME IInv, NoMissedWakeup, [Next]_vars
  PROVE  NoMissedWakeup'
<1> USE WindowAssumption DEF slotVars, callVars, readerVars
<1>0. /\ TypeOK
      /\ \A v \in Writers : pc[v] = "parked" => MustWait(v)
      /\ rpc = "parked" => ReaderMustWait
  BY WakeupForm DEF IInv
\* Steps that leave the slots and positions alone.
<1>1. ASSUME UNCHANGED <<slotState, slotChunk, readPos, err>>,
             \A v \in Writers : pc'[v] = "parked" =>
               \/ pc[v] = "parked" /\ call'[v] = call[v] /\ timer'[v] = timer[v]
               \/ MustWait(v)',
             rpc' = "parked" => rpc = "parked" \/ ReaderMustWait
      PROVE  NoMissedWakeup'
  <2>1. /\ frontier' = frontier /\ \A i : Consumed(i)' <=> Consumed(i)
        /\ \A i : Admissible(i)' <=> Admissible(i)
        /\ \A i, st : Holds(i, st)' <=> Holds(i, st)
    BY <1>1 DEF frontier, Consumed, Admissible, Holds
  <2>2. ASSUME NEW v \in Writers, pc'[v] = "parked"
        PROVE  MustWait(v)'
    <3>1. CASE pc[v] = "parked" /\ call'[v] = call[v] /\ timer'[v] = timer[v]
      BY <1>0, <1>1, <2>1, <3>1 DEF MustWait
    <3> QED  BY <1>1, <2>2, <3>1
  <2>3. rpc' = "parked" => ReaderMustWait'
    BY <1>0, <1>1, <2>1 DEF ReaderMustWait
  <2> QED  BY <2>2, <2>3 DEF NoMissedWakeup, MustWait, ReaderMustWait
<1>2. CASE UNCHANGED vars  BY <1>1, <1>2 DEF vars
<1>3. ASSUME NEW w \in Writers,
             \/ AdmitReturns(w) \/ AdmitTimesOut(w) \/ CommitLost(w)
      PROVE  NoMissedWakeup'
  <2>1. \E r \in Results : Return(w, r)
    BY <1>3 DEF AdmitReturns, AdmitTimesOut, CommitLost, Results
  <2>2. UNCHANGED <<slotState, slotChunk, readPos, err, rpc, call>>
    BY <2>1 DEF Return, FrameEnds
  <2>3. \A v \in Writers : pc'[v] = "parked" =>
            pc[v] = "parked" /\ timer'[v] = timer[v]
    BY <1>0, <2>1 DEF Return, FrameEnds, TypeOK
  <2> QED  BY <1>1, <2>2, <2>3
<1>4. ASSUME NEW w \in Writers, AdmitParks(w)
      PROVE  NoMissedWakeup'
  <2>1. MustWait(w)'
    BY <1>0, <1>4 DEF AdmitParks, Undecided, MustWait, Consumed, Holds,
       Admissible, frontier, TypeOK
  <2> QED  BY <1>0, <1>1, <1>4, <2>1 DEF AdmitParks, TypeOK
<1>5. ASSUME NEW w \in Writers,
             \/ DeadlinePasses(w) \/ CopyByte(w) \/ CopyEnds(w) \/ StallBreaks(w) \/ TimerFires(w)
      PROVE  NoMissedWakeup'
  BY <1>0, <1>1, <1>5 DEF DeadlinePasses, CopyByte, CopyEnds, StallBreaks, Stalled, TimerFires,
     WakeAll, TypeOK
<1>6. ASSUME NEW w \in Writers, NEW i \in Chunks, NEW c \in Contents,
             NEW fate \in Fates, CallWrite(w, i, c, fate)
      PROVE  NoMissedWakeup'
  BY <1>0, <1>1, <1>6 DEF CallWrite, TypeOK
<1>7. ASSUME NEW n \in 1 .. ChunkSize, CallRead(n)
      PROVE  NoMissedWakeup'
  BY <1>1, <1>7 DEF CallRead
<1>8. ASSUME ReadReturns \/ ReadFinds \/ ReadAt \/ CloseFile
      PROVE  NoMissedWakeup'
  BY <1>1, <1>8 DEF ReadReturns, ReadFinds, ReadAt, CloseFile
<1>9. ASSUME ReadParks
      PROVE  NoMissedWakeup'
  BY <1>1, <1>9 DEF ReadParks, ReaderMustWait
\* Steps that wake everybody.
<1>10. ASSUME \A v \in Writers : pc'[v] # "parked", rpc' # "parked"
       PROVE  NoMissedWakeup'
  BY <1>10 DEF NoMissedWakeup
<1>11. ASSUME NEW w \in Writers, CommitReady(w)
       PROVE  NoMissedWakeup'
  BY <1>0, <1>10, <1>11 DEF CommitReady, WakeAll
<1>12. ASSUME Close
       PROVE  NoMissedWakeup'
  BY <1>0, <1>10, <1>12 DEF Close, WakeWriters
\* Steps that change a slot or the position and wake nobody, or not everybody.
<1>13. ASSUME NEW w \in Writers, AdmitTakesSlot(w)
       PROVE  NoMissedWakeup'
  <2> DEFINE i == call[w].idx
             s == SlotOf(i)
  <2>1. /\ i \in Chunks /\ s \in SlotIds /\ Admissible(i) /\ slotState[s] = "free"
        /\ slotState' = [slotState EXCEPT ![s] = "filling"]
        /\ slotChunk' = [slotChunk EXCEPT ![s] = i]
        /\ pc' = [pc EXCEPT ![w] = "copy"] /\ pc[w] = "admit"
        /\ timer' = [timer EXCEPT ![w] = FALSE]
        /\ UNCHANGED <<readPos, err, call, rpc>>
        /\ frontier' = frontier
    BY <1>0, <1>13, CallRange DEF AdmitTakesSlot, Undecided, Admissible, frontier
  <2>2. ASSUME NEW v \in Writers, pc'[v] = "parked"
        PROVE  MustWait(v)'
    <3>1. pc[v] = "parked" /\ v # w /\ timer'[v] = timer[v]
      BY <1>0, <2>1, <2>2 DEF TypeOK
    <3>2. MustWait(v) /\ SlotOf(call[v].idx) \in SlotIds
      BY <1>0, <3>1, CallRange
    <3>3. call[v].idx # i  BY <2>1, <3>2 DEF MustWait
    <3> QED  BY <1>0, <2>1, <3>1, <3>2, <3>3
             DEF MustWait, Holds, Admissible, Consumed, TypeOK
  <2>3. rpc' = "parked" => ReaderMustWait'
    BY <1>0, <2>1 DEF ReaderMustWait, Holds, TypeOK, frontier
  <2> QED  BY <2>2, <2>3 DEF NoMissedWakeup, MustWait, ReaderMustWait
<1>14. ASSUME NEW w \in Writers, CommitFails(w)
       PROVE  NoMissedWakeup'
  <2>1. ASSUME NEW v \in Writers, pc'[v] = "parked"
        PROVE  MustWait(v)'
    <3>1. pc[v] = "parked"  BY <1>0, <1>14, <2>1 DEF CommitFails, TypeOK
    <3> QED  BY <1>0, <1>14, <3>1, SilentFree
  <2>2. rpc' = "parked" => ReaderMustWait'
    BY <1>0, <1>14, CallRange DEF CommitFails, ReaderMustWait, Holds, TypeOK, frontier
  <2> QED  BY <2>1, <2>2 DEF NoMissedWakeup, MustWait, ReaderMustWait
<1>15. ASSUME ReadUpdates
       PROVE  NoMissedWakeup'
  <2> DEFINE n == Len(got)
  <2>1. /\ readPos < TotalSize /\ n \in Nat /\ readPos + n <= ChunkEnd
        /\ readPos' = readPos + n /\ rpc' # "parked"
        /\ readPos \in 0 .. TotalSize /\ ChunkEnd = EndAt(readPos)
        /\ readPos < ChunkEnd /\ ChunkEnd \in Nat /\ frontier \in Nat
    <3>1. rpc = "update" /\ Reading  BY <1>15 DEF ReadUpdates, Reading
    <3>2. /\ readPos < TotalSize /\ n <= want /\ readPos + want <= ChunkEnd
          /\ want \in Nat /\ n \in Nat
      BY <1>0, <3>1 DEF IInv, ReaderInv, TypeOK
    <3>3. readPos' = readPos + n /\ rpc' # "parked"  BY <1>15 DEF ReadUpdates
    <3>4. readPos \in 0 .. TotalSize  BY <1>0 DEF TypeOK
    <3> QED  BY <1>0, <3>2, <3>3, <3>4, CurrentChunk
  <2>2. CASE n > 0 /\ readPos + n >= ChunkEnd
    <3>1. WakeWriters  BY <1>15, <2>2 DEF ReadUpdates
    <3> QED  BY <1>0, <1>10, <2>1, <3>1 DEF WakeWriters
  <2>3. CASE ~(n > 0 /\ readPos + n >= ChunkEnd)
    <3>1. UNCHANGED <<slotState, slotChunk, pc, err, call, timer>>
      BY <1>15, <2>3 DEF ReadUpdates
    <3>2. readPos + n < ChunkEnd  BY <2>1, <2>3
    <3>3. readPos + n \in readPos .. EndAt(readPos) /\ readPos + n \in 0 .. TotalSize
      BY <2>1, <3>2, FrontierAdvance
    <3>4. FrontierAt(readPos + n) = frontier
      BY <2>1, <3>2, <3>3, FrontierAdvance DEF frontier
    <3>5. frontier' = frontier  BY <2>1, <3>4 DEF frontier
    <3>6. ASSUME NEW v \in Writers, pc'[v] = "parked"
          PROVE  MustWait(v)'
      <4>1. MustWait(v) /\ call[v].idx \in Chunks  BY <1>0, <3>1, <3>6, CallRange
      <4>2. call[v].idx >= frontier  BY <1>0, <4>1, NotBehind DEF MustWait
      <4>3. ~Consumed(call[v].idx)'
        BY <2>1, <3>1, <3>3, <3>4, <4>1, <4>2, NotConsumed DEF Consumed
      <4> QED  BY <3>1, <3>5, <4>1, <4>3 DEF MustWait, Holds, Admissible
    <3> QED  BY <2>1, <3>6 DEF NoMissedWakeup, MustWait, ReaderMustWait
  <2> QED  BY <2>2, <2>3
<1> QED
  BY <1>2, <1>3, <1>4, <1>5, <1>6, <1>7, <1>8, <1>9, <1>11, <1>12, <1>13, <1>14,
     <1>15, NextCases

\* No request and no reader stays parked on w.cond while it could go on.
THEOREM NobodyStranded == Spec => []NoMissedWakeup
<1>1. Init => NoMissedWakeup  BY DEF Init, NoMissedWakeup
<1>2. IInv /\ NoMissedWakeup /\ [Next]_vars => NoMissedWakeup'  BY WakeupStep
<1> QED  BY <1>1, <1>2, Invariance, PTL DEF Spec

-----------------------------------------------------------------------------
(* Refinement                                                              *)

\* Every step of the window is a step of the ordered stream, or changes nothing
\* the stream shows.
LEMMA StreamStep ==
  ASSUME IInv, [Next]_vars
  PROVE  [Stream!StreamNext]_(Stream!svars)
<1> USE WindowAssumption DEF slotVars, callVars, readerVars
<1>0. TypeOK  BY DEF IInv
<1>1. ASSUME UNCHANGED <<crcs, out, err>>,
             err = "none" \/ (rpc' \in {"read", "update"} <=> rpc \in {"read", "update"})
      PROVE  UNCHANGED Stream!svars
  BY <1>1 DEF Stream!svars
<1>2. CASE UNCHANGED vars  BY <1>1, <1>2 DEF vars
<1>3. ASSUME NEW w \in Writers,
             \/ AdmitReturns(w) \/ AdmitTakesSlot(w) \/ AdmitTimesOut(w) \/ AdmitParks(w)
             \/ DeadlinePasses(w) \/ CopyByte(w) \/ CopyEnds(w) \/ StallBreaks(w)
             \/ CommitLost(w) \/ CommitFails(w)
      PROVE  UNCHANGED Stream!svars
  BY <1>1, <1>3
  DEF AdmitReturns, AdmitTakesSlot, AdmitTimesOut, AdmitParks, Return,
      DeadlinePasses, CopyByte, CopyEnds, StallBreaks, Stalled, CommitLost, CommitFails
<1>4. ASSUME NEW w \in Writers, TimerFires(w)
      PROVE  UNCHANGED Stream!svars
  BY <1>1, <1>4 DEF TimerFires, WakeAll
<1>5. ASSUME \/ \E w \in Writers, i \in Chunks, c \in Contents, fate \in Fates :
                  CallWrite(w, i, c, fate)
             \/ \E n \in 1 .. ChunkSize : CallRead(n)
             \/ ReadReturns \/ ReadFinds \/ ReadParks \/ ReadAt \/ CloseFile
      PROVE  UNCHANGED Stream!svars
  BY <1>1, <1>5 DEF CallWrite, CallRead, ReadReturns, ReadFinds, ReadParks, ReadAt, CloseFile
<1>6. ASSUME NEW w \in Writers, CommitReady(w)
      PROVE  Stream!StreamNext
  <2> DEFINE i == call[w].idx
  <2>1. /\ i \in Chunks /\ call[w].content \in Contents /\ SlotOf(i) \in SlotIds
        /\ err = "none" /\ crcs[i] = NoContent
        /\ slotState[SlotOf(i)] = "filling" /\ slotChunk[SlotOf(i)] = i
        /\ crcs' = [crcs EXCEPT ![i] = call[w].content] /\ UNCHANGED <<out, err>>
    BY <1>0, <1>6, CallRange, OwnerSlot DEF CommitReady, Owner
  <2>2. i >= frontier /\ i < frontier + Slots /\ i \in Nat /\ i <= Total - 1
    BY <2>1, UsedSlot, Tiling DEF Chunks
  <2>3. Len(out) = readPos  BY DEF IInv, StreamIntact
  <2>4. readPos < TotalSize
    BY <2>2, Tiling, <1>0 DEF frontier, FrontierAt, TypeOK
  <2>5. Stream!ChunkOf(Len(out)) = frontier
    BY <1>0, <2>3, <2>4 DEF Stream!ChunkOf, frontier, FrontierAt, TypeOK
  <2>6. Stream!Accept(i, call[w].content)
    BY <2>1, <2>2, <2>3, <2>4, <2>5 DEF Stream!Accept
  <2> QED  BY <2>1, <2>6 DEF Stream!StreamNext, Stream!NumChunks, Chunks, Total
<1>7. ASSUME ReadUpdates
      PROVE  [Stream!StreamNext]_(Stream!svars)
  <2> DEFINE n == Len(got)
  <2>1. /\ readPos < TotalSize /\ n \in Nat /\ readPos + n <= ChunkEnd
        /\ readPos \in 0 .. TotalSize /\ ChunkEnd = EndAt(readPos)
        /\ ChunkEnd <= TotalSize /\ ChunkEnd \in Nat
        /\ n <= ChunkSize /\ rpc = "update"
        /\ got \in Seq(Contents \cup {NoContent})
        /\ crcs[frontier] # NoContent
        /\ \A k \in 1 .. n : got[k] = crcs[frontier]
    <3>1. rpc = "update" /\ Reading  BY <1>7 DEF ReadUpdates, Reading
    <3>2. /\ readPos < TotalSize /\ n <= want /\ readPos + want <= ChunkEnd
          /\ want \in Nat /\ want <= ChunkSize /\ n \in Nat
          /\ got \in Seq(Contents \cup {NoContent})
          /\ crcs[frontier] # NoContent /\ readPos \in 0 .. TotalSize
          /\ \A k \in 1 .. n : got[k] = crcs[frontier]
      BY <1>0, <3>1 DEF IInv, ReaderInv, TypeOK, Filled
    <3> QED  BY <1>0, <3>1, <3>2, CurrentChunk
  <2>2. /\ out' = out \o got /\ UNCHANGED <<crcs, err>>
        /\ rpc' \notin {"read", "update"}
    BY <1>7 DEF ReadUpdates
  <2>3. Len(out) = readPos  BY DEF IInv, StreamIntact
  <2>4. CASE n = 0
    <3>1. got = << >>  BY <2>1, <2>4
    <3>2. out' = out  BY <1>0, <2>2, <3>1 DEF TypeOK
    <3>3. CASE err = "none"  BY <1>1, <2>2, <3>2, <3>3
    <3>4. CASE err # "none"
      BY <2>1, <2>2, <3>2, <3>4 DEF Stream!StreamNext, Stream!LastReadFails
    <3> QED  BY <3>3, <3>4
  <2>5. CASE n > 0
    <3>1. Stream!ChunkOf(readPos) = frontier
      BY <2>1 DEF Stream!ChunkOf, frontier, FrontierAt
    <3>2. Stream!ChunkOf(readPos + n - 1) = frontier
      <4>1. /\ readPos + n - 1 \in readPos .. EndAt(readPos)
            /\ readPos + n - 1 < EndAt(readPos)
        BY <2>1, <2>5
      <4>2. (readPos + n - 1) \div ChunkSize = frontier
        BY <2>1, <4>1, FrontierAdvance DEF frontier
      <4> QED  BY <4>2 DEF Stream!ChunkOf
    <3>3. got = [j \in 1 .. n |-> crcs[frontier]]  BY <2>1
    <3>4. Stream!Deliver(n)
      BY <2>1, <2>2, <2>3, <3>1, <3>2, <3>3 DEF Stream!Deliver
    <3> QED  BY <2>1, <2>5, <3>4 DEF Stream!StreamNext
  <2> QED  BY <2>1, <2>4, <2>5
<1>8. ASSUME Close
      PROVE  Stream!StreamNext
  BY <1>8 DEF Close, Stream!StreamNext, Stream!CloseStream
<1> QED
  BY <1>2, <1>3, <1>4, <1>5, <1>6, <1>7, <1>8, NextCases

\* The ring is an in-order stream with a run-ahead of at most Slots chunks.
THEOREM Refinement == Spec => ImplementsStream
<1>1. Init => Stream!StreamInit
  BY DEF Init, Stream!StreamInit, Stream!NumChunks, Chunks, Total
<1>2. IInv /\ [Next]_vars => [Stream!StreamNext]_(Stream!svars)  BY StreamStep
<1> QED  BY <1>1, <1>2, Invariance, PTL DEF Spec, ImplementsStream, Stream!StreamSpec

-----------------------------------------------------------------------------
(* What Snapshot reports                                                   *)

\* A set of numbers that is not empty has a least one.
LEMMA LeastNumber ==
  ASSUME NEW T \in SUBSET Nat, T # {}
  PROVE  \E m \in T : \A k \in T : m <= k
<1> DEFINE R == OpToRel(<, Nat)
<1>1. IsWellFoundedOn(R, Nat)  BY NatLessThanWellFounded
<1>2. \A x, y \in Nat : y < x => <<y, x>> \in R  BY DEF OpToRel
<1> HIDE DEF R
<1>3. PICK m \in T : \A y \in T : ~ (<<y, m>> \in R)  BY <1>1, WFMin
<1>4. ASSUME NEW k \in T PROVE m <= k
  <2>1. ~(k < m)  BY <1>2, <1>3
  <2>2. k \in Nat /\ m \in Nat  OBVIOUS
  <2> QED  BY <2>1, <2>2
<1> QED  BY <1>4

\* Two tables of sums that start alike and grow alike are the same.
LEMMA SameSums ==
  ASSUME NEW N \in Nat, NEW f, NEW g, NEW a,
         f[0] = g[0],
         \A n \in 1 .. N : f[n] = f[n - 1] + a[n],
         \A n \in 1 .. N : g[n] = g[n - 1] + a[n]
  PROVE  \A n \in 0 .. N : f[n] = g[n]
<1> DEFINE T == {n \in 0 .. N : f[n] # g[n]}
<1> SUFFICES ASSUME T # {} PROVE FALSE  OBVIOUS
<1>1. PICK m \in T : \A k \in T : m <= k
  <2>1. T \in SUBSET Nat  OBVIOUS
  <2> HIDE DEF T
  <2> QED  BY <2>1, LeastNumber
<1>2. m \in 1 .. N /\ f[m] # g[m]  OBVIOUS
<1>3. m - 1 \in 0 .. N /\ ~(m <= m - 1)  BY <1>2
<1>4. f[m - 1] = g[m - 1]  BY <1>1, <1>3
<1> QED  BY <1>2, <1>4

\* The chunks before the frontier are the consumed ones.
LEMMA BehindConsumed ==
  ASSUME NEW p \in 0 .. TotalSize, NEW i \in Nat, i < FrontierAt(p)
  PROVE  i \in Chunks /\ i * ChunkSize + ChunkLen(i) <= p
<1> USE WindowAssumption
<1>1. FrontierAt(p) \in 0 .. Total /\ Total \in Nat  BY FrontierBounds, Tiling
<1>2. i \in Chunks  BY <1>1 DEF Chunks
<1>3. /\ ChunkLen(i) \in 1 .. ChunkSize /\ i * ChunkSize + ChunkLen(i) <= TotalSize
      /\ i * ChunkSize \in Nat
  BY <1>2, Tiling
<1>4. CASE p >= TotalSize  BY <1>2, <1>3, <1>4
<1>5. CASE p < TotalSize
  <2>1. FrontierAt(p) * ChunkSize <= p /\ FrontierAt(p) * ChunkSize \in Nat
    BY <1>1, <1>5, FrontierBounds
  <2>2. \A x, y \in Nat : x <= y => x * ChunkSize <= y * ChunkSize  BY SMT
  <2>3. (i + 1) * ChunkSize <= FrontierAt(p) * ChunkSize  BY <1>1, <2>2
  <2>4. (i + 1) * ChunkSize = i * ChunkSize + ChunkSize  OBVIOUS
  <2> QED  BY <1>2, <1>3, <2>1, <2>3, <2>4
<1> QED  BY <1>4, <1>5

\* In an open window the chunks that Snapshot lists are the accepted ones.
LEMMA ReceivedAccepted ==
  ASSUME IInv, err = "none"
  PROVE  SnapshotReceived = {i \in Chunks : crcs[i] # NoContent}
<1> USE WindowAssumption
<1>1. TypeOK /\ StreamIntact /\ AcceptedInv  BY DEF IInv
<1>2. readPos \in 0 .. TotalSize /\ frontier = FrontierAt(readPos)
  BY <1>1 DEF TypeOK, frontier
<1>3. frontier \in 0 .. Total /\ Total \in Nat  BY <1>2, FrontierBounds, Tiling
<1>4. ASSUME NEW i \in SnapshotReceived PROVE i \in Chunks /\ crcs[i] # NoContent
  <2>1. CASE i \in 0 .. frontier - 1
    <3>1. i \in Chunks /\ Consumed(i)
      BY <1>2, <1>3, <2>1, BehindConsumed DEF Consumed
    <3> QED  BY <1>1, <3>1, ConsumedAccepted
  <2>2. CASE i \in Buffered
    <3>1. i \in Chunks /\ Holds(i, "ready")  BY <1>3, <2>2 DEF Buffered, Chunks
    <3> QED  BY <1>1, <3>1, Tiling DEF AcceptedInv, Holds, Filled
  <2> QED  BY <2>1, <2>2 DEF SnapshotReceived
<1>5. ASSUME NEW i \in Chunks, crcs[i] # NoContent PROVE i \in SnapshotReceived
  <2>1. i \in Nat /\ i < Total /\ SlotOf(i) \in SlotIds  BY <1>3, Tiling DEF Chunks
  <2>2. CASE i < frontier  BY <1>3, <2>1, <2>2 DEF SnapshotReceived
  <2>3. CASE Holds(i, "ready")
    <3>1. i >= frontier /\ i < frontier + Slots  BY <2>1, <2>3, UsedSlot DEF Holds
    <3>2. i \in Buffered  BY <1>3, <2>1, <2>3, <3>1 DEF Buffered
    <3> QED  BY <3>2 DEF SnapshotReceived
  <2> QED  BY <1>1, <1>5, <2>2, <2>3 DEF AcceptedInv
<1> QED  BY <1>4, <1>5

\* The bytes that Snapshot has counted after n turns of its loop.
CountedBytes(n) ==
  {k \in 0 .. TotalSize - 1 :
     k < readPos \/ (k < (frontier + n) * ChunkSize /\ k \in AcceptedBytes)}

\* What Read has returned was accepted.
LEMMA ReadAccepted ==
  ASSUME IInv, NEW k \in 0 .. TotalSize - 1, k < readPos
  PROVE  k \in AcceptedBytes
<1> USE WindowAssumption
<1>1. StreamIntact /\ readPos \in Nat  BY DEF IInv, TypeOK
<1>2. k + 1 \in 1 .. Len(out)  BY <1>1 DEF StreamIntact
<1>3. (k + 1) - 1 = k  OBVIOUS
<1> QED  BY <1>1, <1>2, <1>3 DEF StreamIntact, AcceptedBytes

\* The turn for chunk i counts the bytes of i that are accepted and not read.
LEMMA Turn ==
  ASSUME IInv, err = "none", NEW n \in 0 .. Slots - 1
  PROVE  /\ IsFiniteSet(CountedBytes(n))
         /\ Adds(frontier + n) \in Nat
         /\ Cardinality(CountedBytes(n + 1)) =
              Cardinality(CountedBytes(n)) + Adds(frontier + n)
<1> USE WindowAssumption
<1> DEFINE i == frontier + n
<1>1. TypeOK /\ AcceptedInv  BY DEF IInv
<1>2. readPos \in 0 .. TotalSize /\ frontier = FrontierAt(readPos)
  BY <1>1 DEF TypeOK, frontier
<1>3. frontier \in 0 .. Total /\ Total \in Nat  BY <1>2, FrontierBounds, Tiling
<1>4. i \in Nat /\ i >= frontier /\ i < frontier + Slots  BY <1>3
<1>5. frontier + (n + 1) = i + 1 /\ (i + 1) * ChunkSize = i * ChunkSize + ChunkSize
  BY <1>3, <1>4
<1> DEFINE lo == i * ChunkSize
<1>6. lo \in Nat  BY <1>4
<1>7. IsFiniteSet(CountedBytes(n))
  <2>1. IsFiniteSet(0 .. TotalSize - 1)  BY FS_Interval
  <2> QED  BY <2>1, FS_Subset DEF CountedBytes
<1>8. ASSUME NEW k
      PROVE  /\ k \in CountedBytes(n) <=>
                  /\ k \in 0 .. TotalSize - 1
                  /\ k < readPos \/ (k < lo /\ k \in AcceptedBytes)
             /\ k \in CountedBytes(n + 1) <=>
                  /\ k \in 0 .. TotalSize - 1
                  /\ k < readPos \/ (k < lo + ChunkSize /\ k \in AcceptedBytes)
  BY <1>5 DEF CountedBytes
<1> HIDE DEF i
<1>9. ASSUME NEW k \in Nat, lo <= k, k < lo + ChunkSize
      PROVE  k \div ChunkSize = i
  BY <1>4, <1>9, DivUnique
<1> HIDE DEF lo
<1>10. CASE i \in Buffered
  <2> DEFINE hi == lo + ChunkLen(i) - 1
             s  == IF readPos > lo THEN readPos ELSE lo
  <2>1. i \in Chunks /\ Holds(i, "ready")  BY <1>3, <1>10 DEF Buffered, Chunks
  <2>2. crcs[i] # NoContent
    BY <1>1, <2>1, Tiling DEF AcceptedInv, Holds, Filled
  <2>3. /\ ChunkLen(i) \in 1 .. ChunkSize /\ lo + ChunkLen(i) <= TotalSize
        /\ i = Total - 1 => lo + ChunkLen(i) = TotalSize
        /\ i # Total - 1 => ChunkLen(i) = ChunkSize
    BY <2>1, Tiling DEF lo
  <2>4. ~(lo + ChunkLen(i) <= readPos)
    BY <1>2, <1>4, <2>1, NotConsumed DEF lo
  <2>5. hi \in Nat /\ s \in Nat /\ s <= hi /\ hi < TotalSize /\ hi < lo + ChunkSize
    BY <1>2, <1>6, <2>3, <2>4
  <2>6. ASSUME NEW k \in s .. hi
        PROVE  k \in CountedBytes(n + 1) /\ k \notin CountedBytes(n)
    <3>1. k \in Nat /\ lo <= k /\ readPos <= k /\ k < lo + ChunkSize /\ k < TotalSize
      BY <1>2, <1>6, <2>5
    <3>2. k \in AcceptedBytes  BY <1>9, <2>2, <3>1 DEF AcceptedBytes
    <3> QED  BY <1>2, <1>6, <1>8, <3>1, <3>2
  <2>7. ASSUME NEW k \in CountedBytes(n + 1), k \notin CountedBytes(n)
        PROVE  k \in s .. hi
    <3>1. k \in 0 .. TotalSize - 1 /\ k < lo + ChunkSize /\ ~(k < readPos) /\ ~(k < lo)
      BY <1>8, <2>7
    <3>2. k <= hi
      <4>1. CASE i = Total - 1  BY <1>6, <2>3, <3>1, <4>1
      <4>2. CASE i # Total - 1  BY <1>6, <2>3, <3>1, <4>2
      <4> QED  BY <4>1, <4>2
    <3> QED  BY <1>2, <1>6, <2>5, <3>1, <3>2
  <2>8. CountedBytes(n) \subseteq CountedBytes(n + 1)
    <3>1. \A k \in 0 .. TotalSize - 1 : k < lo => k < lo + ChunkSize  BY <1>6
    <3> QED  BY <1>8, <3>1
  <2>9. Adds(i) = hi - s + 1
    BY <1>2, <1>6, <1>10, <2>3 DEF Adds, Taken, lo
  <2> HIDE DEF hi, s
  <2>10. /\ CountedBytes(n + 1) = CountedBytes(n) \cup (s .. hi)
         /\ CountedBytes(n) \cap (s .. hi) = {}
    BY <2>6, <2>7, <2>8
  <2>11. IsFiniteSet(s .. hi) /\ Cardinality(s .. hi) = hi - s + 1
    BY <2>5, FS_Interval
  <2>12. Cardinality(CountedBytes(n)) \in Nat  BY <1>7, FS_CardinalityType
  <2>13. Cardinality(CountedBytes(n + 1)) = Cardinality(CountedBytes(n)) + (hi - s + 1)
    <3> DEFINE A == CountedBytes(n)
               B == s .. hi
    <3>1. IsFiniteSet(A) /\ IsFiniteSet(B) /\ A \cap B = {}  BY <1>7, <2>10, <2>11
    <3> HIDE DEF A, B
    <3>2. Cardinality(A \cup B) = Cardinality(A) + Cardinality(B) - Cardinality(A \cap B)
      BY <3>1, FS_Union
    <3>3. Cardinality(A \cap B) = 0  BY <3>1, FS_EmptySet
    <3>4. \A x, y, z \in Int : z = 0 => x + y - z = x + y  OBVIOUS
    <3>5. Cardinality(A \cup B) = Cardinality(A) + Cardinality(B)
      BY <3>1, <3>2, <3>3, <3>4, FS_CardinalityType
    <3>6. CountedBytes(n + 1) = A \cup B  BY <2>10 DEF A, B
    <3> QED  BY <2>11, <3>5, <3>6 DEF A, B
  <2> QED  BY <1>7, <2>5, <2>9, <2>13 DEF i
<1>11. CASE i \notin Buffered
  <2>1. ASSUME NEW k \in CountedBytes(n + 1), ~(k < readPos), ~(k < lo)
        PROVE  FALSE
    <3>1. k \in Nat /\ k < TotalSize /\ k < lo + ChunkSize /\ k \in AcceptedBytes
      BY <1>8, <2>1
    <3>2. k \div ChunkSize = i /\ crcs[i] # NoContent
      BY <1>6, <1>9, <2>1, <3>1 DEF AcceptedBytes
    <3>3. i < Total
      <4> SUFFICES ASSUME i >= Total PROVE FALSE  BY <1>3, <1>4
      <4>1. \A x, y \in Nat : x <= y => x * ChunkSize <= y * ChunkSize  BY SMT
      <4>2. Total * ChunkSize <= lo  BY <1>3, <1>4, <4>1 DEF lo
      <4>3. Total * ChunkSize >= TotalSize /\ Total * ChunkSize \in Nat
        BY <1>3, Tiling
      <4> QED  BY <1>6, <2>1, <3>1, <4>2, <4>3
    <3>4. i \in Chunks  BY <1>3, <1>4, <3>3 DEF Chunks
    <3>5. Holds(i, "ready")  BY <1>1, <1>3, <1>4, <3>2, <3>4 DEF AcceptedInv
    <3> QED  BY <1>3, <1>4, <1>11, <3>3, <3>5 DEF Buffered
  <2>2. CountedBytes(n + 1) = CountedBytes(n)
    <3>1. \A k \in 0 .. TotalSize - 1 : k < lo => k < lo + ChunkSize  BY <1>6
    <3> QED  BY <1>8, <2>1, <3>1
  <2>3. Cardinality(CountedBytes(n)) \in Nat  BY <1>7, FS_CardinalityType
  <2>4. Adds(i) = 0  BY <1>11 DEF Adds
  <2> QED  BY <1>7, <2>2, <2>3, <2>4 DEF i
<1> QED  BY <1>10, <1>11

\* Before the loop Snapshot has counted what was read, and after it every
\* accepted byte.
LEMMA FirstAndLast ==
  ASSUME IInv, err = "none"
  PROVE  /\ Cardinality(CountedBytes(0)) = readPos
         /\ CountedBytes(Slots) = AcceptedBytes
<1> USE WindowAssumption
<1>1. TypeOK  BY DEF IInv
<1>2. readPos \in 0 .. TotalSize /\ frontier = FrontierAt(readPos)
  BY <1>1 DEF TypeOK, frontier
<1>3. frontier \in 0 .. Total /\ Total \in Nat  BY <1>2, FrontierBounds, Tiling
<1>4. CountedBytes(0) = 0 .. readPos - 1
  <2>1. ASSUME NEW k \in 0 .. TotalSize - 1, k < (frontier + 0) * ChunkSize
        PROVE  k < readPos
    <3>1. CASE readPos >= TotalSize  BY <1>2, <3>1
    <3>2. CASE readPos < TotalSize
      <4>1. frontier * ChunkSize <= readPos /\ frontier * ChunkSize \in Nat
        BY <1>2, <1>3, <3>2, FrontierBounds
      <4>2. frontier + 0 = frontier  BY <1>3
      <4> QED  BY <1>2, <2>1, <4>1, <4>2
    <3> QED  BY <1>2, <3>1, <3>2
  <2> QED  BY <1>2, <2>1 DEF CountedBytes
<1>5. Cardinality(0 .. readPos - 1) = readPos  BY <1>2, FS_Interval
<1>6. ASSUME NEW k \in AcceptedBytes PROVE k \in CountedBytes(Slots)
  <2> DEFINE i == k \div ChunkSize
  <2>1. k \in Nat /\ k < TotalSize /\ crcs[i] # NoContent  BY DEF AcceptedBytes
  <2>2. i \in Nat /\ i * ChunkSize <= k /\ k < i * ChunkSize + ChunkSize
    BY <2>1, DivBounds
  <2> HIDE DEF i
  <2>3. \A x, y \in Nat : x <= y => x * ChunkSize <= y * ChunkSize  BY SMT
  <2>4. i < Total
    <3> SUFFICES ASSUME i >= Total PROVE FALSE  BY <1>3, <2>2
    <3>1. Total * ChunkSize <= i * ChunkSize  BY <1>3, <2>2, <2>3
    <3>2. Total * ChunkSize >= TotalSize /\ Total * ChunkSize \in Nat
          /\ i * ChunkSize \in Nat
      BY <1>3, <2>2, Tiling
    <3> QED  BY <2>1, <2>2, <3>1, <3>2
  <2>5. i \in SnapshotReceived
    BY <1>3, <2>1, <2>2, <2>4, ReceivedAccepted DEF Chunks
  <2>6. i < frontier + Slots
    BY <1>3, <2>5 DEF SnapshotReceived, Buffered
  <2>7. (i + 1) * ChunkSize <= (frontier + Slots) * ChunkSize
    BY <1>3, <2>2, <2>3, <2>6
  <2>8. (i + 1) * ChunkSize = i * ChunkSize + ChunkSize  BY <2>2
  <2>9. (frontier + Slots) * ChunkSize \in Nat /\ i * ChunkSize \in Nat
    BY <1>3, <2>2
  <2>10. k < (frontier + Slots) * ChunkSize  BY <2>1, <2>2, <2>7, <2>8, <2>9
  <2> QED  BY <2>1, <2>10 DEF CountedBytes
<1>7. ASSUME NEW k \in CountedBytes(Slots) PROVE k \in AcceptedBytes
  <2>1. k \in 0 .. TotalSize - 1 /\ (k < readPos \/ k \in AcceptedBytes)
    BY DEF CountedBytes
  <2> QED  BY <2>1, ReadAccepted
<1> QED  BY <1>4, <1>5, <1>6, <1>7

\* ReceivedAfter is the table that its definition describes: one exists, the
\* table of the numbers of counted bytes.
LEMMA ReceivedAfterIs ==
  ASSUME IInv, err = "none"
  PROVE  /\ ReceivedAfter[0] = readPos
         /\ \A n \in 1 .. Slots :
              ReceivedAfter[n] = ReceivedAfter[n - 1] + Adds(frontier + n - 1)
<1> USE WindowAssumption
<1> DEFINE G == [n \in 0 .. Slots |-> Cardinality(CountedBytes(n))]
           IsTable(g) == g = [n \in 0 .. Slots |->
                                IF n = 0 THEN readPos
                                         ELSE g[n - 1] + Adds(frontier + n - 1)]
<1>1. IsTable(G)
  <2>1. ASSUME NEW n \in 0 .. Slots
        PROVE  G[n] = IF n = 0 THEN readPos
                               ELSE G[n - 1] + Adds(frontier + n - 1)
    <3>1. CASE n = 0  BY <3>1, FirstAndLast
    <3>2. CASE n # 0
      <4>1. n - 1 \in 0 .. Slots - 1 /\ n - 1 \in 0 .. Slots /\ (n - 1) + 1 = n
        BY <3>2
      <4>2. frontier + (n - 1) = frontier + n - 1
        BY <3>2, FrontierBounds, Tiling DEF IInv, TypeOK, frontier
      <4>3. Cardinality(CountedBytes((n - 1) + 1)) =
              Cardinality(CountedBytes(n - 1)) + Adds(frontier + (n - 1))
        <5> DEFINE j == n - 1
        <5>1. j \in 0 .. Slots - 1  BY <4>1
        <5> HIDE DEF j
        <5>2. Cardinality(CountedBytes(j + 1)) =
                Cardinality(CountedBytes(j)) + Adds(frontier + j)
          BY <5>1, Turn
        <5> QED  BY <5>2 DEF j
      <4> QED  BY <3>2, <4>1, <4>2, <4>3
    <3> QED  BY <3>1, <3>2
  <2> HIDE DEF G
  <2>2. G = [n \in 0 .. Slots |-> G[n]]  BY DEF G
  <2> QED  BY <2>1, <2>2
<1> HIDE DEF G
<1>2. ReceivedAfter = CHOOSE g : IsTable(g)  BY DEF ReceivedAfter
<1>3. IsTable(ReceivedAfter)
  <2> HIDE DEF IsTable
  <2> QED  BY <1>1, <1>2, Zenon
<1> QED  BY <1>3

\* Snapshot's sum is the number of accepted bytes.
LEMMA SumIsExact ==
  ASSUME IInv, err = "none"
  PROVE  SnapshotReceivedBytes = Cardinality(AcceptedBytes)
<1> USE WindowAssumption
<1> DEFINE G == [n \in 0 .. Slots |-> Cardinality(CountedBytes(n))]
           D == [n \in 1 .. Slots |-> Adds(frontier + n - 1)]
<1>1. G[0] = ReceivedAfter[0]  BY FirstAndLast, ReceivedAfterIs
<1>2. \A n \in 1 .. Slots : ReceivedAfter[n] = ReceivedAfter[n - 1] + D[n]
  BY ReceivedAfterIs
<1>3. \A n \in 1 .. Slots : G[n] = G[n - 1] + D[n]
  <2> SUFFICES ASSUME NEW n \in 1 .. Slots PROVE G[n] = G[n - 1] + D[n]  OBVIOUS
  <2>1. n - 1 \in 0 .. Slots - 1 /\ n - 1 \in 0 .. Slots /\ (n - 1) + 1 = n
    OBVIOUS
  <2>2. frontier + (n - 1) = frontier + n - 1
    BY FrontierBounds, Tiling DEF IInv, TypeOK, frontier
  <2>3. Cardinality(CountedBytes((n - 1) + 1)) =
          Cardinality(CountedBytes(n - 1)) + Adds(frontier + (n - 1))
    <3> DEFINE j == n - 1
    <3>1. j \in 0 .. Slots - 1  BY <2>1
    <3> HIDE DEF j
    <3>2. Cardinality(CountedBytes(j + 1)) =
            Cardinality(CountedBytes(j)) + Adds(frontier + j)
      BY <3>1, Turn
    <3> QED  BY <3>2 DEF j
  <2> QED  BY <2>1, <2>2, <2>3
<1>4. G[Slots] = Cardinality(AcceptedBytes)  BY FirstAndLast
<1> HIDE DEF G, D
<1>5. G[Slots] = ReceivedAfter[Slots]
  <2>1. \A n \in 0 .. Slots : G[n] = ReceivedAfter[n]
    BY <1>1, <1>2, <1>3, SameSums
  <2> QED  BY <2>1
<1> QED  BY <1>4, <1>5 DEF SnapshotReceivedBytes

\* While the window is open Snapshot reports the accepted chunks and the number
\* of their bytes, whatever the reader is in the middle of: Complete may decide
\* by ReceivedBytes.
THEOREM SnapshotIsExact == Spec => []SnapshotExact
<1>1. IInv => SnapshotExact  BY ReceivedAccepted, SumIsExact DEF SnapshotExact
<1> QED  BY <1>1, Invariance, PTL
=============================================================================
