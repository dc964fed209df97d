---------------------------- MODULE UploadWindow ----------------------------
(***************************************************************************)
(* internal/multipart/window.go: the ring file that reassembles chunks,    *)
(* uploaded concurrently and in any order, into one sequential stream.     *)
(*                                                                         *)
(* Chunk i lands in slot i % Slots.  A writer is one WriteChunk call; the  *)
(* reader is the single goroutine of the driver's Put.  Everything the     *)
(* code does while it holds w.mu is one step; the copy of a request body   *)
(* and the ReadAt happen outside the mutex and are steps of their own.     *)
(* w.cond is modelled by the pc "parked": Broadcast moves every parked     *)
(* process back to the head of its loop.                                   *)
(*                                                                         *)
(* A byte is represented by the content of the chunk it belongs to, and a  *)
(* CRC32 by the content it was computed over (collisions are abstracted).  *)
(***************************************************************************)
EXTENDS Integers, Sequences, FiniteSets

CONSTANTS
  ChunkSize, TotalSize, Slots,  \* the parameters of NewWindow
  Writers,                      \* concurrent WriteChunk calls
  Contents,                     \* what a chunk's body may hold
  NoContent,                    \* an unwritten byte, an unset CRC
  MaxFaults                     \* bound: request bodies that are cut, too long or stall

ASSUME WindowAssumption ==
  /\ ChunkSize \in Nat \ {0}
  /\ TotalSize \in Nat \ {0}
  /\ Slots \in Nat \ {0}
  /\ NoContent \notin Contents
  /\ MaxFaults \in Nat

Total    == (TotalSize + ChunkSize - 1) \div ChunkSize
Chunks   == 0 .. Total - 1
Offsets  == 0 .. ChunkSize - 1
SlotIds  == 0 .. Slots - 1
SlotOf(i)   == i % Slots

ChunkLen(i) == IF i = Total - 1 THEN TotalSize - i * ChunkSize ELSE ChunkSize

VARIABLES
  slotState,  \* slot -> "free", "filling" or "ready"
  slotChunk,  \* slot -> the chunk it holds, -1 when free
  readPos,    \* bytes consumed by the reader
  crcs,       \* chunk -> CRC of the accepted body, NoContent while crcSet is false
  err,        \* the sticky error: "none" or "closed" (whichever error the closer chose)
  file,       \* the ring file: "open", "closing" (detached, not closed yet), "closed"
  ring,       \* slot -> offset -> the byte on disk
  pc,         \* writer -> "idle", "admit", "parked", "copy" or "commit"
  call,       \* writer -> chunk index, content and fate of the body of its call
  copied,     \* writer -> bytes of the body copied so far
  late,       \* writer -> WindowWaitTimeout has elapsed
  timer,      \* writer -> the deadline's AfterFunc is armed
  res,        \* writer -> what its last call returned
  rpc,        \* reader: "idle", "loop", "parked", "read", "update", "eof", "failed"
  want,       \* reader: bytes its ReadAt asks for
  got,        \* reader: bytes ReadAt returned
  out,        \* history: every byte Read returned, in order
  faults      \* history: bodies that were cut, too long or stalled so far

vars == <<slotState, slotChunk, readPos, crcs, err, file, ring, pc, call, copied,
          late, timer, res, rpc, want, got, out, faults>>

slotVars   == <<slotState, slotChunk>>
callVars   == <<call, copied, late, timer>>
readerVars == <<rpc, want, got, out>>

Fates   == {"exact", "short", "long", "stall"}
Results == {"none", "ok", "inFlight", "outOfWindow", "badBody", "closed"}
Calls   == [idx : Chunks, content : Contents, fate : Fates]

TypeOK ==
  /\ slotState \in [SlotIds -> {"free", "filling", "ready"}]
  /\ slotChunk \in [SlotIds -> Chunks \cup {-1}]
  /\ readPos \in 0 .. TotalSize
  /\ crcs \in [Chunks -> Contents \cup {NoContent}]
  /\ err \in {"none", "closed"}
  /\ file \in {"open", "closing", "closed"}
  /\ ring \in [SlotIds -> [Offsets -> Contents \cup {NoContent}]]
  /\ pc \in [Writers -> {"idle", "admit", "parked", "copy", "commit"}]
  /\ call \in [Writers -> Calls]
  /\ copied \in [Writers -> 0 .. ChunkSize]
  /\ late \in [Writers -> BOOLEAN]
  /\ timer \in [Writers -> BOOLEAN]
  /\ res \in [Writers -> Results]
  /\ rpc \in {"idle", "loop", "parked", "read", "update", "eof", "failed"}
  /\ want \in 0 .. ChunkSize
  /\ got \in Seq(Contents \cup {NoContent})
  /\ out \in Seq(Contents \cup {NoContent})
  /\ faults \in 0 .. MaxFaults

Init ==
  /\ slotState = [s \in SlotIds |-> "free"]
  /\ slotChunk = [s \in SlotIds |-> -1]
  /\ readPos = 0
  /\ crcs = [i \in Chunks |-> NoContent]
  /\ err = "none"
  /\ file = "open"
  /\ ring = [s \in SlotIds |-> [o \in Offsets |-> NoContent]]
  /\ pc = [w \in Writers |-> "idle"]
  /\ \E c \in Contents :
       call = [w \in Writers |-> [idx |-> 0, content |-> c, fate |-> "exact"]]
  /\ copied = [w \in Writers |-> 0]
  /\ late = [w \in Writers |-> FALSE]
  /\ timer = [w \in Writers |-> FALSE]
  /\ res = [w \in Writers |-> "none"]
  /\ rpc = "idle"
  /\ want = 0
  /\ got = << >>
  /\ out = << >>
  /\ faults = 0

-----------------------------------------------------------------------------
(* Helpers                                                                 *)

FrontierAt(p) == IF p >= TotalSize THEN Total ELSE p \div ChunkSize
frontier == FrontierAt(readPos)

Consumed(i)  == i * ChunkSize + ChunkLen(i) <= readPos
Holds(i, st) == slotChunk[SlotOf(i)] = i /\ slotState[SlotOf(i)] = st

\* Bug: a chunk any distance ahead may take a free slot.
BugAdmissibleAnyAhead(i) == slotState[SlotOf(i)] = "free"

Admissible(i) == slotState[SlotOf(i)] = "free" /\ i < frontier + Slots

\* cond.Broadcast, for a step that changes the pc of writer w to p itself
WakeAll(w, p) ==
  /\ pc' = [v \in Writers |-> IF v = w THEN p
                              ELSE IF pc[v] = "parked" THEN "admit" ELSE pc[v]]
  /\ rpc' = IF rpc = "parked" THEN "loop" ELSE rpc

WakeWriters == pc' = [v \in Writers |-> IF pc[v] = "parked" THEN "admit" ELSE pc[v]]

\* WriteChunk returns r: its local variables die, its timer is stopped
FrameEnds(w, r) ==
  /\ res' = [res EXCEPT ![w] = r]
  /\ copied' = [copied EXCEPT ![w] = 0]
  /\ late' = [late EXCEPT ![w] = FALSE]
  /\ timer' = [timer EXCEPT ![w] = FALSE]
  /\ UNCHANGED call

\* ... without having touched a slot
Return(w, r) ==
  /\ FrameEnds(w, r)
  /\ pc' = [pc EXCEPT ![w] = "idle"]
  /\ UNCHANGED <<slotVars, readPos, crcs, err, file, ring, readerVars, faults>>

-----------------------------------------------------------------------------
(* WriteChunk                                                              *)

\* A request arrives: the handler calls WriteChunk with an index in range.
CallWrite(w, i, c, fate) ==
  /\ pc[w] = "idle"
  /\ fate # "exact" => faults < MaxFaults
  /\ faults' = IF fate = "exact" THEN faults ELSE faults + 1
  /\ pc' = [pc EXCEPT ![w] = "admit"]
  /\ call' = [call EXCEPT ![w] = [idx |-> i, content |-> c, fate |-> fate]]
  /\ res' = [res EXCEPT ![w] = "none"]
  /\ UNCHANGED <<slotVars, readPos, crcs, err, file, ring, copied, late, timer,
                 readerVars>>

\* Bug: a chunk that another request is still sending counts as received.
BugAdmitAcksInFlight(w) ==
  LET i == call[w].idx IN
  /\ pc[w] = "admit"
  /\ \/ err # "none" /\ Return(w, "closed")
     \/ /\ err = "none"
        /\ Consumed(i) \/ Holds(i, "ready") \/ Holds(i, "filling")
        /\ Return(w, "ok")

\* One turn of the admission loop, in the order of its tests: it returns ...
AdmitReturns(w) ==
  LET i == call[w].idx IN
  /\ pc[w] = "admit"
  /\ \/ err # "none" /\ Return(w, "closed")
     \/ err = "none" /\ (Consumed(i) \/ Holds(i, "ready")) /\ Return(w, "ok")
     \/ /\ err = "none" /\ ~Consumed(i) /\ Holds(i, "filling")
        /\ Return(w, "inFlight")

Undecided(w) ==
  LET i == call[w].idx IN
  /\ pc[w] = "admit" /\ err = "none" /\ ~Consumed(i)
  /\ ~Holds(i, "ready") /\ ~Holds(i, "filling")

\* ... or takes the free slot ...
AdmitTakesSlot(w) ==
  LET i == call[w].idx IN
  /\ Undecided(w)
  /\ Admissible(i)
  /\ slotState' = [slotState EXCEPT ![SlotOf(i)] = "filling"]
  /\ slotChunk' = [slotChunk EXCEPT ![SlotOf(i)] = i]
  /\ pc' = [pc EXCEPT ![w] = "copy"]
  /\ timer' = [timer EXCEPT ![w] = FALSE]
  /\ late' = [late EXCEPT ![w] = FALSE]
  /\ copied' = [copied EXCEPT ![w] = 0]
  /\ UNCHANGED <<readPos, crcs, err, file, ring, call, res, readerVars, faults>>

\* ... or gives up after the deadline ...
AdmitTimesOut(w) ==
  /\ Undecided(w)
  /\ ~Admissible(call[w].idx)
  /\ late[w]
  /\ Return(w, "outOfWindow")

\* Bug: the timer is not armed.
BugAdmitParksUntimed(w) ==
  /\ Undecided(w)
  /\ ~Admissible(call[w].idx)
  /\ ~late[w]
  /\ pc' = [pc EXCEPT ![w] = "parked"]
  /\ UNCHANGED <<slotVars, readPos, crcs, err, file, ring, call, copied, late,
                 timer, res, readerVars, faults>>

\* ... or parks, with the timer armed.
AdmitParks(w) ==
  /\ Undecided(w)
  /\ ~Admissible(call[w].idx)
  /\ ~late[w]
  /\ pc' = [pc EXCEPT ![w] = "parked"]
  /\ timer' = [timer EXCEPT ![w] = TRUE]
  /\ UNCHANGED <<slotVars, readPos, crcs, err, file, ring, call, copied, late,
                 res, readerVars, faults>>

\* The clock passes the deadline of a call that is still waiting for its slot.
DeadlinePasses(w) ==
  /\ pc[w] \in {"admit", "parked"}
  /\ ~late[w]
  /\ late' = [late EXCEPT ![w] = TRUE]
  /\ UNCHANGED <<slotVars, readPos, crcs, err, file, ring, pc, call, copied,
                 timer, res, readerVars, faults>>

\* The AfterFunc set at the first park: lock, Broadcast, unlock.
TimerFires(w) ==
  /\ timer[w] /\ late[w]
  /\ timer' = [timer EXCEPT ![w] = FALSE]
  /\ WakeAll(w, IF pc[w] = "parked" THEN "admit" ELSE pc[w])
  /\ UNCHANGED <<slotVars, readPos, crcs, err, file, ring, call, copied, late,
                 res, want, got, out, faults>>

\* How many bytes of the payload the body delivers: one too few if it is cut, or
\* stalls.
Payload(w) == IF call[w].fate \in {"short", "stall"} THEN ChunkLen(call[w].idx) - 1
                                                    ELSE ChunkLen(call[w].idx)

\* The copy waits for a body whose client keeps the connection open and sends no
\* more: no read deadline is set, and neither the window nor a close of its file
\* reaches a Read of the body.
Stalled(w) == pc[w] = "copy" /\ call[w].fate = "stall" /\ copied[w] = Payload(w)

\* The body is copied into the slot, outside the mutex.
CopyByte(w) ==
  /\ pc[w] = "copy"
  /\ copied[w] < Payload(w)
  /\ file # "closed"
  /\ ring' = [ring EXCEPT ![SlotOf(call[w].idx)][copied[w]] = call[w].content]
  /\ copied' = [copied EXCEPT ![w] = @ + 1]
  /\ UNCHANGED <<slotVars, readPos, crcs, err, file, pc, call, late, timer, res,
                 readerVars, faults>>

\* The copy ends: the body is exhausted, or the file was closed under it ...
CopyEnds(w) ==
  /\ pc[w] = "copy" /\ ~Stalled(w)
  /\ copied[w] = Payload(w) \/ file = "closed"
  /\ pc' = [pc EXCEPT ![w] = "commit"]
  /\ UNCHANGED <<slotVars, readPos, crcs, err, file, ring, callVars, res,
                 readerVars, faults>>

\* ... or the connection of a stalled body breaks after all.
StallBreaks(w) ==
  /\ Stalled(w)
  /\ pc' = [pc EXCEPT ![w] = "commit"]
  /\ UNCHANGED <<slotVars, readPos, crcs, err, file, ring, callVars, res,
                 readerVars, faults>>

\* Bug: a body that ends early is not noticed.
BugCopyOkShort(w) == call[w].fate # "long"

CopyOk(w) == call[w].fate = "exact" /\ copied[w] = ChunkLen(call[w].idx)

\* The second critical section: the slot is no longer this call's (the window
\* was closed) ...
CommitLost(w) ==
  /\ pc[w] = "commit"
  /\ ~Holds(call[w].idx, "filling")
  /\ Return(w, "closed")

\* ... or the copy failed: free the slot, with no Broadcast ...
CommitFails(w) ==
  LET s == SlotOf(call[w].idx) IN
  /\ pc[w] = "commit"
  /\ Holds(call[w].idx, "filling")
  /\ ~CopyOk(w) \/ err # "none"
  /\ slotState' = [slotState EXCEPT ![s] = "free"]
  /\ slotChunk' = [slotChunk EXCEPT ![s] = -1]
  /\ pc' = [pc EXCEPT ![w] = "idle"]
  /\ FrameEnds(w, IF CopyOk(w) THEN "closed" ELSE "badBody")
  /\ UNCHANGED <<readPos, crcs, err, file, ring, readerVars, faults>>

\* Bug: an accepted chunk wakes nobody.
BugCommitSilently(w) ==
  /\ pc[w] = "commit"
  /\ Holds(call[w].idx, "filling")
  /\ CopyOk(w) /\ err = "none"
  /\ slotState' = [slotState EXCEPT ![SlotOf(call[w].idx)] = "ready"]
  /\ crcs' = [crcs EXCEPT ![call[w].idx] = call[w].content]
  /\ FrameEnds(w, "ok")
  /\ pc' = [pc EXCEPT ![w] = "idle"]
  /\ UNCHANGED <<slotChunk, readPos, err, file, ring, rpc, want, got, out, faults>>

\* ... or the chunk is accepted.
CommitReady(w) ==
  /\ pc[w] = "commit"
  /\ Holds(call[w].idx, "filling")
  /\ CopyOk(w) /\ err = "none"
  /\ slotState' = [slotState EXCEPT ![SlotOf(call[w].idx)] = "ready"]
  /\ crcs' = [crcs EXCEPT ![call[w].idx] = call[w].content]
  /\ FrameEnds(w, "ok")
  /\ WakeAll(w, "idle")
  /\ UNCHANGED <<slotChunk, readPos, err, file, ring, want, got, out, faults>>

-----------------------------------------------------------------------------
(* Read                                                                    *)

ChunkStart == frontier * ChunkSize
ChunkEnd   == ChunkStart + ChunkLen(frontier)

\* The driver asks for up to n bytes.
CallRead(n) ==
  /\ rpc = "idle"
  /\ rpc' = "loop"
  /\ want' = n
  /\ UNCHANGED <<slotVars, readPos, crcs, err, file, ring, pc, callVars, res,
                 got, out, faults>>

\* One turn of the loop: it returns an error or EOF ...
ReadReturns ==
  /\ rpc = "loop"
  /\ \/ err # "none" /\ rpc' = "failed"
     \/ err = "none" /\ readPos >= TotalSize /\ rpc' = "eof"
  /\ UNCHANGED <<slotVars, readPos, crcs, err, file, ring, pc, callVars, res,
                 want, got, out, faults>>

\* Bug: the slot is freed before it is read.
BugReadFindsFrees ==
  /\ rpc = "loop" /\ err = "none" /\ readPos < TotalSize
  /\ Holds(frontier, "ready")
  /\ rpc' = "read"
  /\ want' = IF want > ChunkEnd - readPos THEN ChunkEnd - readPos ELSE want
  /\ slotState' = [slotState EXCEPT ![SlotOf(frontier)] = "free"]
  /\ UNCHANGED <<slotChunk, readPos, crcs, err, file, ring, pc, callVars, res,
                 got, out, faults>>

\* ... or unlocks to read the current chunk, not past its end ...
ReadFinds ==
  /\ rpc = "loop" /\ err = "none" /\ readPos < TotalSize
  /\ Holds(frontier, "ready")
  /\ rpc' = "read"
  /\ want' = IF want > ChunkEnd - readPos THEN ChunkEnd - readPos ELSE want
  /\ UNCHANGED <<slotVars, readPos, crcs, err, file, ring, pc, callVars, res,
                 got, out, faults>>

\* ... or parks.
ReadParks ==
  /\ rpc = "loop" /\ err = "none" /\ readPos < TotalSize
  /\ ~Holds(frontier, "ready")
  /\ rpc' = "parked"
  /\ UNCHANGED <<slotVars, readPos, crcs, err, file, ring, pc, callVars, res,
                 want, got, out, faults>>

\* f.ReadAt outside the mutex: all the bytes wanted, or fewer (none, even)
\* when the file is being closed.
ReadAt ==
  /\ rpc = "read"
  /\ \E n \in 0 .. want :
       /\ n = want \/ file # "open"
       /\ n = 0 \/ file # "closed"
       /\ got' = [k \in 1 .. n |->
                    ring[SlotOf(frontier)][readPos - ChunkStart + k - 1]]
  /\ rpc' = "update"
  /\ UNCHANGED <<slotVars, readPos, crcs, err, file, ring, pc, callVars, res,
                 want, out, faults>>

\* Bug: writers that wait for the freed slot are not woken.
BugReadUpdatesSilently ==
  /\ rpc = "update"
  /\ readPos' = readPos + Len(got)
  /\ out' = out \o got
  /\ got' = << >>
  /\ rpc' = IF Len(got) > 0 THEN "idle" ELSE "failed"
  /\ IF Len(got) > 0 /\ readPos + Len(got) >= ChunkEnd
       THEN /\ slotState' = [slotState EXCEPT ![SlotOf(frontier)] = "free"]
            /\ slotChunk' = [slotChunk EXCEPT ![SlotOf(frontier)] = -1]
       ELSE UNCHANGED slotVars
  /\ UNCHANGED <<crcs, err, file, ring, pc, callVars, res, want, faults>>

\* Lock again: advance, free the slot at the chunk's end, return the bytes.
ReadUpdates ==
  /\ rpc = "update"
  /\ readPos' = readPos + Len(got)
  /\ out' = out \o got
  /\ got' = << >>
  /\ rpc' = IF Len(got) > 0 THEN "idle" ELSE "failed"
  /\ IF Len(got) > 0 /\ readPos + Len(got) >= ChunkEnd
       THEN /\ slotState' = [slotState EXCEPT ![SlotOf(frontier)] = "free"]
            /\ slotChunk' = [slotChunk EXCEPT ![SlotOf(frontier)] = -1]
            /\ WakeWriters
       ELSE UNCHANGED <<slotVars, pc>>
  /\ UNCHANGED <<crcs, err, file, ring, callVars, res, want, faults>>

-----------------------------------------------------------------------------
(* CloseWithError                                                          *)

\* Under the mutex: the first error sticks, the file is detached, every slot is
\* reset.  The detached file is closed and removed after the unlock.
Close ==
  /\ err = "none"
  /\ err' = "closed"
  /\ file' = "closing"
  /\ slotState' = [s \in SlotIds |-> "free"]
  /\ slotChunk' = [s \in SlotIds |-> -1]
  /\ WakeWriters
  /\ rpc' = IF rpc = "parked" THEN "loop" ELSE rpc
  /\ UNCHANGED <<readPos, crcs, ring, callVars, res, want, got, out, faults>>

CloseFile ==
  /\ file = "closing"
  /\ file' = "closed"
  /\ UNCHANGED <<slotVars, readPos, crcs, err, ring, pc, callVars, res,
                 readerVars, faults>>

-----------------------------------------------------------------------------
Admit(w)  == AdmitReturns(w) \/ AdmitTakesSlot(w) \/ AdmitTimesOut(w) \/ AdmitParks(w)
Commit(w) == CommitLost(w) \/ CommitFails(w) \/ CommitReady(w)
Copy(w)   == CopyByte(w) \/ CopyEnds(w)

WriterStep(w) ==
  \/ Admit(w) \/ DeadlinePasses(w) \/ TimerFires(w) \/ Copy(w) \/ Commit(w)
  \/ StallBreaks(w)

ReaderStep ==
  \/ \E n \in 1 .. ChunkSize : CallRead(n)
  \/ ReadReturns \/ ReadFinds \/ ReadParks \/ ReadAt \/ ReadUpdates

Next ==
  \/ \E w \in Writers : WriterStep(w)
  \/ \E w \in Writers, i \in Chunks, c \in Contents, fate \in Fates :
       CallWrite(w, i, c, fate)
  \/ ReaderStep
  \/ Close
  \/ CloseFile

Spec == Init /\ [][Next]_vars

-----------------------------------------------------------------------------
(* Snapshot                                                                *)

Buffered == {i \in frontier .. frontier + Slots - 1 : i < Total /\ Holds(i, "ready")}

\* Bug: bytes of the chunk under the reader count twice.
BugTakenTwice(i) == 0

\* Bytes of chunk i that the reader has already taken
Taken(i) == IF readPos > i * ChunkSize THEN readPos - i * ChunkSize ELSE 0

\* What the loop's turn for chunk i adds to ReceivedBytes
Adds(i) == IF i \in Buffered THEN ChunkLen(i) - Taken(i) ELSE 0

SnapshotReceived == (0 .. frontier - 1) \cup Buffered

\* ReceivedBytes after n turns of the loop over the slots
ReceivedAfter[n \in 0 .. Slots] ==
  IF n = 0 THEN readPos ELSE ReceivedAfter[n - 1] + Adds(frontier + n - 1)

SnapshotReceivedBytes == ReceivedAfter[Slots]

-----------------------------------------------------------------------------
(* Safety                                                                  *)

\* What Read has returned is the stream: byte k comes from the chunk it belongs
\* to, and every byte of a chunk from the one body whose CRC WriteChunk
\* answered, although bodies are copied in any order, cut, resent with other
\* bytes, and ring slots are reused.
StreamIntact ==
  /\ Len(out) = readPos
  /\ \A k \in 1 .. Len(out) : /\ out[k] # NoContent
                              /\ out[k] = crcs[(k - 1) \div ChunkSize]

\* The copies outside the mutex never touch a slot that another copy or the
\* reader's ReadAt is using.
SlotExclusive ==
  \A w \in Writers : pc[w] = "copy" =>
    /\ rpc = "read" => SlotOf(call[w].idx) # SlotOf(frontier)
    /\ \A v \in Writers \ {w} :
         pc[v] = "copy" => SlotOf(call[v].idx) # SlotOf(call[w].idx)

\* A slot in use holds the chunk that maps to it, and only a chunk of the window
\* that starts at the frontier; a closed window holds nothing, although a
\* commit or a read may end after the close.
WindowBound ==
  \A s \in SlotIds :
    IF slotState[s] = "free"
      THEN slotChunk[s] = -1
      ELSE /\ err = "none"
           /\ slotChunk[s] \in frontier .. frontier + Slots - 1
           /\ SlotOf(slotChunk[s]) = s

\* No process stays parked on w.cond when it could go on: in particular the
\* failure path of WriteChunk, which frees its slot without a Broadcast,
\* strands nobody.
NoMissedWakeup ==
  /\ \A w \in Writers : pc[w] = "parked" =>
       /\ err = "none"
       /\ ~Consumed(call[w].idx)
       /\ ~Holds(call[w].idx, "ready") /\ ~Holds(call[w].idx, "filling")
       /\ ~Admissible(call[w].idx)
       /\ timer[w]
  /\ rpc = "parked" => /\ err = "none"
                       /\ readPos < TotalSize
                       /\ ~Holds(frontier, "ready")

\* WriteChunk answers ok only for a chunk whose whole body was accepted, by this
\* call or by an earlier one.
AckMeansReceived ==
  \A w \in Writers : res[w] = "ok" => crcs[call[w].idx] # NoContent

\* The bytes of the file that lie in a chunk whose body was accepted
AcceptedBytes == {k \in 0 .. TotalSize - 1 : crcs[k \div ChunkSize] # NoContent}

\* While the window is open Snapshot reports exactly the chunks accepted so far,
\* and as ReceivedBytes the number of their bytes: Complete refuses or waits by
\* ReceivedBytes, and a client resends what is not in Received.
SnapshotExact ==
  err = "none" => /\ SnapshotReceived = {i \in Chunks : crcs[i] # NoContent}
                  /\ SnapshotReceivedBytes = Cardinality(AcceptedBytes)

-----------------------------------------------------------------------------
(* The inductive invariant behind the theorems of UploadWindowProofs       *)

Owner(w)  == pc[w] \in {"copy", "commit"}
Reading   == rpc \in {"read", "update"}
Filled(i) == /\ crcs[i] # NoContent
             /\ \A o \in 0 .. ChunkLen(i) - 1 : ring[SlotOf(i)][o] = crcs[i]

\* A call past admission owns its slot, alone, until it returns; what it has
\* copied is in the slot; its chunk has not been accepted before.
OwnsSlot(w) ==
  /\ err = "none" => Holds(call[w].idx, "filling") /\ crcs[call[w].idx] = NoContent
  /\ Reading => SlotOf(call[w].idx) # SlotOf(frontier)
  /\ copied[w] <= ChunkLen(call[w].idx)
  /\ \A o \in 0 .. copied[w] - 1 : ring[SlotOf(call[w].idx)][o] = call[w].content
  /\ \A v \in Writers : Owner(v) /\ SlotOf(call[v].idx) = SlotOf(call[w].idx) => v = w

OwnerInv == \A w \in Writers : Owner(w) => OwnsSlot(w)

\* A ready slot holds the accepted body, and in an open window an accepted chunk
\* is either consumed or ready.
AcceptedInv ==
  /\ \A s \in SlotIds : slotState[s] = "ready" => Filled(slotChunk[s])
  /\ err = "none" => \A i \in Chunks :
       crcs[i] # NoContent => i < frontier \/ Holds(i, "ready")

\* Between ReadFinds and ReadUpdates the slot under the reader stays intact.
ReaderInv ==
  /\ rpc = "idle" \/ want > 0
  /\ Reading => /\ readPos < TotalSize
                /\ readPos + want <= ChunkEnd
                /\ Filled(frontier)
                /\ err = "none" => Holds(frontier, "ready")
  /\ rpc = "update" => /\ Len(got) <= want
                       /\ \A k \in 1 .. Len(got) : got[k] = crcs[frontier]

\* The conjunction that every step preserves.
IInv ==
  /\ TypeOK /\ WindowBound /\ OwnerInv /\ AcceptedInv /\ ReaderInv /\ StreamIntact

-----------------------------------------------------------------------------
(* Action properties                                                       *)

\* The CRC answered for a chunk is final (the session compares it with the one
\* of an earlier attempt), and nothing is accepted once the window is closed.
CrcFinal ==
  [][\A i \in Chunks : crcs'[i] # crcs[i] => crcs[i] = NoContent /\ err = "none"]_vars

-----------------------------------------------------------------------------
(* Refinement                                                              *)

\* A read that is past its check of err delivers even if the window closes.
Stream == INSTANCE OrderedStream WITH
  Ahead     <- Slots,
  accepted  <- crcs,
  delivered <- out,
  closed    <- err # "none",
  lastRead  <- err = "none" \/ rpc \in {"read", "update"}

\* The window is an in-order stream with bounded run-ahead.
ImplementsStream == Stream!StreamSpec

-----------------------------------------------------------------------------
(* Liveness                                                                *)

(* The scheduler runs every goroutine that can run and time passes.  Copy is *)
(* an assumption on the client of the call: it sends, or cuts, a body that   *)
(* does not stall.  StallBreaks has no fairness: no HTTP server here sets a  *)
(* read deadline, so a stalled body lasts as long as its client likes.       *)
CallFairness ==
  /\ \A w \in Writers : /\ WF_vars(Admit(w)) /\ WF_vars(DeadlinePasses(w))
                        /\ WF_vars(TimerFires(w)) /\ WF_vars(Copy(w))
                        /\ WF_vars(Commit(w))
  /\ WF_vars(CloseFile)

(* The driver keeps reading, and the client keeps sending each chunk it has   *)
(* not been answered ok for, with faults limited to MaxFaults.  Strong        *)
(* fairness: the Writers may all be busy now and then.                        *)
ReaderFairness == WF_vars(ReaderStep)
Resend(i) ==
  /\ i \notin SnapshotReceived
  /\ \E w \in Writers, c \in Contents : CallWrite(w, i, c, "exact")
ClientFairness == \A i \in Chunks : SF_vars(Resend(i))

FairSpec == Spec /\ CallFairness /\ ReaderFairness /\ ClientFairness

\* Every WriteChunk call returns but one whose own client stalls in the body:
\* waiting for a slot is bounded by the deadline, also for the calls that want
\* the slot a stalled body holds, and a close ends every other call.
CallsReturn ==
  \A w \in Writers : pc[w] # "idle" ~> pc[w] = "idle" \/ Stalled(w)

\* The driver's Read loop ends, by EOF or by the sticky error, unless a body
\* stalls for ever: with a client that resends, backpressure never turns into a
\* deadlock of parked writers with a parked reader.
StreamEnds ==
  <>(rpc \in {"eof", "failed"}) \/ <>[](\E w \in Writers : Stalled(w))
=============================================================================
