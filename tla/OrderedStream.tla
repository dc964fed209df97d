---------------------------- MODULE OrderedStream ----------------------------
(***************************************************************************)
(* What internal/multipart/window.go promises, without ring, slots, mutex  *)
(* or goroutines: chunks are accepted once each, in any order, at most     *)
(* Ahead chunks past the one being read; the reader gets their bytes in    *)
(* stream order and only after the whole chunk was accepted; once closed,  *)
(* nothing more is accepted and the reader gets at most one more piece.    *)
(***************************************************************************)
EXTENDS Integers, Sequences

CONSTANTS ChunkSize, TotalSize, Ahead, Contents, NoContent

NumChunks == (TotalSize + ChunkSize - 1) \div ChunkSize

\* The chunk that the byte at offset k (from 0) belongs to
ChunkOf(k) == k \div ChunkSize

VARIABLES
  accepted,   \* chunk -> the content accepted for it, NoContent before
  delivered,  \* every byte handed to the reader
  closed,
  lastRead    \* a read was under way at the close, and may still deliver

svars == <<accepted, delivered, closed, lastRead>>

StreamInit ==
  /\ accepted = [i \in 0 .. NumChunks - 1 |-> NoContent]
  /\ delivered = << >>
  /\ closed = FALSE
  /\ lastRead = TRUE

Accept(i, c) ==
  /\ ~closed
  /\ accepted[i] = NoContent
  /\ Len(delivered) < TotalSize
  /\ i < ChunkOf(Len(delivered)) + Ahead
  /\ accepted' = [accepted EXCEPT ![i] = c]
  /\ UNCHANGED <<delivered, closed, lastRead>>

\* n bytes of the chunk under the reader
Deliver(n) ==
  LET k == Len(delivered) IN
  /\ lastRead
  /\ k + n <= TotalSize
  /\ ChunkOf(k + n - 1) = ChunkOf(k)
  /\ accepted[ChunkOf(k)] # NoContent
  /\ delivered' = delivered \o [j \in 1 .. n |-> accepted[ChunkOf(k)]]
  /\ lastRead' = ~closed
  /\ UNCHANGED <<accepted, closed>>

CloseStream ==
  /\ ~closed
  /\ closed' = TRUE
  /\ UNCHANGED <<accepted, delivered>>
  /\ lastRead' \in BOOLEAN

\* ... or the read that was under way fails
LastReadFails ==
  /\ closed /\ lastRead
  /\ lastRead' = FALSE
  /\ UNCHANGED <<accepted, delivered, closed>>

StreamNext ==
  \/ \E i \in 0 .. NumChunks - 1, c \in Contents : Accept(i, c)
  \/ \E n \in 1 .. ChunkSize : Deliver(n)
  \/ CloseStream
  \/ LastReadFails

StreamSpec == StreamInit /\ [][StreamNext]_svars
=============================================================================
