----------------------------- MODULE Downloader -----------------------------
(***************************************************************************)
(* internal/net/request.go: one ranged download split into parts.  Worker  *)
(* goroutines take parts from a channel and copy each one into a buffer;   *)
(* the reader consumes the buffers in part order and recycles them; every  *)
(* response starts the next worker, as long as the concurrency of the      *)
(* download and the limit shared by all downloads allow it.                *)
(*                                                                         *)
(* PartSizes has the sizes of the parts; a buffer is a PipeBuffer          *)
(* (pkg/buffer/pipe.go) reduced to its offsets, and the server honours a   *)
(* Range header that names bytes, but may refuse a request, cut a body or  *)
(* fail; a range of no bytes it may refuse, answer with none, or ignore,   *)
(* which answers with the whole file.  d.mu is a variable where it is held *)
(* across a channel operation; every other critical section is one step.   *)
(***************************************************************************)
EXTENDS PartSizes, Sequences, FiniteSets

CONSTANTS
  Workers,      \* goroutines that may run (bound)
  Concurrency,  \* cfg.Concurrency
  Tokens,       \* ConcurrencyLimit.Limit before the download
  MaxRetries,   \* PartBodyMaxRetries
  MaxFaults     \* bound: refused requests, failed bodies, failed block allocations

ASSUME DownloaderAssumption ==
  /\ Concurrency \in Nat \ {0}
  /\ Tokens \in Nat /\ MaxRetries \in Nat /\ MaxFaults \in Nat
  /\ {"reader", "free"} \cap Workers = {}

\* d.cfg.Concurrency: no more than there are parts
Concurrent == IF maxPart < Concurrency THEN maxPart ELSE Concurrency

Ids   == 0 .. maxPart - 1
NoBuf == 0
Bufs  == 1 .. maxPart + 1     \* a block for every part that is dispatched, at most

VARIABLES
  mu,       \* the process that holds d.mu across a channel send, or "free"
  ctx,      \* "live", or why d.ctx was cancelled first: "client", "fatal", "closed"
  limit,    \* tokens left in the ConcurrencyLimit
  open,     \* d.maxPos # 0, chunkCh not closed, bufMap not nil
  conc,     \* d.concurrency: workers still to start, negative once overloaded
  chan,     \* chunkCh
  bufMap,   \* part -> its buffer; at -1 the buffer under the reader
  buf,      \* buffer -> its offsets and the bytes of the range in it
  worker,   \* worker -> pc, the chunk it works on, retries so far
  rd,       \* Download, then the multiReadCloser: pc, part, buffer
  out,      \* history: what Read has returned
  faults,   \* history: faults so far
  late      \* history: the most that a body that failed after its last byte has led to:
            \* "none", "resumed" (a request for no bytes), "stray" (its answer stored)

vars == <<mu, ctx, limit, partVars, open, conc, chan, bufMap, buf, worker, rd, out, faults, late>>

\* A byte that is not the one the download asked for
Stray == -1

\* got: bytes of the part so far; more than size once stray ones have come
Chunk  == [id : Ids, start : 0 .. len, size : 0 .. part, buf : Bufs, got : Nat, new : BOOLEAN]
NoChunk == [id |-> 0, start |-> 0, size |-> 0, buf |-> 1, got |-> 0, new |-> FALSE]

TypeOK ==
  /\ mu \in Workers \cup {"free", "reader"}
  /\ ctx \in {"live", "client", "fatal", "closed"}
  /\ limit \in Nat
  /\ open \in BOOLEAN
  /\ conc \in Int
  /\ chan \in Seq(Chunk) /\ Len(chan) <= Concurrent
  /\ bufMap \in [-1 .. maxPart -> Bufs \cup {NoBuf}]
  /\ buf \in [Bufs -> [used : BOOLEAN, closed : BOOLEAN, size : 0 .. part, r : 0 .. part, data : Seq(Int)]]
  /\ worker \in [Workers -> [pc : {"none", "select", "request", "delay", "overload", "requeue",
                                   "send", "sending", "copy", "recopy", "exit", "panic"},
                             ch : Chunk, retry : 0 .. MaxRetries]]
  /\ rd \in [pc : {"start", "send", "sending", "pop", "read", "finish", "undo", "interrupt",
                   "eof", "failed", "closed", "error", "nil"},
             pos : 0 .. maxPart, cur : Bufs \cup {NoBuf}]
  /\ out \in Seq(Int)
  /\ faults \in 0 .. MaxFaults
  /\ late \in {"none", "resumed", "stray"}

Init ==
  /\ mu = "free"
  /\ ctx = "live"
  /\ limit = Tokens
  /\ PartInit
  /\ open = TRUE
  /\ conc = Concurrent
  /\ chan = << >>
  /\ bufMap = [i \in -1 .. maxPart |-> NoBuf]
  /\ buf = [b \in Bufs |-> [used |-> FALSE, closed |-> FALSE, size |-> 0, r |-> 0, data |-> << >>]]
  /\ worker = [w \in Workers |-> [pc |-> "none", ch |-> NoChunk, retry |-> 0]]
  /\ rd = [pc |-> "start", pos |-> 0, cur |-> NoBuf]
  /\ out = << >>
  /\ faults = 0
  /\ late = "none"

-----------------------------------------------------------------------------
(* Helpers                                                                 *)

Live(w) == worker[w].pc # "none"
At(w, label) == worker[w].pc = label
Goto(w, label) == worker' = [worker EXCEPT ![w].pc = label]

\* A send on the closed channel has panicked: the process is gone.
Crashed == \E w \in Workers : At(w, "panic")

Fault == faults < MaxFaults /\ faults' = faults + 1

\* d.cancel: the first cause sticks.
Cancel(cause) == ctx' = IF ctx = "live" THEN cause ELSE ctx

\* Bug: room for one part only.
BugCapacity == 1

\* Capacity of chunkCh
Capacity == Concurrent

\* The buffer sendChunkTask uses for the next part: the recycled one, or a block.
NextBuf ==
  IF bufMap[next] # NoBuf THEN bufMap[next]
  ELSE CHOOSE b \in Bufs : ~buf[b].used /\ \A c \in Bufs : ~buf[c].used => b <= c

-----------------------------------------------------------------------------
(* sendChunkTask(new), called by the workers (new) and by the reader       *)

NothingToSend(new) == pos >= len \/ ~open \/ (new /\ conc <= 0)

\* No token left in the shared limit, or no memory for the block.
SendRefused(new) ==
  \/ (new /\ next > 0 /\ limit = 0) /\ UNCHANGED faults
  \/ bufMap[next] = NoBuf /\ Fault

\* Up to the select: the token, the buffer, the goroutine, the next part.
SendDispatches(p, new) ==
  /\ ~NothingToSend(new)
  /\ (new /\ next > 0) => limit > 0
  /\ mu' = p
  /\ limit' = IF new /\ next > 0 THEN limit - 1 ELSE limit
  /\ bufMap' = [bufMap EXCEPT ![next] = NextBuf]
  /\ buf' = [buf EXCEPT ![NextBuf] = [@ EXCEPT !.used = TRUE, !.size = PartSize(next), !.r = 0, !.data = << >>]]
  /\ conc' = IF new THEN conc - 1 ELSE conc
  /\ Dispatch

\* The select: the part just dispatched is queued ...
SendQueues(new) ==
  /\ Len(chan) < Capacity
  /\ chan' = Append(chan, [id |-> next - 1, start |-> pos - PartSize(next - 1), size |-> PartSize(next - 1),
                           buf |-> bufMap[next - 1], got |-> 0, new |-> new])
  /\ UNCHANGED limit

\* ... or the context is done, and the deferred Release gives the token back.
SendCancelled(new) ==
  /\ ctx # "live"
  /\ limit' = IF new /\ next > 1 THEN limit + 1 ELSE limit
  /\ UNCHANGED chan

-----------------------------------------------------------------------------
(* download: the first part, before the reader exists                      *)

DownloadStarts ==
  /\ rd.pc = "start"
  /\ IF limit = 0
       THEN rd' = [rd EXCEPT !.pc = "error"] /\ UNCHANGED limit
       ELSE rd' = [rd EXCEPT !.pc = "send"] /\ limit' = limit - 1
  /\ UNCHANGED <<mu, ctx, partVars, open, conc, chan, bufMap, buf, worker, out, faults, late>>

\* The reader's process calls sendChunkTask, for the first part with a worker.
ReaderSends ==
  /\ rd.pc = "send" /\ mu = "free"
  /\ SendDispatches("reader", next = 0)
  /\ rd' = [rd EXCEPT !.pc = "sending"]
  /\ IF next = 0 THEN \E w \in Workers : ~Live(w) /\ Goto(w, "select")
                 ELSE UNCHANGED worker
  /\ UNCHANGED <<ctx, open, chan, out, faults, late>>

\* Nothing is sent; only the first part's failure matters.
ReaderSendsNothing ==
  /\ rd.pc = "send" /\ mu = "free"
  /\ \/ NothingToSend(next = 0) /\ UNCHANGED faults
     \/ ~NothingToSend(next = 0) /\ SendRefused(next = 0)
  /\ rd' = [rd EXCEPT !.pc = IF next = 0 THEN "undo" ELSE "pop"]
  /\ UNCHANGED <<mu, ctx, limit, partVars, open, conc, chan, bufMap, buf, worker, out, late>>

ReaderSent ==
  /\ rd.pc = "sending"
  /\ mu' = "free"
  /\ \/ SendQueues(next = 1) /\ rd' = [rd EXCEPT !.pc = "pop"]
     \/ SendCancelled(next = 1) /\ rd' = [rd EXCEPT !.pc = IF next = 1 THEN "undo" ELSE "pop"]
  /\ UNCHANGED <<ctx, partVars, open, conc, bufMap, buf, worker, out, faults, late>>

\* The first sendChunkTask failed: cancel, release, interrupt.  interrupt turns
\* context.Canceled into no error, so that Download returns nil and no error.
DownloadFails ==
  /\ rd.pc = "undo" /\ mu = "free"
  /\ Cancel("fatal")
  /\ limit' = limit + 1
  /\ open' = FALSE
  /\ buf' = [b \in Bufs |-> [buf[b] EXCEPT !.closed = buf[b].used]]
  /\ bufMap' = [i \in -1 .. maxPart |-> NoBuf]
  /\ conc' = IF conc > 0 THEN -conc ELSE conc
  /\ rd' = [rd EXCEPT !.pc = IF ctx = "client" THEN "nil" ELSE "error"]
  /\ UNCHANGED <<mu, partVars, chan, worker, out, faults, late>>

-----------------------------------------------------------------------------
(* multiReadCloser                                                         *)

\* popBuf: the buffer of the part to read, kept at -1 for interrupt to close.
ReaderPops ==
  /\ rd.pc = "pop" /\ mu = "free"
  /\ LET b == bufMap[rd.pos] IN
       /\ rd' = [rd EXCEPT !.pc = "read", !.cur = b]
       /\ bufMap' = IF b = NoBuf THEN bufMap
                                 ELSE [bufMap EXCEPT ![rd.pos] = NoBuf, ![-1] = b]
  /\ UNCHANGED <<mu, ctx, limit, partVars, open, conc, chan, buf, worker, out, faults, late>>

\* Read returns what is there, up to n bytes; at the end of the part it moves on.
ReaderReads(n) ==
  LET b == rd.cur  c == buf[b] IN
  /\ rd.pc = "read" /\ b # NoBuf /\ ctx = "live"
  /\ c.r + n <= Len(c.data)
  /\ out' = out \o SubSeq(c.data, c.r + 1, c.r + n)
  /\ buf' = [buf EXCEPT ![b].r = c.r + n]
  /\ rd' = IF c.r + n < c.size THEN rd
           ELSE [rd EXCEPT !.pos = @ + 1,
                           !.pc = IF rd.pos + 1 >= maxPart THEN "eof" ELSE "finish"]
  /\ UNCHANGED <<mu, ctx, limit, partVars, open, conc, chan, bufMap, worker, faults, late>>

\* Read without a buffer is the end of the stream; a done context is an error.
ReaderStops ==
  /\ rd.pc = "read"
  /\ \/ rd.cur = NoBuf /\ rd' = [rd EXCEPT !.pc = "eof"]
     \/ rd.cur # NoBuf /\ ctx # "live" /\ rd' = [rd EXCEPT !.pc = "failed"]
  /\ UNCHANGED <<mu, ctx, limit, partVars, open, conc, chan, bufMap, buf, worker, out, faults, late>>

\* Bug: the consumed buffer is not handed on, the next part takes a new block.
BugFinishNoRecycling ==
  /\ rd.pc = "finish" /\ mu = "free"
  /\ rd' = [rd EXCEPT !.pc = IF bufMap[next] = NoBuf THEN "send" ELSE "pop"]
  /\ UNCHANGED <<mu, ctx, limit, partVars, open, conc, chan, bufMap, buf, worker, out, faults, late>>

\* finishBuf: the consumed buffer becomes that of the next part to dispatch,
\* unless that part has one already.
ReaderFinishes ==
  /\ rd.pc = "finish" /\ mu = "free"
  /\ IF bufMap[next] = NoBuf
       THEN /\ bufMap' = [bufMap EXCEPT ![next] = rd.cur]
            /\ rd' = [rd EXCEPT !.pc = "send"]
            /\ UNCHANGED buf
       ELSE /\ buf' = [buf EXCEPT ![rd.cur].closed = TRUE]
            /\ rd' = [rd EXCEPT !.pc = "pop"]
            /\ UNCHANGED bufMap
  /\ UNCHANGED <<mu, ctx, limit, partVars, open, conc, chan, worker, out, faults, late>>

\* Close: interrupt cancels the context ...
ReaderCloses ==
  /\ rd.pc \in {"read", "eof", "failed"}
  /\ Cancel("closed")
  /\ rd' = [rd EXCEPT !.pc = "interrupt"]
  /\ UNCHANGED <<mu, limit, partVars, open, conc, chan, bufMap, buf, worker, out, faults, late>>

\* ... and under d.mu closes the buffers and the channel.
Interrupt ==
  /\ rd.pc = "interrupt" /\ mu = "free"
  /\ open' = FALSE
  /\ buf' = [b \in Bufs |-> [buf[b] EXCEPT !.closed = @ \/ \E i \in -1 .. maxPart : bufMap[i] = b]]
  /\ bufMap' = [i \in -1 .. maxPart |-> NoBuf]
  /\ conc' = IF conc > 0 THEN -conc ELSE conc
  /\ rd' = [rd EXCEPT !.pc = "closed", !.cur = NoBuf]
  /\ UNCHANGED <<mu, ctx, limit, partVars, chan, worker, out, faults, late>>

\* The client goes away: the context that Download was given is cancelled.
ClientLeaves ==
  /\ ctx = "live" /\ rd.pc # "closed"
  /\ ctx' = "client"
  /\ UNCHANGED <<mu, limit, partVars, open, conc, chan, bufMap, buf, worker, rd, out, faults, late>>

-----------------------------------------------------------------------------
(* The workers: downloadPart, downloadChunk, tryDownloadChunk              *)

\* The select of downloadPart takes a part ...
WorkerTakes(w) ==
  /\ At(w, "select") /\ chan # << >>
  /\ worker' = [worker EXCEPT ![w] = [pc |-> "request", ch |-> Head(chan), retry |-> 0]]
  /\ chan' = Tail(chan)
  /\ UNCHANGED <<mu, ctx, limit, partVars, open, conc, bufMap, buf, rd, out, faults, late>>

\* Bug: a receive from the closed channel is taken for a part.
BugWorkerIgnoresClose(w) ==
  /\ At(w, "select")
  /\ ctx # "live" /\ open
  /\ Goto(w, "exit")
  /\ UNCHANGED <<mu, ctx, limit, partVars, open, conc, chan, bufMap, buf, rd, out, faults, late>>

\* ... or leaves: the context is done, or the channel is closed and drained.
WorkerLeaves(w) ==
  /\ At(w, "select")
  /\ ctx # "live" \/ (~open /\ chan = << >>)
  /\ Goto(w, "exit")
  /\ UNCHANGED <<mu, ctx, limit, partVars, open, conc, chan, bufMap, buf, rd, out, faults, late>>

\* Bug: a worker that leaves keeps its token.
BugWorkerKeepsToken(w) ==
  /\ At(w, "exit")
  /\ worker' = [worker EXCEPT ![w] = [pc |-> "none", ch |-> NoChunk, retry |-> 0]]
  /\ UNCHANGED <<mu, ctx, limit, partVars, open, conc, chan, bufMap, buf, rd, out, faults, late>>

\* The deferred Release of downloadPart
WorkerReleases(w) ==
  /\ At(w, "exit")
  /\ worker' = [worker EXCEPT ![w] = [pc |-> "none", ch |-> NoChunk, retry |-> 0]]
  /\ limit' = limit + 1
  /\ UNCHANGED <<mu, ctx, partVars, open, conc, chan, bufMap, buf, rd, out, faults, late>>

\* All bytes of the part have come: the rest that is asked for is no bytes.
Over(w) == worker[w].ch.got >= worker[w].ch.size

\* The server answers with a body ...
RequestAnswered(w) ==
  /\ At(w, "request")
  /\ Goto(w, "send")
  /\ UNCHANGED <<mu, ctx, limit, partVars, open, conc, chan, bufMap, buf, rd, out, faults, late>>

\* ... or with an error status that means overload ...
RequestRefused(w) ==
  /\ At(w, "request") /\ Fault
  /\ Goto(w, IF worker[w].ch.id = 0 THEN "delay" ELSE "overload")
  /\ UNCHANGED <<mu, ctx, limit, partVars, open, conc, chan, bufMap, buf, rd, out, late>>

\* ... or there is no answer, or one that refuses the range as empty, which
\* cancels the download.
RequestFails(w) ==
  /\ At(w, "request")
  /\ IF ctx # "live" \/ Over(w) THEN UNCHANGED faults ELSE Fault
  /\ Cancel("fatal")
  /\ Goto(w, "exit")
  /\ UNCHANGED <<mu, limit, partVars, open, conc, chan, bufMap, buf, rd, out, late>>

\* Bug: the part is requested again from its start.
BugRetryFromStart(w, n) ==
  LET r == worker[w].retry + 1 IN
  IF ctx # "live" \/ r > MaxRetries
    THEN Cancel("fatal") /\ worker' = [worker EXCEPT ![w].pc = "exit"]
    ELSE /\ UNCHANGED ctx
         /\ worker' = [worker EXCEPT ![w].pc = "request", ![w].ch.got = 0, ![w].retry = r]

\* A failed try of the part, of which n bytes arrived: retry from there, or give
\* up and cancel the download; a done context ends the worker.
Retry(w, n) ==
  LET r == worker[w].retry + 1 IN
  IF ctx # "live" \/ r > MaxRetries
    THEN Cancel("fatal") /\ worker' = [worker EXCEPT ![w].pc = "exit"]
    ELSE /\ UNCHANGED ctx
         /\ worker' = [worker EXCEPT ![w].pc = "request", ![w].ch.got = n, ![w].retry = r]

\* The first part's delay is over, or was cut short by the context.
DelayEnds(w) ==
  /\ At(w, "delay")
  /\ Retry(w, worker[w].ch.got)
  /\ UNCHANGED <<mu, limit, partVars, open, conc, chan, bufMap, buf, rd, out, faults, late>>

\* Bug: a worker that leaves takes its part with it.
BugOverloadedDrops(w) ==
  LET leave == worker[w].ch.new \/ conc > 0 IN
  /\ At(w, "overload") /\ mu = "free"
  /\ conc' = IF ~leave THEN conc ELSE IF conc > 0 THEN -conc - 1 ELSE conc - 1
  /\ Goto(w, IF ~leave /\ ctx = "live" THEN "request" ELSE "exit")
  /\ UNCHANGED <<mu, ctx, limit, partVars, open, chan, bufMap, buf, rd, out, faults, late>>

\* Overload: start no more workers, and leave too unless an earlier worker has
\* left for the rest; a worker that stays tries again, with or without a delay.
Overloaded(w) ==
  LET leave == worker[w].ch.new \/ conc > 0 IN
  /\ At(w, "overload") /\ mu = "free"
  /\ conc' = IF ~leave THEN conc ELSE IF conc > 0 THEN -conc - 1 ELSE conc - 1
  /\ Goto(w, IF leave THEN "requeue" ELSE IF ctx = "live" THEN "request" ELSE "exit")
  /\ UNCHANGED <<mu, ctx, limit, partVars, open, chan, bufMap, buf, rd, out, faults, late>>

\* The select that puts the part back for another worker, after the unlock: a
\* send on a channel that interrupt has closed meanwhile panics.
Requeue(w) ==
  /\ At(w, "requeue")
  /\ \/ ctx # "live" /\ Goto(w, "exit") /\ UNCHANGED chan
     \/ ~open /\ Goto(w, "panic") /\ UNCHANGED chan
     \/ /\ open /\ Len(chan) < Capacity
        /\ chan' = Append(chan, worker[w].ch)
        /\ Goto(w, "exit")
  /\ UNCHANGED <<mu, ctx, limit, partVars, open, conc, bufMap, buf, rd, out, faults, late>>

\* sendChunkTask(true), whose error is ignored
WorkerSends(w) ==
  /\ At(w, "send") /\ mu = "free"
  /\ SendDispatches(w, TRUE)
  /\ \E v \in Workers :
       ~Live(v) /\ worker' = [worker EXCEPT ![w].pc = "sending", ![v].pc = "select"]
  /\ UNCHANGED <<ctx, open, chan, rd, out, faults, late>>

\* What follows: the copy of the answer
Receive(w) == Goto(w, IF Over(w) THEN "recopy" ELSE "copy")

WorkerSendsNothing(w) ==
  /\ At(w, "send") /\ mu = "free"
  /\ \/ NothingToSend(TRUE) /\ UNCHANGED faults
     \/ ~NothingToSend(TRUE) /\ SendRefused(TRUE)
  /\ Receive(w)
  /\ UNCHANGED <<mu, ctx, limit, partVars, open, conc, chan, bufMap, buf, rd, out, late>>


WorkerSent(w) ==
  /\ At(w, "sending")
  /\ SendQueues(TRUE) \/ SendCancelled(TRUE)
  /\ mu' = "free"
  /\ Receive(w)
  /\ UNCHANGED <<ctx, partVars, open, conc, bufMap, buf, rd, out, faults, late>>

Full(b) == Len(buf[b].data) >= buf[b].size

\* PipeBuffer.Write refuses: the context is done, the buffer closed, or full.
WriteRefused(w) ==
  LET b == worker[w].ch.buf IN ctx # "live" \/ buf[b].closed \/ Full(b)

\* PipeBuffer.Write: one more byte of the body
CopyUnit(w) ==
  LET ch == worker[w].ch IN
  /\ At(w, "copy") /\ ~Over(w) /\ ~WriteRefused(w)
  /\ buf' = [buf EXCEPT ![ch.buf].data = Append(@, ch.start + ch.got)]
  /\ worker' = [worker EXCEPT ![w].ch.got = @ + 1]
  /\ UNCHANGED <<mu, ctx, limit, partVars, open, conc, chan, bufMap, rd, out, faults, late>>

CopyEnds(w) ==
  /\ At(w, "copy") /\ Over(w)
  /\ Goto(w, "select")
  /\ UNCHANGED <<mu, ctx, limit, partVars, open, conc, chan, bufMap, buf, rd, out, faults, late>>

\* The body is cut, or fails after its last byte, or the buffer refuses the write.
\* The rest is requested, also when it is empty.
CopyFails(w) ==
  /\ At(w, "copy")
  /\ IF ctx # "live" \/ (~Over(w) /\ WriteRefused(w)) THEN UNCHANGED faults ELSE Fault
  /\ Retry(w, worker[w].ch.got)
  /\ late' = IF Over(w) /\ late = "none" THEN "resumed" ELSE late
  /\ UNCHANGED <<mu, limit, partVars, open, conc, chan, bufMap, buf, rd, out>>

\* The answer to an empty range: no bytes ...
RecopyEnds(w) ==
  /\ At(w, "recopy") /\ worker[w].ch.got = worker[w].ch.size
  /\ Goto(w, "select")
  /\ UNCHANGED <<mu, ctx, limit, partVars, open, conc, chan, bufMap, buf, rd, out, faults, late>>

\* ... or the whole file, of which a byte goes into the buffer if that has room,
\* because finishBuf has handed it to another part ...
RecopyUnit(w) ==
  /\ At(w, "recopy") /\ ~WriteRefused(w)
  /\ buf' = [buf EXCEPT ![worker[w].ch.buf].data = Append(@, Stray)]
  /\ worker' = [worker EXCEPT ![w].ch.got = @ + 1]
  /\ late' = "stray"
  /\ UNCHANGED <<mu, ctx, limit, partVars, open, conc, chan, bufMap, rd, out, faults>>

\* ... and which ends in an error whatever comes of it.
RecopyFails(w) ==
  /\ At(w, "recopy")
  /\ IF WriteRefused(w) \/ worker[w].ch.got > worker[w].ch.size THEN UNCHANGED faults ELSE Fault
  /\ Retry(w, worker[w].ch.got)
  /\ UNCHANGED <<mu, limit, partVars, open, conc, chan, bufMap, buf, rd, out, late>>

-----------------------------------------------------------------------------
WorkerStep(w) == ~Crashed /\ (
  \/ WorkerTakes(w) \/ WorkerLeaves(w) \/ WorkerReleases(w)
  \/ RequestAnswered(w) \/ RequestRefused(w) \/ RequestFails(w) \/ DelayEnds(w)
  \/ Overloaded(w) \/ Requeue(w)
  \/ WorkerSends(w) \/ WorkerSendsNothing(w) \/ WorkerSent(w)
  \/ CopyUnit(w) \/ CopyEnds(w) \/ CopyFails(w)
  \/ RecopyUnit(w) \/ RecopyEnds(w) \/ RecopyFails(w))

ReaderStep == ~Crashed /\ (
  \/ DownloadStarts \/ ReaderSends \/ ReaderSendsNothing \/ ReaderSent \/ DownloadFails
  \/ ReaderPops \/ ReaderStops \/ ReaderFinishes \/ Interrupt
  \/ \E n \in 1 .. part : ReaderReads(n))

Next ==
  \/ \E w \in Workers : WorkerStep(w)
  \/ ReaderStep
  \/ ~Crashed /\ (ReaderCloses \/ ClientLeaves)

Spec == Init /\ [][Next]_vars

-----------------------------------------------------------------------------
(* Safety                                                                  *)

\* The reader gets the bytes of the parts in order, although parts arrive in any
\* order, are cut, are handed from worker to worker, and buffers are recycled.
DeliveredInOrder == \A k \in 1 .. Len(out) : out[k] = k - 1

\* The end of the stream is reported after the last byte only: finishBuf never
\* finds the next part undispatched.
NoEarlyEOF == rd.pc = "eof" => Len(out) = len

\* Read returns the file: all of it, in order, before EOF, also after bodies that
\* were cut, failed after their last byte, or were asked for again.  The condition
\* is a gap of the code: a server that answers the request for no bytes with the
\* whole file has it stored in a buffer that may hold another part by now.
ReaderGetsFile == late # "stray" => DeliveredInOrder /\ NoEarlyEOF

Holding(w) == worker[w].pc \in {"request", "delay", "overload", "requeue", "send", "sending",
                               "copy", "recopy"}
Holders(i) == {w \in Workers : worker[w].ch.id = i /\ Holding(w)}
Queued(i)  == {k \in 1 .. Len(chan) : chan[k].id = i}
Sending(i) == IF mu # "free" /\ i = next - 1 THEN 1 ELSE 0
Arrived(i) == \/ i < rd.pos
              \/ i = rd.pos /\ rd.cur # NoBuf /\ Len(buf[rd.cur].data) = PartSize(i)
              \/ bufMap[i] # NoBuf /\ Len(buf[bufMap[i]].data) = PartSize(i)

\* A worker that has still bytes of its part to fetch
Filling(w) == Holding(w) /\ ~Over(w)

\* Until the download is cancelled a dispatched part is in one place: in the
\* channel, on its way into it, or with one worker; a part is not lost when an
\* overloaded worker leaves it to another.  And no two workers that have bytes to
\* fetch fill one buffer, although buffers are handed from part to part.  (Once it
\* is cancelled Write refuses.)  The other condition is that of ReaderGetsFile: a
\* worker that asks for the empty rest of its part still has the part's buffer.
PartHasOneHolder ==
  late # "stray" /\ ctx = "live" =>
    /\ \A i \in 0 .. next - 1 :
         LET n == Cardinality(Holders(i)) + Cardinality(Queued(i)) + Sending(i) IN
         n <= 1 /\ (~Arrived(i) => n = 1)
    /\ \A v, w \in Workers :
         v # w /\ Filling(v) /\ Filling(w) => worker[v].ch.buf # worker[w].ch.buf

\* The channel has room for every part that can be outstanding, so that nobody
\* waits for a receiver while holding d.mu, which receivers need.
SendNeverWaits ==
  late = "none" =>
    /\ mu # "free" => Len(chan) < Capacity
    /\ \A w \in Workers : At(w, "requeue") /\ ctx = "live" => Len(chan) < Capacity

Running == {w \in Workers : Live(w)}
\* download has taken a token and not started the first worker yet.
Starting == IF rd.pc \in {"send", "undo"} /\ next = 0 THEN 1 ELSE 0

\* No token of the shared limit is lost: what is not left in it is held by a
\* running worker.
NoTokenLost == limit + Cardinality(Running) + Starting >= Tokens

\* "memory usage is at about Concurrency*PartSize" (request.go:74): the blocks
\* in use are never more than that, although finishBuf unlocks between storing
\* the buffer to recycle and dispatching the part for it.
BlocksBounded ==
  Cardinality({b \in Bufs : buf[b].used /\ ~buf[b].closed}) <= Concurrent

-----------------------------------------------------------------------------
(* Liveness                                                                *)

(* Goroutines run, requests and bodies end, and the reader keeps reading.     *)
FairSpec == Spec /\ WF_vars(ReaderStep) /\ \A w \in Workers : WF_vars(WorkerStep(w))

Gone == \A w \in Workers : At(w, "none")

\* After Close every worker leaves and gives back its token, wherever Close finds
\* it; or the process crashes: an overloaded worker puts its part back on the
\* channel after it has unlocked d.mu, when Close may have closed the channel.
WorkersLeave == rd.pc = "closed" ~> Gone \/ Crashed

InStream == rd.pc \in {"send", "sending", "pop", "read", "finish"}


=============================================================================
