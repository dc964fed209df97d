-------------------------- MODULE DownloaderProofs --------------------------
(***************************************************************************)
(* Theorems about one ranged download, for every length and part size, any *)
(* number of workers, any concurrency and any number of tokens: first how  *)
(* PartSizes cuts the range, then the download itself.                     *)
(***************************************************************************)
EXTENDS Downloader, FiniteSetTheorems, FunctionTheorems, SequenceTheorems, TLAPS

-----------------------------------------------------------------------------
(* The parts of a range                                                    *)

\* Division is determined by its defining equation.
LEMMA DivUnique ==
  ASSUME NEW n \in Nat, NEW d \in Nat \ {0}, NEW q \in Nat, NEW r \in Nat,
         r < d, n = q * d + r
  PROVE  n \div d = q
PROOF
  <1>1. q * d <= n /\ n < q * d + d
    OBVIOUS
  <1> QED BY <1>1, SMT

\* The number of parts (download, request.go:164): as many as fit, and one for
\* the odd bytes.
LEMMA NumberOfParts ==
  ASSUME len \in Nat \ {0}, part \in Nat \ {0}, len > part
  PROVE  /\ firstSize \in 0 .. part - 1
         /\ maxPart \in Nat /\ maxPart >= 2
         /\ firstSize = 0 => len = maxPart * part
         /\ firstSize > 0 => len = (maxPart - 1) * part + firstSize
PROOF
  <1> DEFINE q == len \div part  r == len % part
  <1>1. q \in Int /\ r \in 0 .. part - 1 /\ len = part * q + r
    BY Z3
  <1>2. firstSize = r
    BY DEF firstSize
  <1> HIDE DEF q, r
  <1>3. q >= 1
    <2>1. SUFFICES ASSUME q <= 0 PROVE FALSE
      BY <1>1
    <2>2. part * q <= 0
      BY <1>1, <2>1
    <2> QED BY <1>1, <2>2
  <1>4. CASE r = 0
    <2>1. maxPart = q
      <3>1. len + part - 1 = q * part + (part - 1)
        BY <1>1, <1>4
      <3> QED BY <1>1, <1>3, <3>1, DivUnique, len + part - 1 \in Nat DEF maxPart
    <2>2. q # 1
      BY <1>1, <1>4
    <2> QED BY <1>1, <1>2, <1>3, <1>4, <2>1, <2>2
  <1>5. CASE r > 0
    <2>1. maxPart = q + 1
      <3>1. len + part - 1 = (q + 1) * part + (r - 1)
        BY <1>1, <1>5
      <3> QED BY <1>1, <1>3, <1>5, <3>1, DivUnique, len + part - 1 \in Nat DEF maxPart
    <2> QED BY <1>1, <1>2, <1>3, <1>5, <2>1
  <1> QED BY <1>1, <1>4, <1>5

\* No part is empty or longer than a block, whatever its number.
LEMMA PartFits ==
  ASSUME len \in Nat \ {0}, part \in Nat \ {0}, len > part, NEW i \in Nat
  PROVE  PartSize(i) \in 1 .. part
PROOF
  <1>1. firstSize \in 0 .. part - 1
    BY NumberOfParts
  <1>2. minSize \in Nat /\ 2 * minSize <= part
    BY Z3 DEF minSize
  <1> QED BY <1>1, <1>2 DEF PartSize

\* The first two parts take the odd bytes and whole parts between them.
LEMMA FirstTwo ==
  ASSUME len \in Nat \ {0}, part \in Nat \ {0}, len > part
  PROVE  PartSize(0) + PartSize(1) = len - (maxPart - 2) * part
PROOF
  <1>1. firstSize \in 0 .. part - 1 /\ maxPart \in Nat /\ maxPart >= 2
    BY NumberOfParts
  <1>2. minSize \in Nat
    BY Z3 DEF minSize
  <1>3. PartSize(0) + PartSize(1) = IF firstSize = 0 THEN 2 * part ELSE part + firstSize
    BY <1>1, <1>2 DEF PartSize
  <1>4. (maxPart - 2) * part = maxPart * part - 2 * part
    BY <1>1
  <1>5. (maxPart - 1) * part = maxPart * part - part
    BY <1>1
  <1>6. maxPart * part \in Nat
    BY <1>1
  <1>7. CASE firstSize = 0
    BY <1>1, <1>3, <1>4, <1>6, <1>7, NumberOfParts
  <1>8. CASE firstSize > 0
    BY <1>1, <1>3, <1>4, <1>5, <1>6, <1>8, NumberOfParts
  <1> QED BY <1>1, <1>7, <1>8

\* Where the next part starts decides whether the range is covered.
LEMMA CoveredAtMaxPart ==
  ASSUME StartOfNext
  PROVE  PartsCoverRange
PROOF
  <1>1. len \in Nat \ {0} /\ part \in Nat \ {0} /\ len > part
    BY DEF StartOfNext
  <1>2. maxPart \in Nat /\ maxPart >= 2 /\ next \in 0 .. maxPart
    BY <1>1, NumberOfParts DEF StartOfNext
  <1>3. CASE next = 0
    BY <1>1, <1>2, <1>3 DEF StartOfNext, PartsCoverRange
  <1>4. CASE next = 1
    BY <1>1, <1>2, <1>4, PartFits DEF StartOfNext, PartsCoverRange
  <1>5. CASE next >= 2
    <2> DEFINE rest == (maxPart - next) * part
    <2>1. pos = len - rest
      BY <1>2, <1>5 DEF StartOfNext
    <2>2. rest \in Nat
      BY <1>1, <1>2
    <2>3. rest = 0 <=> next = maxPart
      <3>1. ASSUME next < maxPart PROVE rest >= part
        <4>1. maxPart - next >= 1
          BY <1>2, <3>1
        <4> QED BY <1>1, <1>2, <4>1
      <3> QED BY <1>1, <1>2, <3>1
    <2> HIDE DEF rest
    <2> QED BY <1>1, <2>1, <2>2, <2>3 DEF PartsCoverRange
  <1> QED BY <1>2, <1>3, <1>4, <1>5

\* Init establishes the invariant.
LEMMA InitStart == PartInit => StartOfNext
PROOF
  <1> SUFFICES ASSUME PartInit PROVE StartOfNext
    OBVIOUS
  <1>1. len \in Nat \ {0} /\ part \in Nat \ {0} /\ len > part
    BY PartSizesAssumption DEF PartInit
  <1> QED BY <1>1, NumberOfParts DEF PartInit, StartOfNext

\* sendChunkTask keeps it: d.pos and d.nextChunk advance together.
LEMMA DispatchStart == StartOfNext /\ [Dispatch]_partVars => StartOfNext'
PROOF
  <1> SUFFICES ASSUME StartOfNext, [Dispatch]_partVars PROVE StartOfNext'
    OBVIOUS
  <1>1. CASE UNCHANGED partVars
    BY <1>1 DEF StartOfNext, partVars, maxPart, PartSize, firstSize, minSize
  <1>2. CASE Dispatch
    <2>1. len \in Nat \ {0} /\ part \in Nat \ {0} /\ len > part
      BY DEF StartOfNext
    <2>2. maxPart \in Nat /\ maxPart >= 2 /\ next \in 0 .. maxPart
      BY <2>1, NumberOfParts DEF StartOfNext
    <2>3. len' = len /\ part' = part /\ next' = next + 1 /\ pos' = pos + PartSize(next)
      BY <1>2 DEF Dispatch
    <2>4. maxPart' = maxPart /\ PartSize(0)' = PartSize(0)
      BY <2>3 DEF maxPart, PartSize, firstSize, minSize
    <2>5. next < maxPart
      <3>1. PartsCoverRange
        BY CoveredAtMaxPart
      <3>2. next # maxPart
        <4>1. pos < len /\ (pos = len <=> next = maxPart)
          BY <1>2, <3>1 DEF Dispatch, PartsCoverRange
        <4>2. pos \in Int
          <5>1. PartSize(0) \in Int
            BY <2>1, PartFits
          <5>2. (maxPart - next) * part \in Int
            BY <2>1, <2>2
          <5> QED BY <2>1, <2>2, <5>1, <5>2 DEF StartOfNext
        <4> QED BY <2>1, <4>1, <4>2
      <3> QED BY <2>2, <3>2
    <2>6. pos' = IF next' = 1 THEN PartSize(0) ELSE len - (maxPart - next') * part
      <3>1. CASE next = 0
        BY <2>1, <2>3, <3>1, PartFits DEF StartOfNext
      <3>2. CASE next = 1
        BY <2>1, <2>2, <2>3, <3>2, FirstTwo DEF StartOfNext
      <3>3. CASE next >= 2
        <4>1. PartSize(next) = part
          BY <2>2, <3>3 DEF PartSize
        <4>2. pos = len - (maxPart - next) * part
          BY <2>2, <3>3 DEF StartOfNext
        <4>3. (maxPart - (next + 1)) * part = (maxPart - next) * part - part
          BY <2>1, <2>2
        <4>4. (maxPart - next) * part \in Int
          BY <2>1, <2>2
        <4> QED BY <2>1, <2>2, <2>3, <3>3, <4>1, <4>2, <4>3, <4>4
      <3> QED BY <2>2, <3>1, <3>2, <3>3
    <2> QED BY <2>1, <2>2, <2>3, <2>4, <2>5, <2>6 DEF StartOfNext
  <1> QED BY <1>1, <1>2

\* Part next always starts where the parts before it end.
THEOREM StartsWhereLastEnded == PartSpec => []StartOfNext
PROOF
  BY InitStart, DispatchStart, PTL DEF PartSpec

\* The parts sendChunkTask dispatches cover the range exactly, and the last one
\* is the one the reader takes for the last.
THEOREM RangeIsCovered == PartSpec => []PartsCoverRange
PROOF
  BY StartsWhereLastEnded, CoveredAtMaxPart, PTL

\* No part is refused by PipeBuffer.Reset, and none is empty.
THEOREM PartsFit == PartSpec => []EveryPartFits
PROOF
  <1>1. StartOfNext => EveryPartFits
    <2> SUFFICES ASSUME StartOfNext PROVE PartSize(next) \in 1 .. part
      BY DEF EveryPartFits
    <2>1. len \in Nat \ {0} /\ part \in Nat \ {0} /\ len > part
      BY DEF StartOfNext
    <2>2. next \in Nat
      BY <2>1, NumberOfParts DEF StartOfNext
    <2> QED BY <2>1, <2>2, PartFits
  <1> QED BY <1>1, StartsWhereLastEnded, PTL

\* The parts tile every range: each fits its block, none is empty, they cover it.
THEOREM PartsTileRange == PartSpec => []PartsTile
PROOF
  BY RangeIsCovered, PartsFit, PTL DEF PartsTile

-----------------------------------------------------------------------------
(* The inductive invariant of the download                                 *)

BufRec == [used : BOOLEAN, closed : BOOLEAN, size : 0 .. part, r : 0 .. part, data : Seq(Int)]
WorkerPcs == {"none", "select", "request", "delay", "overload", "requeue", "send", "sending", "copy", "recopy", "exit", "panic"}
WorkerRec == [pc : WorkerPcs, ch : Chunk, retry : 0 .. MaxRetries]
RdRec == [pc : {"start", "send", "sending", "pop", "read", "finish", "undo", "interrupt",
                "eof", "failed", "closed", "error", "nil"},
          pos : 0 .. maxPart, cur : Bufs \cup {NoBuf}]

\* Where part i starts.
StartOf(i) ==
  IF i = 0 THEN 0 ELSE IF i = 1 THEN PartSize(0) ELSE len - (maxPart - i) * part

\* The reader has the block of part rd.pos in its hands.
Popped == rd.pc \in {"read", "failed", "interrupt"} /\ rd.pos < maxPart

\* The block of a part that is dispatched and not consumed
BlockOf(i) == IF i = rd.pos /\ Popped THEN rd.cur ELSE bufMap[i]

\* The parts that are dispatched and not consumed
Outstanding == rd.pos .. next - 1

HoldingPcs == {"request", "delay", "overload", "requeue", "send", "sending", "copy", "recopy"}
Holds(w) == worker[w].pc \in HoldingPcs

\* Where the processes are.
PhaseInv ==
  /\ rd.pc = "start" => next = 0
  /\ next = 0 => /\ rd.pc \in {"start", "send", "undo", "error", "nil"}
                 /\ \A w \in Workers : ~Live(w)
  /\ rd.pos <= next
  /\ rd.pc \in {"pop", "read", "failed"} => rd.pos < next
  /\ rd.pc \in {"send", "sending", "finish"} => rd.pos < maxPart
  /\ ctx = "live" => open
  /\ ~open => rd.pc \in {"closed", "error", "nil"}
  /\ rd.pc = "interrupt" => ctx # "live"
  /\ rd.pc = "eof" => rd.pos = maxPart
  /\ mu = "reader" <=> rd.pc = "sending"
  /\ \A w \in Workers : mu = w <=> At(w, "sending")
  /\ mu # "free" => open /\ rd.pos < next

\* sendChunkTask takes new blocks in order: the first k are in use.
Taken(k) == \A b \in Bufs : buf[b].used <=> b <= k

\* Blocks: which parts have one, and that no two have the same.
BlockInv ==
  /\ \A i \in next + 1 .. maxPart : bufMap[i] = NoBuf
  /\ bufMap[next] # NoBuf => next > 0 /\ (next < maxPart => rd.pc = "send")
  /\ rd.pc = "send" /\ next > 0 /\ bufMap[next] = NoBuf => rd.pos < next
  /\ Popped => rd.pos < next /\ bufMap[rd.pos] = NoBuf
  /\ Popped \/ rd.pc = "finish" => rd.cur # NoBuf
  /\ \A i \in Outstanding : BlockOf(i) # NoBuf
  /\ \A i, j \in rd.pos .. maxPart : i # j /\ bufMap[i] # NoBuf => bufMap[i] # bufMap[j]
  /\ Popped \/ rd.pc = "finish" => \A j \in rd.pos .. maxPart : bufMap[j] # rd.cur
  /\ \A i \in rd.pos .. maxPart : bufMap[i] # NoBuf => buf[bufMap[i]].used /\ ~buf[bufMap[i]].closed
  /\ rd.cur # NoBuf => buf[rd.cur].used
  /\ Popped \/ rd.pc = "finish" => ~buf[rd.cur].closed
  /\ \E k \in 0 .. next : Taken(k)
  /\ \A b \in Bufs : ~buf[b].used => ~buf[b].closed

\* What is in the blocks.
BlockHas(i, c) ==
  /\ c.size = PartSize(i)
  /\ Len(c.data) <= c.size /\ c.r <= Len(c.data)
  /\ late # "stray" => \A k \in 1 .. Len(c.data) : c.data[k] = StartOf(i) + k - 1
  /\ ~(i = rd.pos /\ Popped) => c.r = 0
DataInv == \A i \in Outstanding : BlockHas(i, buf[BlockOf(i)])

\* A part whose block is outstanding has come as far as its block says.
Linked(c) ==
  /\ c.id \in Outstanding
  /\ c.size = PartSize(c.id) /\ c.start = StartOf(c.id)
  /\ c.buf = BlockOf(c.id) /\ c.got = Len(buf[c.buf].data)

\* A part that has bytes to fetch is outstanding; one that has them all, and is
\* still with a worker or was put back, may have been consumed.
HeldOk(c) ==
  \/ Linked(c) /\ c.got <= c.size
  \/ c.got = c.size /\ c.id \in 0 .. rd.pos - 1

PartFull(i) == Len(buf[BlockOf(i)].data) = PartSize(i)

\* A part that is not finished is in one place.
HeldInv == \A w \in Workers : Holds(w) => HeldOk(worker[w].ch)
QueuedInv == \A k \in 1 .. Len(chan) : HeldOk(chan[k])
OneHolder ==
  /\ \A v, w \in Workers : Holds(v) /\ Holds(w) /\ worker[v].ch.id = worker[w].ch.id => v = w
  /\ \A k, l \in 1 .. Len(chan) : chan[k].id = chan[l].id => k = l
  /\ \A w \in Workers, k \in 1 .. Len(chan) : Holds(w) => worker[w].ch.id # chan[k].id
SendingInv ==
  mu # "free" =>
    /\ bufMap[next - 1] # NoBuf /\ Len(buf[bufMap[next - 1]].data) = 0
    /\ \A w \in Workers : Holds(w) => worker[w].ch.id # next - 1
    /\ \A k \in 1 .. Len(chan) : chan[k].id # next - 1
Placed(i) ==
  \/ PartFull(i)
  \/ \E w \in Workers : Holds(w) /\ worker[w].ch.id = i
  \/ \E k \in 1 .. Len(chan) : chan[k].id = i
  \/ mu # "free" /\ i = next - 1
AllPlaced == ctx = "live" => \A i \in Outstanding : Placed(i)

\* Only a worker at the end of its copy has a complete part, while no body has
\* failed after its last byte.
Fresh ==
  late = "none" =>
    /\ \A w \in Workers : Holds(w) /\ ~At(w, "copy") => worker[w].ch.got < worker[w].ch.size
    /\ \A k \in 1 .. Len(chan) : chan[k].got < chan[k].size

PlaceInv == HeldInv /\ QueuedInv /\ OneHolder /\ SendingInv /\ AllPlaced

\* The part that is being sent has a block.
SendBlock == mu # "free" => bufMap[next - 1] # NoBuf

Bit(P) == IF P THEN 1 ELSE 0
OpenBlocks == {b \in Bufs : buf[b].used /\ ~buf[b].closed}

\* The blocks beside those of outstanding parts: the one that the reader has
\* consumed, and the one that waits for the next part.
Spare == Bit(rd.pc = "finish" \/ rd.pos = maxPart) + Bit(bufMap[next] # NoBuf)

\* Room is kept for them, and for a part of each worker still to start.
Slack ==
  Bit(rd.pc = "finish" \/ rd.pos = maxPart)
    + Bit((rd.pc = "send" /\ 0 < next /\ next < maxPart) \/ bufMap[maxPart] # NoBuf)
ToStart == IF conc > 0 THEN conc ELSE 0

CountInv ==
  /\ next - rd.pos + Slack + ToStart <= Concurrent
  /\ Cardinality(OpenBlocks) <= next - rd.pos + Spare

Streaming == {"start", "send", "sending", "pop", "read", "finish"}
\* Bytes of part rd.pos that Read has returned
InPart == IF rd.pc = "read" THEN buf[rd.cur].r ELSE 0

\* What the reader has returned.
OutInv ==
  /\ late # "stray" => DeliveredInOrder
  /\ NoEarlyEOF
  /\ rd.pc \in Streaming => Len(out) = StartOf(rd.pos) + InPart

TokenInv == IsFiniteSet(Running) /\ NoTokenLost

IInv ==
  /\ TypeOK /\ StartOfNext /\ PhaseInv /\ OutInv /\ TokenInv /\ BlocksBounded /\ Fresh
  /\ open => BlockInv /\ DataInv /\ CountInv /\ SendBlock /\ (late # "stray" => PlaceInv)

-----------------------------------------------------------------------------
(* Arithmetic of the parts                                                 *)

LEMMA Sizes ==
  ASSUME StartOfNext
  PROVE  /\ len \in Nat \ {0} /\ part \in Nat \ {0} /\ maxPart \in Nat /\ maxPart >= 2
         /\ next \in 0 .. maxPart /\ pos = StartOf(next)
         /\ Concurrent \in 1 .. maxPart
         /\ \A i \in Nat : PartSize(i) \in 1 .. part
<1>1. len \in Nat \ {0} /\ part \in Nat \ {0} /\ len > part /\ next \in 0 .. maxPart  BY DEF StartOfNext
<1>2. maxPart \in Nat /\ maxPart >= 2  BY <1>1, NumberOfParts
<1>3. pos = StartOf(next)  BY DEF StartOf, StartOfNext
<1>4. Concurrent \in 1 .. maxPart  BY <1>2, DownloaderAssumption DEF Concurrent
<1> QED  BY <1>1, <1>2, <1>3, <1>4, PartFits

\* The parts follow each other, the last one ends with the range.
LEMMA Starts ==
  ASSUME StartOfNext
  PROVE  /\ StartOf(0) = 0 /\ StartOf(maxPart) = len
         /\ \A i \in 0 .. maxPart : StartOf(i) \in Nat
         /\ \A i \in 0 .. maxPart - 1 : StartOf(i + 1) = StartOf(i) + PartSize(i) /\ StartOf(i + 1) <= len
<1>1. len \in Nat \ {0} /\ part \in Nat \ {0} /\ len > part /\ maxPart \in Nat /\ maxPart >= 2
  BY Sizes DEF StartOfNext
<1>2. PartSize(0) \in 1 .. part /\ PartSize(1) \in 1 .. part  BY Sizes
<1>3. StartOf(0) = 0  BY DEF StartOf
<1>4. StartOf(maxPart) = len
  <2>1. (maxPart - maxPart) * part = 0  BY <1>1
  <2> QED  BY <1>1, <2>1 DEF StartOf
<1>5. StartOf(2) = PartSize(0) + PartSize(1)  BY <1>1, <1>2, FirstTwo DEF StartOf
<1>6. ASSUME NEW i \in 2 .. maxPart PROVE StartOf(i) \in Nat /\ StartOf(i) <= len
  <2>1. (maxPart - 2) * part = (maxPart - i) * part + (i - 2) * part  BY <1>1, <1>6
  <2>2. (maxPart - i) * part \in Nat /\ (i - 2) * part \in Nat  BY <1>1, <1>6
  <2>3. StartOf(2) = len - (maxPart - 2) * part  BY <1>1 DEF StartOf
  <2>4. StartOf(i) = len - (maxPart - i) * part  BY <1>1, <1>6 DEF StartOf
  <2> QED  BY <1>1, <1>2, <1>5, <2>1, <2>2, <2>3, <2>4
<1>7. ASSUME NEW i \in 2 .. maxPart - 1 PROVE StartOf(i + 1) = StartOf(i) + PartSize(i)
  <2>1. PartSize(i) = part  BY <1>1, <1>7 DEF PartSize
  <2>2. (maxPart - (i + 1)) * part = (maxPart - i) * part - part  BY <1>1, <1>7
  <2>3. (maxPart - i) * part \in Nat  BY <1>1, <1>7
  <2> QED  BY <1>1, <1>7, <2>1, <2>2, <2>3 DEF StartOf
<1>8. StartOf(1) = PartSize(0)  BY DEF StartOf
<1>9. \A i \in 0 .. maxPart : StartOf(i) \in Nat
  BY <1>1, <1>2, <1>3, <1>6, <1>8
<1>10. \A i \in 0 .. maxPart - 1 : StartOf(i + 1) = StartOf(i) + PartSize(i)
  BY <1>1, <1>2, <1>3, <1>5, <1>7, <1>8
<1>11. StartOf(1) <= len  BY <1>1, <1>2, <1>8
<1>12. \A i \in 0 .. maxPart - 1 : StartOf(i + 1) <= len  BY <1>1, <1>6, <1>11
<1> QED  BY <1>3, <1>4, <1>9, <1>10, <1>12

\* What only the request decides does not change.
LEMMA SameRequest ==
  ASSUME UNCHANGED <<len, part>>
  PROVE  /\ maxPart' = maxPart /\ Concurrent' = Concurrent /\ Ids' = Ids /\ Bufs' = Bufs
         /\ Chunk' = Chunk /\ BufRec' = BufRec /\ WorkerRec' = WorkerRec /\ RdRec' = RdRec
         /\ \A i : PartSize(i)' = PartSize(i) /\ StartOf(i)' = StartOf(i)
<1>1. maxPart' = maxPart  BY DEF maxPart
<1>2. Concurrent' = Concurrent /\ Ids' = Ids /\ Bufs' = Bufs  BY <1>1 DEF Concurrent, Ids, Bufs
<1>3. Chunk' = Chunk  BY <1>2 DEF Chunk
<1>4. BufRec' = BufRec /\ WorkerRec' = WorkerRec /\ RdRec' = RdRec
  BY <1>1, <1>2, <1>3 DEF BufRec, WorkerRec, RdRec
<1>5. \A i : PartSize(i)' = PartSize(i)  BY DEF PartSize, firstSize, minSize
<1>6. \A i : StartOf(i)' = StartOf(i)  BY <1>1, <1>5 DEF StartOf
<1> QED  BY <1>1, <1>2, <1>3, <1>4, <1>5, <1>6

LEMMA Types ==
  TypeOK <=> /\ mu \in Workers \cup {"free", "reader"}
             /\ ctx \in {"live", "client", "fatal", "closed"}
             /\ limit \in Nat /\ open \in BOOLEAN /\ conc \in Int
             /\ chan \in Seq(Chunk) /\ Len(chan) <= Concurrent
             /\ bufMap \in [-1 .. maxPart -> Bufs \cup {NoBuf}]
             /\ buf \in [Bufs -> BufRec]
             /\ worker \in [Workers -> WorkerRec]
             /\ rd \in RdRec
             /\ out \in Seq(Int)
             /\ faults \in 0 .. MaxFaults
             /\ late \in {"none", "resumed", "stray"}
BY DEF TypeOK, BufRec, WorkerRec, WorkerPcs, RdRec

\* The block of the next part: the recycled one, or the first that is not in use.
LEMMA NextBlock ==
  ASSUME StartOfNext, TypeOK, next < maxPart, NEW k \in 0 .. next, Taken(k)
  PROVE  /\ NextBuf \in Bufs
         /\ bufMap[next] # NoBuf => NextBuf = bufMap[next]
         /\ bufMap[next] = NoBuf => NextBuf = k + 1
<1>1. next \in 0 .. maxPart /\ maxPart \in Nat  BY Sizes
<1>2. CASE bufMap[next] # NoBuf
  <2>1. bufMap[next] \in Bufs \cup {NoBuf}  BY <1>1, Types
  <2> QED  BY <1>2, <2>1 DEF NextBuf
<1>3. CASE bufMap[next] = NoBuf
  <2>1. k + 1 \in Bufs  BY <1>1 DEF Bufs
  <2>2. ~buf[k + 1].used /\ \A c \in Bufs : ~buf[c].used => k + 1 <= c
    BY <1>1, <2>1 DEF Taken, Bufs
  <2>3. \A b \in Bufs : ~buf[b].used /\ (\A c \in Bufs : ~buf[c].used => b <= c) => b = k + 1
    BY <1>1, <2>1, <2>2 DEF Bufs
  <2> QED  BY <1>3, <2>1, <2>2, <2>3 DEF NextBuf
<1> QED  BY <1>2, <1>3

-----------------------------------------------------------------------------
(* What the steps change                                                   *)

LEMMA ChunkFields ==
  ASSUME NEW c \in Chunk
  PROVE  c.id \in Ids /\ c.start \in 0 .. len /\ c.size \in 0 .. part /\ c.buf \in Bufs /\ c.got \in Nat
         /\ c.new \in BOOLEAN
BY DEF Chunk

LEMMA BlockFields ==
  ASSUME TypeOK, StartOfNext, NEW b \in Bufs
  PROVE  /\ buf[b] \in BufRec /\ buf[b].used \in BOOLEAN /\ buf[b].closed \in BOOLEAN
         /\ buf[b].size \in 0 .. part /\ buf[b].r \in 0 .. part
         /\ buf[b].data \in Seq(Int) /\ Len(buf[b].data) \in Nat
<1>1. buf[b] \in BufRec  BY Types
<1>2. \A x \in BufRec : x.used \in BOOLEAN /\ x.closed \in BOOLEAN /\ x.size \in 0 .. part /\ x.r \in 0 .. part
        /\ x.data \in Seq(Int)
  BY DEF BufRec
<1>3. \A s \in Seq(Int) : Len(s) \in Nat  BY LenProperties
<1> QED  BY <1>1, <1>2, <1>3

LEMMA WorkerFields ==
  ASSUME TypeOK, NEW w \in Workers
  PROVE  worker[w] \in WorkerRec /\ worker[w].pc \in WorkerPcs /\ worker[w].ch \in Chunk
         /\ worker[w].retry \in 0 .. MaxRetries
<1>1. worker[w] \in WorkerRec  BY Types
<1> QED  BY <1>1 DEF WorkerRec

LEMMA ReaderFields ==
  ASSUME TypeOK
  PROVE  rd \in RdRec /\ rd.pos \in 0 .. maxPart /\ rd.cur \in Bufs \cup {NoBuf}
BY Types DEF RdRec

LEMMA MapFields ==
  ASSUME TypeOK, StartOfNext
  PROVE  /\ \A i \in -1 .. maxPart : bufMap[i] \in Bufs \cup {NoBuf}
         /\ \A b \in Bufs : b \in 1 .. maxPart + 1 /\ b # NoBuf
<1>1. \A i \in -1 .. maxPart : bufMap[i] \in Bufs \cup {NoBuf}  BY Types
<1>2. maxPart \in Nat  BY Sizes
<1> QED  BY <1>1, <1>2 DEF Bufs, NoBuf
\* A step of worker w that keeps its part.
Moves(w, S) ==
  /\ worker' \in [Workers -> WorkerRec]
  /\ \A x \in Workers : x # w => worker'[x] = worker[x]
  /\ worker'[w].pc \in S /\ worker'[w].ch = worker[w].ch

LEMMA GotoMoves ==
  ASSUME TypeOK, NEW w \in Workers, NEW l \in WorkerPcs, Goto(w, l)
  PROVE  Moves(w, {l})
<1>1. worker \in [Workers -> WorkerRec]  BY Types
<1>2. worker' = [worker EXCEPT ![w] = [worker[w] EXCEPT !.pc = l]]  BY DEF Goto
<1>3. [worker[w] EXCEPT !.pc = l] \in WorkerRec  BY <1>1 DEF WorkerRec
<1>4. [worker[w] EXCEPT !.pc = l].pc = l /\ [worker[w] EXCEPT !.pc = l].ch = worker[w].ch
  BY <1>1 DEF WorkerRec
<1> QED  BY <1>1, <1>2, <1>3, <1>4 DEF Moves

LEMMA RetryMoves ==
  ASSUME TypeOK, NEW w \in Workers, Retry(w, worker[w].ch.got)
  PROVE  /\ Moves(w, {"request", "exit"})
         /\ worker'[w].pc = "exit" => ctx' # "live"
         /\ ctx' \in {"live", "client", "fatal", "closed"} /\ (ctx' = "live" => ctx = "live")
<1> DEFINE r == worker[w].retry + 1
<1>1. worker \in [Workers -> WorkerRec] /\ ctx \in {"live", "client", "fatal", "closed"}  BY Types
<1>2. worker[w] \in WorkerRec /\ worker[w].ch \in Chunk /\ worker[w].retry \in 0 .. MaxRetries  BY WorkerFields
<1>3. CASE ctx # "live" \/ r > MaxRetries
  <2>1. Cancel("fatal") /\ Goto(w, "exit")  BY <1>3 DEF Retry, Goto
  <2>2. Moves(w, {"exit"})  BY <2>1, GotoMoves DEF WorkerPcs
  <2> QED  BY <1>1, <2>1, <2>2 DEF Cancel, Moves
<1>4. CASE ~(ctx # "live" \/ r > MaxRetries)
  <2> DEFINE c == [worker[w].ch EXCEPT !.got = worker[w].ch.got]
             v == [worker[w] EXCEPT !.pc = "request", !.ch = c, !.retry = r]
  <2>1. worker' = [worker EXCEPT ![w].pc = "request", ![w].ch.got = worker[w].ch.got, ![w].retry = r]
        /\ ctx' = ctx
    BY <1>4 DEF Retry
  <2>2. worker' = [worker EXCEPT ![w] = v]  BY <1>1, <1>2, <2>1
  <2>3. c = worker[w].ch  BY <1>2 DEF Chunk
  <2>4. r \in 0 .. MaxRetries  BY <1>2, <1>4, DownloaderAssumption
  <2> HIDE DEF c, r
  <2>5. v \in WorkerRec /\ v.pc = "request" /\ v.ch = worker[w].ch
    BY <1>2, <2>3, <2>4 DEF WorkerRec, WorkerPcs
  <2> HIDE DEF v
  <2>6. Moves(w, {"request"})  BY <1>1, <2>2, <2>5 DEF Moves
  <2>7. worker'[w].pc = "request"  BY <2>6 DEF Moves
  <2> QED  BY <1>1, <2>1, <2>6, <2>7 DEF Moves
<1> QED  BY <1>3, <1>4

\* PipeBuffer.Reset
Reset(x, n) == [x EXCEPT !.used = TRUE, !.size = n, !.r = 0, !.data = << >>]

LEMMA ResetBlock ==
  ASSUME part \in Nat, NEW x \in BufRec, NEW n \in 0 .. part
  PROVE  /\ Reset(x, n) \in BufRec /\ Reset(x, n).used /\ Reset(x, n).closed = x.closed
         /\ Reset(x, n).size = n /\ Reset(x, n).r = 0 /\ Reset(x, n).data = << >>
<1>1. << >> \in Seq(Int)  OBVIOUS
<1>2. 0 \in 0 .. part  OBVIOUS
<1>3. Reset(x, n) \in BufRec  BY <1>1, <1>2 DEF BufRec, Reset
<1>4. Reset(x, n).used /\ Reset(x, n).closed = x.closed  BY DEF BufRec, Reset
<1>5. Reset(x, n).size = n /\ Reset(x, n).r = 0 /\ Reset(x, n).data = << >>  BY DEF BufRec, Reset
<1> QED  BY <1>3, <1>4, <1>5

\* sendChunkTask gives the next part a block that no other part has.
LEMMA DispatchDoes ==
  ASSUME IInv, NEW p \in Workers \cup {"reader"}, NEW new \in BOOLEAN, SendDispatches(p, new)
  PROVE  /\ open /\ next < maxPart /\ next' = next + 1 /\ len' = len /\ part' = part
         /\ pos' = StartOf(next + 1) /\ StartOfNext'
         /\ NextBuf \in Bufs /\ mu' = p
         /\ bufMap' \in [-1 .. maxPart -> Bufs \cup {NoBuf}]
         /\ bufMap'[next] = NextBuf
         /\ \A i \in -1 .. maxPart : i # next => bufMap'[i] = bufMap[i]
         /\ buf' \in [Bufs -> BufRec]
         /\ \A b \in Bufs : b # NextBuf => buf'[b] = buf[b]
         /\ buf'[NextBuf].used /\ ~buf[NextBuf].closed /\ ~buf'[NextBuf].closed
         /\ buf'[NextBuf].size = PartSize(next) /\ buf'[NextBuf].r = 0 /\ buf'[NextBuf].data = << >>
         /\ \A i \in rd.pos .. maxPart : i # next => bufMap[i] # NextBuf
         /\ Popped \/ rd.pc = "finish" => rd.cur # NextBuf
         /\ \E k \in 0 .. next + 1 : Taken(k)'
         /\ \A b \in Bufs : ~buf'[b].used => ~buf'[b].closed
         /\ bufMap[next] = NoBuf => ~buf[NextBuf].used
         /\ bufMap[next] # NoBuf => NextBuf = bufMap[next] /\ buf[NextBuf].used
<1>1. TypeOK /\ StartOfNext /\ PhaseInv  BY DEF IInv
<1>2. open /\ pos < len  BY DEF SendDispatches, NothingToSend, Dispatch
<1>3. BlockInv  BY <1>2 DEF IInv
<1>4. PartsCoverRange /\ pos \in Nat  BY <1>1, CoveredAtMaxPart, Sizes, Starts
<1>5. next \in 0 .. maxPart /\ maxPart \in Nat /\ len \in Nat /\ part \in Nat
  BY <1>1, Sizes
<1>6. next < maxPart  BY <1>2, <1>4, <1>5 DEF PartsCoverRange
<1>7. next' = next + 1 /\ len' = len /\ part' = part /\ pos' = pos + PartSize(next)
  BY DEF SendDispatches, Dispatch
<1>8. pos' = StartOf(next + 1)  BY <1>1, <1>5, <1>6, <1>7, Sizes, Starts
<1>9. StartOfNext'  BY <1>1, DispatchStart DEF SendDispatches
<1>10. PICK k \in 0 .. next : Taken(k)  BY <1>3 DEF BlockInv
<1>11. /\ NextBuf \in Bufs
       /\ bufMap[next] # NoBuf => NextBuf = bufMap[next]
       /\ bufMap[next] = NoBuf => NextBuf = k + 1
  BY <1>1, <1>6, <1>10, NextBlock
<1>12. mu' = p /\ bufMap' = [bufMap EXCEPT ![next] = NextBuf]  BY DEF SendDispatches
<1>13. bufMap \in [-1 .. maxPart -> Bufs \cup {NoBuf}] /\ buf \in [Bufs -> BufRec]  BY <1>1, Types
<1>14. next \in -1 .. maxPart  BY <1>5
<1>15. /\ bufMap' \in [-1 .. maxPart -> Bufs \cup {NoBuf}]
       /\ bufMap'[next] = NextBuf
       /\ \A i \in -1 .. maxPart : i # next => bufMap'[i] = bufMap[i]
  BY <1>11, <1>12, <1>13, <1>14
<1> DEFINE v == Reset(buf[NextBuf], PartSize(next))
<1>16. buf' = [buf EXCEPT ![NextBuf] = v]  BY DEF SendDispatches, Reset
<1>17. PartSize(next) \in 0 .. part  BY <1>1, <1>5, Sizes
<1>18. buf[NextBuf] \in BufRec  BY <1>11, <1>13
<1>20. v \in BufRec /\ v.used /\ v.closed = buf[NextBuf].closed /\ v.size = PartSize(next) /\ v.r = 0 /\ v.data = << >>
  BY <1>5, <1>17, <1>18, ResetBlock
<1> HIDE DEF v
<1>21. /\ buf' \in [Bufs -> BufRec] /\ buf'[NextBuf] = v
       /\ \A b \in Bufs : b # NextBuf => buf'[b] = buf[b]
  BY <1>11, <1>13, <1>16, <1>20
<1>22. rd.pos \in 0 .. maxPart /\ rd.pos <= next /\ next \in rd.pos .. maxPart
  BY <1>1, <1>5, ReaderFields DEF PhaseInv
<1>23. CASE bufMap[next] # NoBuf
  <2>1. NextBuf = bufMap[next] /\ buf[NextBuf].used /\ ~buf[NextBuf].closed
    BY <1>3, <1>11, <1>22, <1>23 DEF BlockInv
  <2>2. \A i \in rd.pos .. maxPart : i # next => bufMap[i] # NextBuf
    BY <1>3, <1>22, <1>23, <2>1 DEF BlockInv
  <2>3. Popped \/ rd.pc = "finish" => rd.cur # NextBuf
    BY <1>3, <1>22, <2>1 DEF BlockInv
  <2>4. Taken(k)'
    BY <1>7, <1>10, <1>11, <1>20, <1>21, <2>1, SameRequest DEF Taken
  <2>5. \A b \in Bufs : ~buf'[b].used => ~buf'[b].closed
    BY <1>3, <1>20, <1>21, <2>1 DEF BlockInv
  <2>6. k \in 0 .. next + 1  BY <1>5, <1>10
  <2> QED  BY <1>2, <1>6, <1>7, <1>8, <1>9, <1>11, <1>12, <1>15, <1>20, <1>21, <1>23, <2>1, <2>2, <2>3, <2>4, <2>5, <2>6
<1>24. CASE bufMap[next] = NoBuf
  <2>1. NextBuf = k + 1  BY <1>11, <1>24
  <2>2. ~buf[NextBuf].used  BY <1>5, <1>10, <1>11, <2>1 DEF Taken
  <2>3. ~buf[NextBuf].closed  BY <1>3, <1>11, <2>2 DEF BlockInv
  <2>4. \A i \in rd.pos .. maxPart : i # next => bufMap[i] # NextBuf
    <3>1. SUFFICES ASSUME NEW i \in rd.pos .. maxPart, bufMap[i] = NextBuf PROVE FALSE
      OBVIOUS
    <3>2. bufMap[i] # NoBuf  BY <1>1, <1>11, <3>1, MapFields
    <3> QED  BY <1>3, <2>2, <3>1, <3>2 DEF BlockInv
  <2>5. Popped \/ rd.pc = "finish" => rd.cur # NextBuf
    BY <1>3, <2>2 DEF BlockInv
  <2>6. Taken(k + 1)'
    <3>1. \A b \in Bufs : b \in Int  BY <1>1, MapFields
    <3>2. \A b \in Bufs : buf'[b].used <=> b <= k + 1
      BY <1>5, <1>10, <1>11, <1>20, <1>21, <2>1, <3>1 DEF Taken
    <3>3. Bufs' = Bufs  BY <1>7, SameRequest
    <3> QED BY <3>2, <3>3 DEF Taken
  <2>7. \A b \in Bufs : ~buf'[b].used => ~buf'[b].closed
    BY <1>3, <1>20, <1>21 DEF BlockInv
  <2>8. k + 1 \in 0 .. next + 1  BY <1>5, <1>10
  <2> QED  BY <1>2, <1>6, <1>7, <1>8, <1>9, <1>11, <1>12, <1>15, <1>20, <1>21, <1>24, <2>2, <2>3, <2>4, <2>5, <2>6, <2>7, <2>8
<1> QED  BY <1>23, <1>24

RdPcs == {"start", "send", "sending", "pop", "read", "finish", "undo", "interrupt",
          "eof", "failed", "closed", "error", "nil"}

\* A step of the reader that keeps its part and its block.
ReaderGoes(l) == rd' \in RdRec /\ rd'.pc = l /\ rd'.pos = rd.pos /\ rd'.cur = rd.cur

LEMMA ReaderGoto ==
  ASSUME TypeOK, UNCHANGED <<len, part>>, NEW l \in RdPcs, rd' = [rd EXCEPT !.pc = l]
  PROVE  ReaderGoes(l)
<1>1. rd \in RdRec  BY Types
<1>2. [rd EXCEPT !.pc = l] \in RdRec  BY <1>1 DEF RdRec, RdPcs
<1>3. [rd EXCEPT !.pc = l].pc = l /\ [rd EXCEPT !.pc = l].pos = rd.pos /\ [rd EXCEPT !.pc = l].cur = rd.cur
  BY <1>1 DEF RdRec
<1> QED  BY <1>2, <1>3 DEF ReaderGoes

\* The reader takes the block of its part, which is dispatched.
LEMMA PopDoes ==
  ASSUME IInv, ReaderPops
  PROVE  /\ open /\ rd.pc = "pop" /\ rd.pos < next /\ bufMap[rd.pos] \in Bufs /\ rd.pos \in 0 .. maxPart - 1
         /\ rd' \in RdRec /\ rd'.pc = "read" /\ rd'.pos = rd.pos /\ rd'.cur = bufMap[rd.pos]
         /\ bufMap' \in [-1 .. maxPart -> Bufs \cup {NoBuf}]
         /\ bufMap'[rd.pos] = NoBuf
         /\ \A i \in 0 .. maxPart : i # rd.pos => bufMap'[i] = bufMap[i]
<1> DEFINE b == bufMap[rd.pos]
<1>1. TypeOK /\ StartOfNext /\ PhaseInv  BY DEF IInv
<1>2. open /\ rd.pc = "pop" /\ rd.pos < next  BY <1>1 DEF PhaseInv, ReaderPops
<1>3. BlockInv  BY <1>2 DEF IInv
<1>4. next \in 0 .. maxPart /\ maxPart \in Nat /\ rd.pos \in 0 .. maxPart  BY <1>1, Sizes, ReaderFields
<1>5. rd.pos \in Outstanding /\ BlockOf(rd.pos) = b  BY <1>2, <1>4 DEF Outstanding, BlockOf, Popped
<1>6. b # NoBuf  BY <1>3, <1>5 DEF BlockInv
<1>7. b \in Bufs  BY <1>1, <1>4, <1>6, MapFields
<1>8. rd' = [rd EXCEPT !.pc = "read", !.cur = b] /\ bufMap' = [bufMap EXCEPT ![rd.pos] = NoBuf, ![-1] = b]
  BY <1>6 DEF ReaderPops
<1>9. rd \in RdRec /\ bufMap \in [-1 .. maxPart -> Bufs \cup {NoBuf}]  BY <1>1, Types
<1>10. rd' \in RdRec /\ rd'.pc = "read" /\ rd'.pos = rd.pos /\ rd'.cur = b
  <2> HIDE DEF b
  <2>1. rd' \in RdRec  BY <1>7, <1>8, <1>9 DEF RdRec
  <2> QED  BY <1>8, <1>9, <2>1 DEF RdRec
<1>11. bufMap' \in [-1 .. maxPart -> Bufs \cup {NoBuf}] /\ bufMap'[rd.pos] = NoBuf
       /\ \A i \in 0 .. maxPart : i # rd.pos => bufMap'[i] = bufMap[i]
  <2> HIDE DEF b
  <2> QED  BY <1>4, <1>7, <1>8, <1>9
<1> QED  BY <1>2, <1>4, <1>7, <1>10, <1>11

\* Read returns bytes of the block; after the last one the part is consumed.
LEMMA ReadDoes ==
  ASSUME IInv, NEW n \in 1 .. part, ReaderReads(n)
  PROVE  /\ open /\ ctx = "live" /\ rd.pc = "read" /\ Popped /\ rd.pos < next /\ rd.pos \in 0 .. maxPart - 1
         /\ rd.pos \in Outstanding /\ BlockOf(rd.pos) = rd.cur
         /\ rd.cur \in Bufs /\ BlockHas(rd.pos, buf[rd.cur])
         /\ buf[rd.cur].r + n <= Len(buf[rd.cur].data)
         /\ out' = out \o SubSeq(buf[rd.cur].data, buf[rd.cur].r + 1, buf[rd.cur].r + n)
         /\ buf' \in [Bufs -> BufRec] /\ \A b \in Bufs : b # rd.cur => buf'[b] = buf[b]
         /\ buf'[rd.cur].r = buf[rd.cur].r + n /\ buf'[rd.cur].data = buf[rd.cur].data
         /\ buf'[rd.cur].used = buf[rd.cur].used /\ buf'[rd.cur].closed = buf[rd.cur].closed
         /\ buf'[rd.cur].size = buf[rd.cur].size
         /\ \/ buf[rd.cur].r + n < PartSize(rd.pos) /\ rd' = rd
            \/ /\ buf[rd.cur].r + n = PartSize(rd.pos) /\ PartFull(rd.pos)
               /\ rd' \in RdRec /\ rd'.pos = rd.pos + 1 /\ rd'.cur = rd.cur
               /\ rd'.pc = IF rd.pos + 1 >= maxPart THEN "eof" ELSE "finish"
<1> DEFINE b == rd.cur  c == buf[b]
<1>1. TypeOK /\ StartOfNext /\ PhaseInv  BY DEF IInv
<1>2. open /\ ctx = "live" /\ rd.pc = "read" /\ rd.pos < next  BY <1>1 DEF PhaseInv, ReaderReads
<1>3. BlockInv /\ DataInv  BY <1>2 DEF IInv
<1>4. next \in 0 .. maxPart /\ maxPart \in Nat /\ rd.pos \in 0 .. maxPart /\ b \in Bufs \cup {NoBuf}
  BY <1>1, Sizes, ReaderFields
<1>5. Popped /\ rd.pos \in 0 .. maxPart - 1 /\ rd.pos \in Outstanding /\ BlockOf(rd.pos) = b
  BY <1>2, <1>4 DEF Outstanding, BlockOf, Popped
<1>6. b \in Bufs  BY <1>4 DEF ReaderReads
<1>7. BlockHas(rd.pos, c)  BY <1>3, <1>5 DEF DataInv
<1>8. c \in BufRec /\ c.r \in Nat /\ c.size \in Nat /\ Len(c.data) \in Nat  BY <1>1, <1>6, BlockFields
<1>15. c.r + n <= Len(c.data)  BY DEF ReaderReads
<1>9. buf' = [buf EXCEPT ![b].r = c.r + n]
      /\ out' = out \o SubSeq(c.data, c.r + 1, c.r + n)
  BY DEF ReaderReads
<1>10. part \in Nat /\ PartSize(rd.pos) \in 1 .. part /\ c.size = PartSize(rd.pos) /\ Len(c.data) <= c.size
  <2>1. c.size = PartSize(rd.pos) /\ Len(c.data) <= c.size  BY <1>7 DEF BlockHas
  <2>2. part \in Nat /\ PartSize(rd.pos) \in 1 .. part  BY <1>1, <1>4, Sizes
  <2> QED  BY <2>1, <2>2
<1> DEFINE v == [c EXCEPT !.r = c.r + n]
<1>11. buf' = [buf EXCEPT ![b] = v]  BY <1>9
<1>12. v \in BufRec /\ v.r = c.r + n /\ v.data = c.data /\ v.used = c.used /\ v.closed = c.closed /\ v.size = c.size
  <2> HIDE DEF c
  <2>1. c.r + n \in 0 .. part  BY <1>8, <1>15, <1>10
  <2> QED  BY <1>8, <2>1 DEF BufRec
<1>13. /\ buf' \in [Bufs -> BufRec] /\ buf'[b] = v
       /\ \A x \in Bufs : x # b => buf'[x] = buf[x]
  <2>1. buf \in [Bufs -> BufRec]  BY <1>1, Types
  <2> HIDE DEF v, b
  <2> QED  BY <1>6, <1>11, <1>12, <2>1
<1>14. \/ c.r + n < PartSize(rd.pos) /\ rd' = rd
       \/ /\ c.r + n = PartSize(rd.pos) /\ PartFull(rd.pos)
          /\ rd' \in RdRec /\ rd'.pos = rd.pos + 1 /\ rd'.cur = rd.cur
          /\ rd'.pc = IF rd.pos + 1 >= maxPart THEN "eof" ELSE "finish"
  <2>1. CASE c.r + n < c.size
    BY <1>10, <2>1 DEF ReaderReads
  <2>2. CASE ~(c.r + n < c.size)
    <3>1. c.r + n = PartSize(rd.pos) /\ Len(c.data) = PartSize(rd.pos)
      <4> HIDE DEF c
      <4> QED  BY <1>8, <1>15, <1>10, <2>2
    <3>6. PartFull(rd.pos)  BY <1>5, <3>1 DEF PartFull
    <3> DEFINE l == IF rd.pos + 1 >= maxPart THEN "eof" ELSE "finish"
    <3>2. rd' = [rd EXCEPT !.pos = rd.pos + 1, !.pc = l]  BY <2>2 DEF ReaderReads
    <3>3. rd \in RdRec /\ rd.pos + 1 \in 0 .. maxPart  BY <1>1, <1>4, <1>5, Types
    <3>4. l \in {"eof", "finish"}  OBVIOUS
    <3> HIDE DEF l
    <3>5. rd' \in RdRec /\ rd'.pos = rd.pos + 1 /\ rd'.cur = rd.cur /\ rd'.pc = l
      BY <3>2, <3>3, <3>4 DEF RdRec
    <3> USE DEF l
    <3> QED  BY <3>1, <3>5, <3>6
  <2> QED  BY <2>1, <2>2
<1> HIDE DEF v
<1> QED  BY <1>2, <1>5, <1>6, <1>7, <1>9, <1>12, <1>13, <1>14, <1>15

\* The consumed block waits for the next part, or is closed.
LEMMA FinishDoes ==
  ASSUME IInv, ReaderFinishes
  PROVE  /\ open /\ rd.pc = "finish" /\ rd.pos < maxPart /\ rd.cur \in Bufs /\ next \in 0 .. maxPart
         /\ buf[rd.cur].used /\ ~buf[rd.cur].closed
         /\ \/ /\ bufMap[next] = NoBuf /\ UNCHANGED buf /\ ReaderGoes("send")
               /\ bufMap' \in [-1 .. maxPart -> Bufs \cup {NoBuf}]
               /\ bufMap'[next] = rd.cur
               /\ \A i \in -1 .. maxPart : i # next => bufMap'[i] = bufMap[i]
            \/ /\ bufMap[next] # NoBuf /\ UNCHANGED bufMap /\ ReaderGoes("pop")
               /\ next = maxPart
               /\ buf' \in [Bufs -> BufRec]
               /\ \A b \in Bufs : b # rd.cur => buf'[b] = buf[b]
               /\ buf'[rd.cur].used /\ buf'[rd.cur].closed
<1>1. TypeOK /\ StartOfNext /\ PhaseInv  BY DEF IInv
<1>2. open /\ rd.pc = "finish" /\ rd.pos < maxPart  BY <1>1 DEF PhaseInv, ReaderFinishes
<1>3. BlockInv  BY <1>2 DEF IInv
<1>4. rd.cur \in Bufs /\ buf[rd.cur].used /\ ~buf[rd.cur].closed
  BY <1>1, <1>2, <1>3, ReaderFields DEF BlockInv
<1>5. next \in 0 .. maxPart /\ maxPart \in Nat  BY <1>1, Sizes
<1>6. bufMap \in [-1 .. maxPart -> Bufs \cup {NoBuf}] /\ buf \in [Bufs -> BufRec]  BY <1>1, Types
<1>7. UNCHANGED <<len, part>>  BY DEF ReaderFinishes, partVars
<1>8. CASE bufMap[next] = NoBuf
  <2>1. bufMap' = [bufMap EXCEPT ![next] = rd.cur] /\ UNCHANGED buf /\ rd' = [rd EXCEPT !.pc = "send"]
    BY <1>8 DEF ReaderFinishes
  <2>2. ReaderGoes("send")  BY <1>1, <1>7, <2>1, ReaderGoto DEF RdPcs
  <2>3. /\ bufMap' \in [-1 .. maxPart -> Bufs \cup {NoBuf}] /\ bufMap'[next] = rd.cur
        /\ \A i \in -1 .. maxPart : i # next => bufMap'[i] = bufMap[i]
    BY <1>4, <1>5, <1>6, <2>1
  <2> QED  BY <1>2, <1>4, <1>5, <1>8, <2>1, <2>2, <2>3
<1>9. CASE bufMap[next] # NoBuf
  <2>1. UNCHANGED bufMap /\ buf' = [buf EXCEPT ![rd.cur].closed = TRUE] /\ rd' = [rd EXCEPT !.pc = "pop"]
    BY <1>9 DEF ReaderFinishes
  <2>2. ReaderGoes("pop")  BY <1>1, <1>7, <2>1, ReaderGoto DEF RdPcs
  <2>3. next = maxPart  BY <1>2, <1>3, <1>5, <1>9 DEF BlockInv
  <2> DEFINE v == [buf[rd.cur] EXCEPT !.closed = TRUE]
  <2>4. v \in BufRec /\ v.closed /\ v.used = buf[rd.cur].used  BY <1>4, <1>6 DEF BufRec
  <2>5. buf' = [buf EXCEPT ![rd.cur] = v]  BY <2>1
  <2> HIDE DEF v
  <2>6. /\ buf' \in [Bufs -> BufRec] /\ buf'[rd.cur].used /\ buf'[rd.cur].closed
        /\ \A b \in Bufs : b # rd.cur => buf'[b] = buf[b]
    BY <1>4, <1>6, <2>4, <2>5
  <2> QED  BY <1>2, <1>4, <1>5, <1>9, <2>1, <2>2, <2>3, <2>6
<1> QED  BY <1>8, <1>9

\* What is sent on the channel is the part that was dispatched last.
LEMMA QueuesDoes ==
  ASSUME IInv, mu # "free", NEW new \in BOOLEAN, SendQueues(new)
  PROVE  /\ open /\ next - 1 \in Outstanding /\ next - 1 \in 0 .. maxPart - 1
         /\ Len(chan) < Concurrent /\ limit' = limit
         /\ \E c \in Chunk : /\ chan' = Append(chan, c) /\ c.id = next - 1
                             /\ c.start = StartOf(next - 1) /\ c.size = PartSize(next - 1)
                             /\ c.buf = bufMap[next - 1] /\ c.got = 0
<1> DEFINE i == next - 1
           c == [id |-> i, start |-> pos - PartSize(i), size |-> PartSize(i),
                 buf |-> bufMap[i], got |-> 0, new |-> new]
<1>1. TypeOK /\ StartOfNext /\ PhaseInv  BY DEF IInv
<1>2. open /\ rd.pos < next  BY <1>1 DEF PhaseInv
<1>3. SendBlock  BY <1>2 DEF IInv
<1>4. next \in 0 .. maxPart /\ maxPart \in Nat /\ rd.pos \in 0 .. maxPart /\ pos = StartOf(next)
      /\ len \in Nat /\ part \in Nat
  BY <1>1, Sizes, ReaderFields
<1>5. i \in Outstanding /\ i \in 0 .. maxPart - 1  BY <1>2, <1>4 DEF Outstanding
<1>6. PartSize(i) \in 1 .. part /\ StartOf(i) \in Nat /\ StartOf(i + 1) = StartOf(i) + PartSize(i)
      /\ StartOf(i + 1) <= len /\ i + 1 = next
  BY <1>1, <1>4, <1>5, Sizes, Starts
<1>7. pos - PartSize(i) = StartOf(i) /\ StartOf(i) \in 0 .. len  BY <1>4, <1>6
<1>8. bufMap[i] \in Bufs
  <2>1. bufMap[i] # NoBuf  BY <1>3 DEF SendBlock
  <2>2. i \in -1 .. maxPart  BY <1>5, <1>4
  <2> QED  BY <1>1, <2>1, <2>2, MapFields
<1>9. Len(chan) < Concurrent /\ chan' = Append(chan, c) /\ limit' = limit
  BY DEF SendQueues, Capacity
<1> HIDE DEF i
<1>10. c \in Chunk  BY <1>4, <1>5, <1>6, <1>7, <1>8 DEF Chunk, Ids
<1> USE DEF i
<1> QED  BY <1>2, <1>5, <1>7, <1>9, <1>10

LEMMA Queue ==
  ASSUME NEW q \in Seq(Chunk)
  PROVE  Len(q) \in Nat /\ \A k \in 1 .. Len(q) : q[k] \in Chunk
BY LenProperties, ElementOfSeq

LEMMA QueueAppend ==
  ASSUME NEW q \in Seq(Chunk), NEW x \in Chunk
  PROVE  /\ Append(q, x) \in Seq(Chunk) /\ Len(q) \in Nat /\ Len(Append(q, x)) = Len(q) + 1
         /\ Append(q, x)[Len(q) + 1] = x /\ \A k \in 1 .. Len(q) : Append(q, x)[k] = q[k]
BY AppendProperties

LEMMA QueueTail ==
  ASSUME NEW q \in Seq(Chunk), q # << >>
  PROVE  /\ Head(q) \in Chunk /\ Head(q) = q[1] /\ Len(q) \in Nat \ {0}
         /\ Tail(q) \in Seq(Chunk) /\ Len(Tail(q)) = Len(q) - 1
         /\ \A k \in 1 .. Len(q) - 1 : Tail(q)[k] = q[k + 1]
<1>1. Len(q) \in Nat \ {0}  BY EmptySeq, LenProperties
<1> QED  BY <1>1, HeadTailProperties

LEMMA TakeDoes ==
  ASSUME TypeOK, NEW w \in Workers, WorkerTakes(w)
  PROVE  /\ worker' \in [Workers -> WorkerRec]
         /\ \A x \in Workers : x # w => worker'[x] = worker[x]
         /\ worker[w].pc = "select"
         /\ worker'[w].pc = "request" /\ worker'[w].ch = chan[1] /\ chan[1] \in Chunk
         /\ Len(chan) \in Nat \ {0} /\ chan' \in Seq(Chunk) /\ Len(chan') = Len(chan) - 1
         /\ \A k \in 1 .. Len(chan) - 1 : chan'[k] = chan[k + 1]
<1>1. chan \in Seq(Chunk) /\ worker \in [Workers -> WorkerRec]  BY Types
<1>2. chan # << >> /\ chan' = Tail(chan) /\ worker[w].pc = "select"  BY DEF WorkerTakes, At
<1> DEFINE v == [pc |-> "request", ch |-> Head(chan), retry |-> 0]
<1>3. worker' = [worker EXCEPT ![w] = v]  BY DEF WorkerTakes
<1>4. v \in WorkerRec /\ v.pc = "request" /\ v.ch = chan[1]
  <2>1. 0 \in 0 .. MaxRetries  BY DownloaderAssumption
  <2> QED  BY <1>1, <1>2, <2>1, QueueTail DEF WorkerRec, WorkerPcs
<1> HIDE DEF v
<1>5. worker' \in [Workers -> WorkerRec] /\ worker'[w] = v /\ \A x \in Workers : x # w => worker'[x] = worker[x]
  BY <1>1, <1>3, <1>4
<1> QED  BY <1>1, <1>2, <1>4, <1>5, QueueTail

\* A step that writes a byte, the next one of the part or a stray one.
Writes(w) == CopyUnit(w) \/ RecopyUnit(w)

\* What PipeBuffer.Write leaves: one more byte in a block that had room.
LEMMA WriteDoes ==
  ASSUME IInv, NEW w \in Workers, Writes(w)
  PROVE  LET c == worker[w].ch  b == c.buf IN
         /\ open /\ ctx = "live" /\ Holds(w) /\ c \in Chunk /\ b \in Bufs
         /\ Len(buf[b].data) < buf[b].size
         /\ worker' \in [Workers -> WorkerRec] /\ \A x \in Workers : x # w => worker'[x] = worker[x]
         /\ worker'[w].pc = worker[w].pc /\ worker'[w].ch.got = c.got + 1 /\ worker'[w].ch.id = c.id
         /\ worker'[w].ch.size = c.size /\ worker'[w].ch.start = c.start /\ worker'[w].ch.buf = c.buf
         /\ buf' \in [Bufs -> BufRec] /\ \A x \in Bufs : x # b => buf'[x] = buf[x]
         /\ buf'[b].used = buf[b].used /\ buf'[b].closed = buf[b].closed /\ buf'[b].size = buf[b].size
         /\ buf'[b].r = buf[b].r /\ Len(buf'[b].data) = Len(buf[b].data) + 1
         /\ \A k \in 1 .. Len(buf[b].data) : buf'[b].data[k] = buf[b].data[k]
         /\ CopyUnit(w) => buf'[b].data[Len(buf[b].data) + 1] = c.start + c.got
<1> DEFINE c == worker[w].ch  b == c.buf
<1>1. TypeOK /\ StartOfNext /\ PhaseInv  BY DEF IInv
<1>2. ctx = "live" /\ ~Full(b)  BY DEF Writes, CopyUnit, RecopyUnit, WriteRefused
<1>3. open  BY <1>1, <1>2 DEF PhaseInv
<1>4. c \in Chunk /\ b \in Bufs /\ c.got \in Nat /\ c.start \in Int  BY <1>1, Sizes, WorkerFields, ChunkFields
<1>5. Holds(w)  BY DEF Writes, CopyUnit, RecopyUnit, At, Holds, HoldingPcs
<1>6. worker \in [Workers -> WorkerRec] /\ buf \in [Bufs -> BufRec]  BY <1>1, Types
<1>7. buf[b] \in BufRec /\ buf[b].data \in Seq(Int) /\ Len(buf[b].data) \in Nat /\ buf[b].size \in Int
  <2> HIDE DEF b
  <2>1. buf[b] \in BufRec /\ buf[b].data \in Seq(Int) /\ Len(buf[b].data) \in Nat /\ buf[b].size \in 0 .. part
    BY <1>1, <1>4, BlockFields
  <2>2. part \in Nat  BY <1>1, Sizes
  <2> QED  BY <2>1, <2>2
<1>8. Len(buf[b].data) < buf[b].size  BY <1>2, <1>7 DEF Full
<1> DEFINE v == [worker[w] EXCEPT !.ch = [c EXCEPT !.got = c.got + 1]]
<1>9. worker' = [worker EXCEPT ![w] = v]  BY DEF Writes, CopyUnit, RecopyUnit
<1>10. v \in WorkerRec /\ v.pc = worker[w].pc /\ v.ch.got = c.got + 1 /\ v.ch.id = c.id
       /\ v.ch.size = c.size /\ v.ch.start = c.start /\ v.ch.buf = c.buf
  <2> DEFINE d == [c EXCEPT !.got = c.got + 1]
  <2>1. d \in Chunk /\ d.got = c.got + 1 /\ d.id = c.id /\ d.size = c.size /\ d.start = c.start /\ d.buf = c.buf
    <3>1. c.got + 1 \in Nat  BY <1>4
    <3> HIDE DEF c
    <3> QED  BY <1>4, <3>1 DEF Chunk
  <2>2. worker[w] \in WorkerRec  BY <1>6
  <2> HIDE DEF d
  <2>3. v = [worker[w] EXCEPT !.ch = d]  BY DEF d
  <2>4. v \in WorkerRec /\ v.pc = worker[w].pc /\ v.ch = d  BY <2>1, <2>2, <2>3 DEF WorkerRec
  <2> QED  BY <2>1, <2>4
<1>11. worker' \in [Workers -> WorkerRec] /\ worker'[w] = v /\ \A y \in Workers : y # w => worker'[y] = worker[y]
  <2> HIDE DEF v
  <2> QED  BY <1>6, <1>9, <1>10
<1>12. PICK x \in Int : /\ buf' = [buf EXCEPT ![b].data = Append(@, x)]
                        /\ CopyUnit(w) => x = c.start + c.got
  <2>1. c.start + c.got \in Int /\ Stray \in Int  BY <1>4 DEF Stray
  <2>2. ~(CopyUnit(w) /\ RecopyUnit(w))  BY DEF CopyUnit, RecopyUnit, At
  <2> QED  BY <2>1, <2>2 DEF Writes, CopyUnit, RecopyUnit
<1> DEFINE u == [buf[b] EXCEPT !.data = Append(buf[b].data, x)]
<1>13. buf' = [buf EXCEPT ![b] = u]  BY <1>12
<1>14. Append(buf[b].data, x) \in Seq(Int) /\ Len(Append(buf[b].data, x)) = Len(buf[b].data) + 1
       /\ \A k \in 1 .. Len(buf[b].data) : Append(buf[b].data, x)[k] = buf[b].data[k]
       /\ Append(buf[b].data, x)[Len(buf[b].data) + 1] = x
  <2> HIDE DEF b
  <2> QED  BY <1>7, AppendProperties
<1>15. u \in BufRec /\ u.used = buf[b].used /\ u.closed = buf[b].closed /\ u.size = buf[b].size
       /\ u.r = buf[b].r /\ u.data = Append(buf[b].data, x)
  <2> HIDE DEF b
  <2> QED  BY <1>7, <1>14 DEF BufRec
<1>16. buf' \in [Bufs -> BufRec] /\ buf'[b] = u /\ \A y \in Bufs : y # b => buf'[y] = buf[y]
  <2> HIDE DEF u, b
  <2> QED  BY <1>4, <1>6, <1>13, <1>15
<1> HIDE DEF u, v
<1>17. /\ worker'[w].pc = worker[w].pc /\ worker'[w].ch.got = c.got + 1 /\ worker'[w].ch.id = c.id
       /\ worker'[w].ch.size = c.size /\ worker'[w].ch.start = c.start /\ worker'[w].ch.buf = c.buf
  BY <1>10, <1>11
<1>18. /\ buf'[b].used = buf[b].used /\ buf'[b].closed = buf[b].closed /\ buf'[b].size = buf[b].size
       /\ buf'[b].r = buf[b].r /\ Len(buf'[b].data) = Len(buf[b].data) + 1
       /\ \A k \in 1 .. Len(buf[b].data) : buf'[b].data[k] = buf[b].data[k]
       /\ CopyUnit(w) => buf'[b].data[Len(buf[b].data) + 1] = c.start + c.got
  <2> HIDE DEF b, c
  <2> QED  BY <1>12, <1>14, <1>15, <1>16
<1> QED  BY <1>2, <1>3, <1>4, <1>5, <1>8, <1>11, <1>16, <1>17, <1>18

\* A byte of the part arrives.
LEMMA CopyDoes ==
  ASSUME IInv, late # "stray", NEW w \in Workers, CopyUnit(w)
  PROVE  LET c == worker[w].ch  b == c.buf IN
         /\ open /\ Linked(c) /\ c \in Chunk /\ b \in Bufs
         /\ c.got < c.size /\ c.id \in Outstanding /\ BlockOf(c.id) = b
         /\ BlockHas(c.id, buf[b]) /\ Len(buf[b].data) < PartSize(c.id)
         /\ \A k \in 1 .. Len(buf[b].data) + 1 : buf'[b].data[k] = StartOf(c.id) + k - 1
<1> DEFINE c == worker[w].ch  b == c.buf
<1>1. TypeOK /\ StartOfNext /\ PhaseInv  BY DEF IInv
<1>2. c \in Chunk /\ c.id \in Ids /\ c.size \in Int /\ b \in Bufs /\ c.got \in Nat
  BY <1>1, Sizes, WorkerFields, ChunkFields
<1>3. /\ open /\ Holds(w) /\ \A k \in 1 .. Len(buf[b].data) : buf'[b].data[k] = buf[b].data[k]
      /\ buf'[b].data[Len(buf[b].data) + 1] = c.start + c.got
  BY WriteDoes DEF Writes
<1>4. DataInv /\ PlaceInv  BY <1>3 DEF IInv
<1>5. c.got < c.size  BY <1>2 DEF CopyUnit, Over
<1>6. Linked(c)
  <2>1. HeldOk(c)  BY <1>3, <1>4 DEF PlaceInv, HeldInv
  <2> QED  BY <1>2, <1>5, <2>1 DEF HeldOk
<1>7. c.id \in Outstanding /\ c.size = PartSize(c.id) /\ c.start = StartOf(c.id) /\ BlockOf(c.id) = b
      /\ c.got = Len(buf[b].data)
  BY <1>6 DEF Linked
<1>8. BlockHas(c.id, buf[b])  BY <1>4, <1>7 DEF DataInv
<1>9. c.id \in 0 .. maxPart - 1 /\ maxPart \in Nat  BY <1>1, <1>2, Sizes DEF Ids
<1>10. StartOf(c.id) \in Nat  BY <1>1, <1>9, Starts
<1>11. Len(buf[b].data) \in Nat  BY <1>1, <1>2, BlockFields
<1>12. \A k \in 1 .. Len(buf[b].data) + 1 : buf'[b].data[k] = StartOf(c.id) + k - 1
  <2>1. \A k \in 1 .. Len(buf[b].data) : buf[b].data[k] = StartOf(c.id) + k - 1
    BY <1>8 DEF BlockHas
  <2>2. c.start + c.got = StartOf(c.id) + (Len(buf[b].data) + 1) - 1  BY <1>7, <1>10, <1>11
  <2> DEFINE n == Len(buf[b].data)
  <2>3. \A k \in 1 .. n + 1 : k \in 1 .. n \/ k = n + 1  BY <1>11
  <2>4. buf'[b].data[n + 1] = StartOf(c.id) + (n + 1) - 1  BY <1>3, <2>2
  <2>5. \A k \in 1 .. n : buf'[b].data[k] = StartOf(c.id) + k - 1  BY <1>3, <2>1
  <2> HIDE DEF n, b, c
  <2> QED  BY <2>3, <2>4, <2>5 DEF n
<1> QED  BY <1>2, <1>3, <1>5, <1>6, <1>7, <1>8, <1>12

\* A worker dispatches a part, and a goroutine starts for it.
LEMMA StartsWorker ==
  ASSUME TypeOK, NEW w \in Workers, NEW v \in Workers, ~Live(v), worker[w].pc = "send",
         worker' = [worker EXCEPT ![w].pc = "sending", ![v].pc = "select"]
  PROVE  /\ v # w /\ worker' \in [Workers -> WorkerRec]
         /\ \A x \in Workers : x # w /\ x # v => worker'[x] = worker[x]
         /\ worker'[w].pc = "sending" /\ worker'[w].ch = worker[w].ch
         /\ worker'[v].pc = "select"
<1>1. v # w  BY DEF Live
<1>2. worker \in [Workers -> WorkerRec]  BY Types
<1> DEFINE a == [worker[w] EXCEPT !.pc = "sending"]  b == [worker[v] EXCEPT !.pc = "select"]
<1>3. worker' = [[worker EXCEPT ![w] = a] EXCEPT ![v] = b]  BY <1>1, <1>2
<1>4. worker[w] \in WorkerRec /\ worker[v] \in WorkerRec  BY <1>2
<1>5. a \in WorkerRec /\ a.pc = "sending" /\ a.ch = worker[w].ch  BY <1>4 DEF WorkerRec, WorkerPcs
<1>6. b \in WorkerRec /\ b.pc = "select"  BY <1>4 DEF WorkerRec, WorkerPcs
<1> HIDE DEF a, b
<1> QED  BY <1>1, <1>2, <1>3, <1>5, <1>6

LEMMA ReleaseDoes ==
  ASSUME TypeOK, StartOfNext, NEW w \in Workers, WorkerReleases(w)
  PROVE  /\ worker[w].pc = "exit" /\ worker' \in [Workers -> WorkerRec]
         /\ \A x \in Workers : x # w => worker'[x] = worker[x]
         /\ worker'[w].pc = "none"
<1>1. worker \in [Workers -> WorkerRec]  BY Types
<1>2. maxPart \in Nat \ {0} /\ len \in Nat /\ part \in Nat  BY Sizes
<1>3. NoChunk \in Chunk  BY <1>2 DEF NoChunk, Chunk, Ids, Bufs
<1> DEFINE v == [pc |-> "none", ch |-> NoChunk, retry |-> 0]
<1>4. v \in WorkerRec /\ v.pc = "none"  BY <1>3, DownloaderAssumption DEF WorkerRec, WorkerPcs
<1>5. worker' = [worker EXCEPT ![w] = v] /\ worker[w].pc = "exit"  BY DEF WorkerReleases, At
<1> HIDE DEF v
<1> QED  BY <1>1, <1>4, <1>5

-----------------------------------------------------------------------------
(* Types                                                                   *)

\* The request stays, and the parts go on where the last one ended.
LEMMA StartStep ==
  ASSUME IInv, [Next]_vars
  PROVE  StartOfNext' /\ len' = len /\ part' = part
<1>1. StartOfNext  BY DEF IInv
<1>2. [Dispatch]_partVars
  BY DEF Next, vars, WorkerStep, ReaderStep, DownloadStarts, ReaderSends, ReaderSendsNothing, ReaderSent,
         DownloadFails, ReaderPops, ReaderReads, ReaderStops, ReaderFinishes, ReaderCloses, Interrupt, ClientLeaves,
         WorkerTakes, WorkerLeaves, WorkerReleases, RequestAnswered, RequestRefused, RequestFails, DelayEnds,
         Overloaded, Requeue, WorkerSends, WorkerSendsNothing, WorkerSent, CopyUnit, CopyEnds, CopyFails,
         RecopyUnit, RecopyEnds, RecopyFails, SendDispatches
<1>3. len' = len /\ part' = part  BY <1>2 DEF Dispatch, partVars
<1> QED  BY <1>1, <1>2, <1>3, DispatchStart

\* What a late failure has led to stays, and only a stray byte is stray.
LEMMA LateStep ==
  ASSUME [Next]_vars
  PROVE  /\ late' # "stray" => late # "stray" /\ \A w \in Workers : ~RecopyUnit(w)
         /\ late' = "none" => late = "none"
BY DEF Next, vars, WorkerStep, ReaderStep, DownloadStarts, ReaderSends, ReaderSendsNothing, ReaderSent,
       DownloadFails, ReaderPops, ReaderReads, ReaderStops, ReaderFinishes, ReaderCloses, Interrupt, ClientLeaves,
       WorkerTakes, WorkerLeaves, WorkerReleases, RequestAnswered, RequestRefused, RequestFails, DelayEnds,
       Overloaded, Requeue, WorkerSends, WorkerSendsNothing, WorkerSent, CopyUnit, CopyEnds, CopyFails,
       RecopyUnit, RecopyEnds, RecopyFails

\* What is closed is closed for every block.
LEMMA ClosesBlocks ==
  ASSUME TypeOK, StartOfNext, NEW F \in [Bufs -> BOOLEAN],
         buf' = [b \in Bufs |-> [buf[b] EXCEPT !.closed = F[b]]]
  PROVE  /\ buf' \in [Bufs -> BufRec]
         /\ \A b \in Bufs : buf'[b].closed = F[b] /\ buf'[b].used = buf[b].used
<1>1. \A b \in Bufs : buf[b] \in BufRec  BY Types
<1>2. \A b \in Bufs : /\ [buf[b] EXCEPT !.closed = F[b]] \in BufRec
                      /\ [buf[b] EXCEPT !.closed = F[b]].closed = F[b]
                      /\ [buf[b] EXCEPT !.closed = F[b]].used = buf[b].used
  BY <1>1 DEF BufRec
<1> QED  BY <1>2

LEMMA TypeStep ==
  ASSUME IInv, [Next]_vars
  PROVE  TypeOK'
<1>1. TypeOK /\ StartOfNext /\ PhaseInv  BY DEF IInv
<1>2. len' = len /\ part' = part /\ StartOfNext'  BY StartStep
<1>3. /\ maxPart' = maxPart /\ Concurrent' = Concurrent /\ Bufs' = Bufs /\ Chunk' = Chunk /\ BufRec' = BufRec
      /\ WorkerRec' = WorkerRec /\ RdRec' = RdRec
  BY <1>2, SameRequest
<1>4. /\ mu \in Workers \cup {"free", "reader"}
      /\ ctx \in {"live", "client", "fatal", "closed"}
      /\ limit \in Nat /\ open \in BOOLEAN /\ conc \in Int
      /\ chan \in Seq(Chunk) /\ Len(chan) <= Concurrent
      /\ bufMap \in [-1 .. maxPart -> Bufs \cup {NoBuf}]
      /\ buf \in [Bufs -> BufRec]
      /\ worker \in [Workers -> WorkerRec]
      /\ rd \in RdRec
      /\ out \in Seq(Int)
      /\ faults \in 0 .. MaxFaults
      /\ late \in {"none", "resumed", "stray"}
  BY <1>1, Types
<1>5. len \in Nat /\ part \in Nat /\ maxPart \in Nat /\ next \in 0 .. maxPart /\ Concurrent \in Nat  BY <1>1, Sizes
<1> DEFINE Rest ==
      /\ mu' \in Workers \cup {"free", "reader"}
      /\ ctx' \in {"live", "client", "fatal", "closed"}
      /\ limit' \in Nat /\ open' \in BOOLEAN /\ conc' \in Int
      /\ chan' \in Seq(Chunk) /\ Len(chan') <= Concurrent
      /\ bufMap' \in [-1 .. maxPart -> Bufs \cup {NoBuf}]
      /\ buf' \in [Bufs -> BufRec]
      /\ worker' \in [Workers -> WorkerRec]
      /\ rd' \in RdRec
      /\ out' \in Seq(Int)
      /\ faults' \in 0 .. MaxFaults
      /\ late' \in {"none", "resumed", "stray"}
<1>6. SUFFICES Rest  BY <1>2, <1>3 DEF TypeOK, BufRec, WorkerRec, WorkerPcs, RdRec
<1>7. Fault => faults' \in 0 .. MaxFaults  BY <1>4, DownloaderAssumption DEF Fault
<1>8. \A c : Cancel(c) /\ c \in {"fatal", "closed"} => ctx' \in {"live", "client", "fatal", "closed"}
  BY <1>4 DEF Cancel
<1>9. ASSUME NEW l \in RdPcs, rd' = [rd EXCEPT !.pc = l] PROVE rd' \in RdRec
  BY <1>1, <1>2, <1>9, ReaderGoto DEF ReaderGoes
<1>10. ASSUME NEW w \in Workers, NEW l \in WorkerPcs, Goto(w, l) PROVE worker' \in [Workers -> WorkerRec]
  BY <1>1, <1>10, GotoMoves DEF Moves
<1>11. ASSUME NEW new \in BOOLEAN, mu # "free", SendQueues(new) \/ SendCancelled(new)
       PROVE  limit' \in Nat /\ chan' \in Seq(Chunk) /\ Len(chan') <= Concurrent
  <2>1. CASE SendQueues(new)
    <3>1. PICK c \in Chunk : chan' = Append(chan, c)  BY <1>11, <2>1, QueuesDoes
    <3>2. Len(chan) < Concurrent /\ limit' = limit  BY <1>11, <2>1, QueuesDoes
    <3> QED  BY <1>4, <1>5, <3>1, <3>2, QueueAppend
  <2>2. CASE SendCancelled(new)
    BY <1>4, <2>2 DEF SendCancelled
  <2> QED  BY <1>11, <2>1, <2>2
<1>12. ASSUME NEW p \in Workers \cup {"reader"}, NEW new \in BOOLEAN, SendDispatches(p, new)
       PROVE  /\ mu' \in Workers \cup {"free", "reader"} /\ limit' \in Nat /\ conc' \in Int
              /\ bufMap' \in [-1 .. maxPart -> Bufs \cup {NoBuf}] /\ buf' \in [Bufs -> BufRec]
  <2>1. limit' \in Nat /\ conc' \in Int  BY <1>4, <1>12 DEF SendDispatches
  <2> QED  BY <1>12, <2>1, DispatchDoes
<1>13. CASE DownloadStarts
  <2>1. limit' \in Nat  BY <1>4, <1>13 DEF DownloadStarts
  <2>2. rd' = [rd EXCEPT !.pc = "error"] \/ rd' = [rd EXCEPT !.pc = "send"]  BY <1>13 DEF DownloadStarts
  <2>3. rd' \in RdRec  BY <1>9, <2>2 DEF RdPcs
  <2> QED  BY <1>4, <1>13, <2>1, <2>3 DEF DownloadStarts
<1>14. CASE ReaderSends
  <2>1. SendDispatches("reader", next = 0) /\ rd' = [rd EXCEPT !.pc = "sending"]  BY <1>14 DEF ReaderSends
  <2>2. rd' \in RdRec  BY <1>9, <2>1 DEF RdPcs
  <2>3. worker' \in [Workers -> WorkerRec]
    <3>1. UNCHANGED worker \/ \E w \in Workers : Goto(w, "select")  BY <1>14 DEF ReaderSends
    <3> QED  BY <1>4, <1>10, <3>1 DEF WorkerPcs
  <2>4. (next = 0) \in BOOLEAN  OBVIOUS
  <2>5. /\ mu' \in Workers \cup {"free", "reader"} /\ limit' \in Nat /\ conc' \in Int
        /\ bufMap' \in [-1 .. maxPart -> Bufs \cup {NoBuf}] /\ buf' \in [Bufs -> BufRec]
    BY <1>12, <2>1, <2>4
  <2> QED  BY <1>4, <1>14, <2>2, <2>3, <2>5 DEF ReaderSends
<1>15. CASE ReaderSendsNothing
  <2>1. rd' = [rd EXCEPT !.pc = "undo"] \/ rd' = [rd EXCEPT !.pc = "pop"]  BY <1>15 DEF ReaderSendsNothing
  <2>2. rd' \in RdRec  BY <1>9, <2>1 DEF RdPcs
  <2>3. faults' \in 0 .. MaxFaults  BY <1>4, <1>7, <1>15 DEF ReaderSendsNothing, SendRefused
  <2> QED  BY <1>4, <1>15, <2>2, <2>3 DEF ReaderSendsNothing
<1>16. CASE ReaderSent
  <2>1. rd' = [rd EXCEPT !.pc = "undo"] \/ rd' = [rd EXCEPT !.pc = "pop"]  BY <1>16 DEF ReaderSent
  <2>2. rd' \in RdRec  BY <1>9, <2>1 DEF RdPcs
  <2>3. mu = "reader"  BY <1>1, <1>16 DEF ReaderSent, PhaseInv
  <2>4. limit' \in Nat /\ chan' \in Seq(Chunk) /\ Len(chan') <= Concurrent
    BY <1>11, <1>16, <2>3 DEF ReaderSent
  <2> QED  BY <1>4, <1>16, <2>2, <2>4 DEF ReaderSent
<1>17. CASE DownloadFails
  <2>1. rd' = [rd EXCEPT !.pc = "nil"] \/ rd' = [rd EXCEPT !.pc = "error"]  BY <1>17 DEF DownloadFails
  <2>2. rd' \in RdRec  BY <1>9, <2>1 DEF RdPcs
  <2> DEFINE F == [b \in Bufs |-> buf[b].used]
  <2>3. F \in [Bufs -> BOOLEAN]  BY <1>1, BlockFields
  <2>4. buf' = [b \in Bufs |-> [buf[b] EXCEPT !.closed = F[b]]]  BY <1>17 DEF DownloadFails
  <2> HIDE DEF F
  <2>5. buf' \in [Bufs -> BufRec]  BY <1>1, <2>3, <2>4, ClosesBlocks
  <2>6. bufMap' \in [-1 .. maxPart -> Bufs \cup {NoBuf}]  BY <1>17 DEF DownloadFails
  <2>7. limit' \in Nat /\ conc' \in Int /\ ctx' \in {"live", "client", "fatal", "closed"}
    BY <1>4, <1>8, <1>17 DEF DownloadFails
  <2> QED  BY <1>4, <1>17, <2>2, <2>5, <2>6, <2>7 DEF DownloadFails
<1>18. CASE ReaderPops
  BY <1>4, <1>18, PopDoes DEF ReaderPops
<1>19. ASSUME NEW n \in 1 .. part, ReaderReads(n) PROVE Rest
  <2>1. rd' \in RdRec /\ buf' \in [Bufs -> BufRec]  BY <1>4, <1>19, ReadDoes
  <2>2. out' \in Seq(Int)
    <3> DEFINE d == buf[rd.cur].data  r == buf[rd.cur].r
    <3>1. d \in Seq(Int) /\ r \in Nat /\ r + n <= Len(d) /\ out' = out \o SubSeq(d, r + 1, r + n)
      <4>1. rd.cur \in Bufs /\ r + n <= Len(d) /\ out' = out \o SubSeq(d, r + 1, r + n)  BY <1>19, ReadDoes
      <4>2. d \in Seq(Int) /\ r \in 0 .. part  BY <1>1, <4>1, BlockFields
      <4> QED  BY <4>1, <4>2
    <3> HIDE DEF d, r
    <3>2. SubSeq(d, r + 1, r + n) \in Seq(Int)
      <4>1. \A i \in r + 1 .. r + n : d[i] \in Int
        <5>1. Len(d) \in Nat /\ n \in Nat  BY <1>5, <3>1, LenProperties
        <5>2. \A i \in r + 1 .. r + n : i \in 1 .. Len(d)  BY <3>1, <5>1
        <5>3. \A i \in 1 .. Len(d) : d[i] \in Int  BY <3>1, ElementOfSeq
        <5> QED  BY <5>2, <5>3
      <4> QED  BY <3>1, <4>1, SubSeqProperties
    <3> QED  BY <1>4, <3>1, <3>2, ConcatProperties
  <2> QED  BY <1>4, <1>19, <2>1, <2>2 DEF ReaderReads
<1>20. CASE ReaderStops
  <2>1. rd' = [rd EXCEPT !.pc = "eof"] \/ rd' = [rd EXCEPT !.pc = "failed"]  BY <1>20 DEF ReaderStops
  <2>2. rd' \in RdRec  BY <1>9, <2>1 DEF RdPcs
  <2> QED  BY <1>4, <1>20, <2>2 DEF ReaderStops
<1>21. CASE ReaderFinishes
  <2>1. rd' \in RdRec /\ bufMap' \in [-1 .. maxPart -> Bufs \cup {NoBuf}] /\ buf' \in [Bufs -> BufRec]
    BY <1>4, <1>21, FinishDoes DEF ReaderGoes
  <2> QED  BY <1>4, <1>21, <2>1 DEF ReaderFinishes
<1>22. CASE ReaderCloses
  <2>1. rd' \in RdRec  BY <1>9, <1>22 DEF ReaderCloses, RdPcs
  <2> QED  BY <1>4, <1>8, <1>22, <2>1 DEF ReaderCloses
<1>23. CASE Interrupt
  <2> DEFINE F == [b \in Bufs |-> buf[b].closed \/ \E i \in -1 .. maxPart : bufMap[i] = b]
  <2>1. F \in [Bufs -> BOOLEAN]  BY <1>1, BlockFields
  <2>2. buf' = [b \in Bufs |-> [buf[b] EXCEPT !.closed = F[b]]]  BY <1>23 DEF Interrupt
  <2> HIDE DEF F
  <2>3. buf' \in [Bufs -> BufRec]  BY <1>1, <2>1, <2>2, ClosesBlocks
  <2>4. bufMap' \in [-1 .. maxPart -> Bufs \cup {NoBuf}] /\ conc' \in Int  BY <1>4, <1>23 DEF Interrupt
  <2>5. rd' \in RdRec  BY <1>4, <1>23 DEF Interrupt, RdRec
  <2> QED  BY <1>4, <1>23, <2>3, <2>4, <2>5 DEF Interrupt
<1>24. CASE ClientLeaves
  BY <1>4, <1>24 DEF ClientLeaves
<1>25. ASSUME NEW w \in Workers, WorkerStep(w) PROVE Rest
  <2>1. CASE WorkerTakes(w)
    <3>1. worker' \in [Workers -> WorkerRec] /\ chan' \in Seq(Chunk) /\ Len(chan') <= Concurrent
      BY <1>1, <1>4, <1>5, <2>1, TakeDoes
    <3> QED  BY <1>4, <2>1, <3>1 DEF WorkerTakes
  <2>2. CASE WorkerLeaves(w)
    <3>1. worker' \in [Workers -> WorkerRec]  BY <1>10, <2>2 DEF WorkerLeaves, WorkerPcs
    <3> QED  BY <1>4, <2>2, <3>1 DEF WorkerLeaves
  <2>3. CASE WorkerReleases(w)
    <3>1. worker' \in [Workers -> WorkerRec]  BY <1>1, <2>3, ReleaseDoes
    <3>2. limit' \in Nat  BY <1>4, <2>3 DEF WorkerReleases
    <3> QED  BY <1>4, <2>3, <3>1, <3>2 DEF WorkerReleases
  <2>4. CASE RequestAnswered(w)
    <3>1. worker' \in [Workers -> WorkerRec]  BY <1>10, <2>4 DEF RequestAnswered, WorkerPcs
    <3> QED  BY <1>4, <2>4, <3>1 DEF RequestAnswered
  <2>5. CASE RequestRefused(w)
    <3>1. Goto(w, "delay") \/ Goto(w, "overload")  BY <2>5 DEF RequestRefused
    <3>2. worker' \in [Workers -> WorkerRec]  BY <1>10, <3>1 DEF WorkerPcs
    <3> QED  BY <1>4, <1>7, <2>5, <3>2 DEF RequestRefused
  <2>6. CASE RequestFails(w)
    <3>1. worker' \in [Workers -> WorkerRec]  BY <1>10, <2>6 DEF RequestFails, WorkerPcs
    <3>2. faults' \in 0 .. MaxFaults  BY <1>4, <1>7, <2>6 DEF RequestFails
    <3> QED  BY <1>4, <1>8, <2>6, <3>1, <3>2 DEF RequestFails
  <2>7. CASE DelayEnds(w)
    <3>1. worker' \in [Workers -> WorkerRec] /\ ctx' \in {"live", "client", "fatal", "closed"}
      BY <1>1, <2>7, RetryMoves DEF DelayEnds, Moves
    <3> QED  BY <1>4, <2>7, <3>1 DEF DelayEnds
  <2>8. CASE Overloaded(w)
    <3>1. Goto(w, "requeue") \/ Goto(w, "request") \/ Goto(w, "exit")  BY <2>8 DEF Overloaded
    <3>2. worker' \in [Workers -> WorkerRec]  BY <1>10, <3>1 DEF WorkerPcs
    <3>3. conc' \in Int  BY <1>4, <2>8 DEF Overloaded
    <3> QED  BY <1>4, <2>8, <3>2, <3>3 DEF Overloaded
  <2>9. CASE Requeue(w)
    <3>1. Goto(w, "exit") \/ Goto(w, "panic")  BY <2>9 DEF Requeue
    <3>2. worker' \in [Workers -> WorkerRec]  BY <1>10, <3>1 DEF WorkerPcs
    <3>3. chan' \in Seq(Chunk) /\ Len(chan') <= Concurrent
      <4>1. UNCHANGED chan \/ (Len(chan) < Concurrent /\ chan' = Append(chan, worker[w].ch))
        BY <2>9 DEF Requeue, Capacity
      <4>2. worker[w].ch \in Chunk  BY <1>1, WorkerFields
      <4>3. /\ Append(chan, worker[w].ch) \in Seq(Chunk) /\ Len(chan) \in Nat
            /\ Len(Append(chan, worker[w].ch)) = Len(chan) + 1
        BY <1>4, <4>2, QueueAppend
      <4>4. CASE UNCHANGED chan  BY <1>4, <4>4
      <4>5. CASE Len(chan) < Concurrent /\ chan' = Append(chan, worker[w].ch)
        <5>1. Len(chan') <= Concurrent  BY <1>5, <4>3, <4>5
        <5> QED  BY <4>3, <4>5, <5>1
      <4> QED  BY <4>1, <4>4, <4>5
    <3> QED  BY <1>4, <2>9, <3>2, <3>3 DEF Requeue
  <2>10. CASE WorkerSends(w)
    <3>1. SendDispatches(w, TRUE) /\ worker[w].pc = "send"  BY <2>10 DEF WorkerSends, At
    <3>2. worker' \in [Workers -> WorkerRec]
      <4>1. PICK v \in Workers : ~Live(v) /\ worker' = [worker EXCEPT ![w].pc = "sending", ![v].pc = "select"]
        BY <2>10 DEF WorkerSends
      <4> QED  BY <1>1, <3>1, <4>1, StartsWorker
    <3>3. /\ mu' \in Workers \cup {"free", "reader"} /\ limit' \in Nat /\ conc' \in Int
          /\ bufMap' \in [-1 .. maxPart -> Bufs \cup {NoBuf}] /\ buf' \in [Bufs -> BufRec]
      BY <1>12, <3>1
    <3> QED  BY <1>4, <2>10, <3>2, <3>3 DEF WorkerSends
  <2>11. CASE WorkerSendsNothing(w)
    <3>1. worker' \in [Workers -> WorkerRec]  BY <1>10, <2>11 DEF WorkerSendsNothing, Receive, WorkerPcs
    <3>2. faults' \in 0 .. MaxFaults  BY <1>4, <1>7, <2>11 DEF WorkerSendsNothing, SendRefused
    <3> QED  BY <1>4, <2>11, <3>1, <3>2 DEF WorkerSendsNothing
  <2>12. CASE WorkerSent(w)
    <3>1. worker' \in [Workers -> WorkerRec]  BY <1>10, <2>12 DEF WorkerSent, Receive, WorkerPcs
    <3>2. mu = w /\ mu # "free"  BY <1>1, <2>12, DownloaderAssumption DEF WorkerSent, PhaseInv
    <3>3. limit' \in Nat /\ chan' \in Seq(Chunk) /\ Len(chan') <= Concurrent
      BY <1>11, <2>12, <3>2 DEF WorkerSent
    <3> QED  BY <1>4, <2>12, <3>1, <3>3 DEF WorkerSent
  <2>13. CASE Writes(w)
    <3>1. worker' \in [Workers -> WorkerRec] /\ buf' \in [Bufs -> BufRec]  BY <2>13, WriteDoes
    <3> QED  BY <1>4, <2>13, <3>1 DEF Writes, CopyUnit, RecopyUnit
  <2>14. CASE CopyEnds(w)
    <3>1. worker' \in [Workers -> WorkerRec]  BY <1>10, <2>14 DEF CopyEnds, WorkerPcs
    <3> QED  BY <1>4, <2>14, <3>1 DEF CopyEnds
  <2>15. CASE CopyFails(w)
    <3>1. worker' \in [Workers -> WorkerRec] /\ ctx' \in {"live", "client", "fatal", "closed"}
      BY <1>1, <2>15, RetryMoves DEF CopyFails, Moves
    <3>2. faults' \in 0 .. MaxFaults  BY <1>4, <1>7, <2>15 DEF CopyFails
    <3>3. late' \in {"none", "resumed", "stray"}  BY <1>4, <2>15 DEF CopyFails
    <3> QED  BY <1>4, <2>15, <3>1, <3>2, <3>3 DEF CopyFails
  <2>16. CASE RecopyEnds(w)
    <3>1. worker' \in [Workers -> WorkerRec]  BY <1>10, <2>16 DEF RecopyEnds, WorkerPcs
    <3> QED  BY <1>4, <2>16, <3>1 DEF RecopyEnds
  <2>17. CASE RecopyFails(w)
    <3>1. worker' \in [Workers -> WorkerRec] /\ ctx' \in {"live", "client", "fatal", "closed"}
      BY <1>1, <2>17, RetryMoves DEF RecopyFails, Moves
    <3>2. faults' \in 0 .. MaxFaults  BY <1>4, <1>7, <2>17 DEF RecopyFails
    <3> QED  BY <1>4, <2>17, <3>1, <3>2 DEF RecopyFails
  <2> QED
    BY <1>25, <2>1, <2>2, <2>3, <2>4, <2>5, <2>6, <2>7, <2>8, <2>9, <2>10, <2>11, <2>12, <2>13, <2>14, <2>15, <2>16,
       <2>17 DEF WorkerStep, Writes
<1>26. CASE UNCHANGED vars
  BY <1>4, <1>26 DEF vars
<1> HIDE DEF Rest
<1> QED
  BY <1>13, <1>14, <1>15, <1>16, <1>17, <1>18, <1>19, <1>20, <1>21, <1>22, <1>23, <1>24, <1>25, <1>26 DEF Next, ReaderStep

-----------------------------------------------------------------------------
(* Where the processes are                                                 *)

\* A step of one worker, which does not take or give up d.mu.
WorkerOnly(w) ==
  /\ worker[w].pc \notin {"none", "sending"} /\ worker'[w].pc # "sending"
  /\ \A x \in Workers : x # w => worker'[x] = worker[x]
  /\ UNCHANGED <<mu, open, rd, next, len, part>>
  /\ ctx' = "live" => ctx = "live"

LEMMA PhaseWorker ==
  ASSUME PhaseInv, NEW w \in Workers, WorkerOnly(w)
  PROVE  PhaseInv'
<1>1. next # 0  BY DEF PhaseInv, Live, WorkerOnly
<1>2. maxPart' = maxPart  BY SameRequest DEF WorkerOnly
<1>3. \A x \in Workers : At(x, "sending")' <=> At(x, "sending")  BY DEF At, WorkerOnly
<1> QED  BY <1>1, <1>2, <1>3 DEF PhaseInv, WorkerOnly

LEMMA WorkerOnlySteps ==
  ASSUME TypeOK, StartOfNext, NEW w \in Workers,
         WorkerTakes(w) \/ WorkerLeaves(w) \/ WorkerReleases(w) \/ RequestAnswered(w) \/ RequestRefused(w)
           \/ RequestFails(w) \/ DelayEnds(w) \/ Overloaded(w) \/ Requeue(w) \/ WorkerSendsNothing(w)
           \/ CopyEnds(w) \/ CopyFails(w) \/ RecopyEnds(w) \/ RecopyFails(w)
  PROVE  WorkerOnly(w)
<1>1. ASSUME NEW l \in WorkerPcs, Goto(w, l)
      PROVE  worker'[w].pc = l /\ \A x \in Workers : x # w => worker'[x] = worker[x]
  BY <1>1, GotoMoves DEF Moves
<1>2. CASE WorkerTakes(w)
  BY <1>2, TakeDoes DEF WorkerTakes, WorkerOnly, partVars
<1>3. CASE WorkerLeaves(w)
  BY <1>1, <1>3 DEF WorkerLeaves, WorkerOnly, partVars, At, WorkerPcs
<1>4. CASE WorkerReleases(w)
  BY <1>4, ReleaseDoes DEF WorkerReleases, WorkerOnly, partVars
<1>5. CASE RequestAnswered(w)
  BY <1>1, <1>5 DEF RequestAnswered, WorkerOnly, partVars, At, WorkerPcs
<1>6. CASE RequestRefused(w)
  <2>1. Goto(w, "delay") \/ Goto(w, "overload")  BY <1>6 DEF RequestRefused
  <2> QED  BY <1>1, <1>6, <2>1 DEF RequestRefused, WorkerOnly, partVars, At, WorkerPcs
<1>7. CASE RequestFails(w)
  BY <1>1, <1>7 DEF RequestFails, WorkerOnly, partVars, At, WorkerPcs, Cancel
<1>8. CASE DelayEnds(w)
  BY <1>8, RetryMoves DEF DelayEnds, WorkerOnly, partVars, At, Moves
<1>9. CASE Overloaded(w)
  <2>1. Goto(w, "requeue") \/ Goto(w, "request") \/ Goto(w, "exit")  BY <1>9 DEF Overloaded
  <2> QED  BY <1>1, <1>9, <2>1 DEF Overloaded, WorkerOnly, partVars, At, WorkerPcs
<1>10. CASE Requeue(w)
  <2>1. Goto(w, "exit") \/ Goto(w, "panic")  BY <1>10 DEF Requeue
  <2> QED  BY <1>1, <1>10, <2>1 DEF Requeue, WorkerOnly, partVars, At, WorkerPcs
<1>11. CASE WorkerSendsNothing(w)
  BY <1>1, <1>11 DEF WorkerSendsNothing, Receive, WorkerOnly, partVars, At, WorkerPcs
<1>12. CASE CopyEnds(w)
  BY <1>1, <1>12 DEF CopyEnds, WorkerOnly, partVars, At, WorkerPcs
<1>13. CASE CopyFails(w)
  BY <1>13, RetryMoves DEF CopyFails, WorkerOnly, partVars, At, Moves
<1>14. CASE RecopyEnds(w)
  BY <1>1, <1>14 DEF RecopyEnds, WorkerOnly, partVars, At, WorkerPcs
<1>15. CASE RecopyFails(w)
  BY <1>15, RetryMoves DEF RecopyFails, WorkerOnly, partVars, At, Moves
<1> QED  BY <1>2, <1>3, <1>4, <1>5, <1>6, <1>7, <1>8, <1>9, <1>10, <1>11, <1>12, <1>13, <1>14, <1>15

\* A step of the reader that moves no worker, dispatches no part and holds no lock
LEMMA PhaseReader ==
  ASSUME IInv, UNCHANGED <<len, part, next, mu, worker>>, rd.pc # "sending", rd'.pc # "sending",
         rd'.pc = "start" => rd.pc = "start",
         next = 0 => rd'.pc \in {"start", "send", "undo", "error", "nil"},
         rd'.pos <= next,
         rd'.pc \in {"pop", "read", "failed"} => rd'.pos < next,
         rd'.pc \in {"send", "finish"} => rd'.pos < maxPart,
         ctx' = "live" => open', open' => open,
         ~open' => rd'.pc \in {"closed", "error", "nil"},
         rd'.pc = "interrupt" => ctx' # "live", rd'.pc = "eof" => rd'.pos = maxPart,
         mu # "free" => open' /\ rd'.pos < next
  PROVE  PhaseInv'
<1>1. PhaseInv  BY DEF IInv
<1>2. maxPart' = maxPart  BY SameRequest
<1>3. \A x \in Workers : Live(x)' = Live(x) /\ At(x, "sending")' = At(x, "sending")  BY DEF Live, At
<1> QED  BY <1>1, <1>2, <1>3 DEF PhaseInv

LEMMA PhaseStep ==
  ASSUME IInv, [Next]_vars
  PROVE  PhaseInv'
<1>1. TypeOK /\ StartOfNext /\ PhaseInv  BY DEF IInv
<1>2. len' = len /\ part' = part /\ TypeOK'  BY StartStep, TypeStep
<1>3. maxPart' = maxPart  BY <1>2, SameRequest
<1>4. next \in 0 .. maxPart /\ maxPart \in Nat /\ rd.pos \in 0 .. maxPart  BY <1>1, Sizes, ReaderFields
<1>5. ASSUME NEW l \in RdPcs, rd' = [rd EXCEPT !.pc = l] PROVE rd'.pc = l /\ rd'.pos = rd.pos /\ rd'.cur = rd.cur
  BY <1>1, <1>2, <1>5, ReaderGoto DEF ReaderGoes
<1>6. "free" \notin Workers /\ "reader" \notin Workers  BY DownloaderAssumption
<1>7. \A c : Cancel(c) /\ c \in {"fatal", "closed"} => ctx' # "live"  BY DEF Cancel
<1>8. CASE DownloadStarts
  <2>1. rd'.pc \in {"error", "send"} /\ rd'.pos = rd.pos
    <3>1. rd' = [rd EXCEPT !.pc = "error"] \/ rd' = [rd EXCEPT !.pc = "send"]  BY <1>8 DEF DownloadStarts
    <3> QED  BY <1>5, <3>1 DEF RdPcs
  <2>2. rd.pc = "start" /\ next = 0 /\ open  BY <1>1, <1>8 DEF DownloadStarts, PhaseInv
  <2>3. UNCHANGED <<len, part, next, mu, worker, ctx, open>>  BY <1>8 DEF DownloadStarts, partVars
  <2>4. rd.pos = 0 /\ maxPart >= 2  BY <1>1, <1>4, <2>2, Sizes DEF PhaseInv
  <2> QED  BY <1>1, <1>4, <2>1, <2>2, <2>3, <2>4, PhaseReader DEF PhaseInv
<1>9. CASE ReaderSends
  <2>1. SendDispatches("reader", next = 0) /\ rd' = [rd EXCEPT !.pc = "sending"] /\ UNCHANGED <<ctx, open>>
        /\ rd.pc = "send" /\ mu = "free"
    BY <1>9 DEF ReaderSends
  <2>2. rd'.pc = "sending" /\ rd'.pos = rd.pos  BY <1>5, <2>1 DEF RdPcs
  <2>3. open /\ next' = next + 1 /\ mu' = "reader"
    <3>1. (next = 0) \in BOOLEAN  OBVIOUS
    <3> QED  BY <2>1, <3>1, DispatchDoes
  <2>4. \A x \in Workers : ~At(x, "sending")'
    <3>1. \A x \in Workers : worker[x].pc # "sending"  BY <1>1, <1>6, <2>1 DEF PhaseInv, At
    <3>2. UNCHANGED worker \/ \E w \in Workers : Goto(w, "select")  BY <1>9 DEF ReaderSends
    <3>3. ASSUME NEW w \in Workers, Goto(w, "select") PROVE Moves(w, {"select"})
      BY <1>1, <3>3, GotoMoves DEF WorkerPcs
    <3>4. \A x \in Workers : worker'[x].pc # "sending"  BY <3>1, <3>2, <3>3 DEF Moves
    <3> QED  BY <3>4 DEF At
  <2> QED  BY <1>1, <1>3, <1>4, <1>6, <2>1, <2>2, <2>3, <2>4 DEF PhaseInv
<1>10. CASE ReaderSendsNothing
  <2>1. rd' = [rd EXCEPT !.pc = IF next = 0 THEN "undo" ELSE "pop"] /\ rd.pc = "send" /\ mu = "free"
        /\ UNCHANGED <<len, part, next, mu, worker, ctx, open>>
    BY <1>10 DEF ReaderSendsNothing, partVars
  <2>2. CASE next = 0
    <3>1. rd'.pc = "undo" /\ rd'.pos = rd.pos  BY <1>5, <2>1, <2>2 DEF RdPcs
    <3> QED  BY <1>1, <2>1, <2>2, <3>1, PhaseReader DEF PhaseInv
  <2>3. CASE next # 0
    <3>1. rd'.pc = "pop" /\ rd'.pos = rd.pos  BY <1>5, <2>1, <2>3 DEF RdPcs
    <3>2. open  BY <1>1, <2>1 DEF PhaseInv
    <3>3. rd.pos < next
      <4>1. CASE next = maxPart  BY <1>1, <2>1, <4>1 DEF PhaseInv
      <4>2. CASE next # maxPart
        <5>1. BlockInv  BY <3>2 DEF IInv
        <5>2. pos # len /\ pos <= len  BY <1>1, <4>2, CoveredAtMaxPart DEF PartsCoverRange
        <5>3. ~NothingToSend(next = 0)
          <6>1. len \in Nat /\ pos \in Nat  BY <1>1, <1>4, Sizes, Starts
          <6> QED  BY <2>3, <3>2, <5>2, <6>1 DEF NothingToSend
        <5>4. bufMap[next] = NoBuf  BY <1>10, <2>3, <5>3 DEF ReaderSendsNothing, SendRefused
        <5> QED  BY <1>4, <2>1, <2>3, <5>1, <5>4 DEF BlockInv
      <4> QED  BY <4>1, <4>2
    <3> QED  BY <1>1, <2>1, <2>3, <3>1, <3>2, <3>3, PhaseReader DEF PhaseInv
  <2> QED  BY <2>2, <2>3
<1>11. CASE ReaderSent
  <2>1. rd.pc = "sending" /\ mu' = "free" /\ UNCHANGED <<len, part, next, worker, ctx, open>>
    BY <1>11 DEF ReaderSent, partVars
  <2>2. mu = "reader" /\ open /\ rd.pos < next  BY <1>1, <2>1 DEF PhaseInv
  <2>3. rd'.pc \in {"pop", "undo"} /\ rd'.pos = rd.pos
    <3>1. rd' = [rd EXCEPT !.pc = "undo"] \/ rd' = [rd EXCEPT !.pc = "pop"]  BY <1>11 DEF ReaderSent
    <3> QED  BY <1>5, <3>1 DEF RdPcs
  <2>4. \A x \in Workers : Live(x)' = Live(x) /\ At(x, "sending")' = At(x, "sending")  BY <2>1 DEF Live, At
  <2> QED  BY <1>1, <1>3, <1>4, <1>6, <2>1, <2>2, <2>3, <2>4 DEF PhaseInv
<1>12. CASE DownloadFails
  <2>1. rd'.pc \in {"nil", "error"} /\ rd'.pos = rd.pos
    <3>1. rd' = [rd EXCEPT !.pc = "nil"] \/ rd' = [rd EXCEPT !.pc = "error"]  BY <1>12 DEF DownloadFails
    <3> QED  BY <1>5, <3>1 DEF RdPcs
  <2>2. rd.pc = "undo" /\ mu = "free" /\ open' = FALSE /\ ctx' # "live" /\ UNCHANGED <<len, part, next, mu, worker>>
    BY <1>7, <1>12 DEF DownloadFails, partVars
  <2> QED  BY <1>1, <2>1, <2>2, PhaseReader DEF PhaseInv
<1>13. CASE ReaderPops
  <2>1. rd.pc = "pop" /\ mu = "free" /\ UNCHANGED <<len, part, next, mu, worker, ctx, open>>
    BY <1>13 DEF ReaderPops, partVars
  <2>2. open /\ rd'.pc = "read" /\ rd'.pos = rd.pos /\ rd.pos < next  BY <1>13, PopDoes
  <2> QED  BY <1>1, <1>4, <2>1, <2>2, PhaseReader DEF PhaseInv
<1>14. ASSUME NEW n \in 1 .. part, ReaderReads(n) PROVE PhaseInv'
  <2>1. UNCHANGED <<len, part, next, mu, worker, ctx, open>>  BY <1>14 DEF ReaderReads, partVars
  <2>2. /\ open /\ ctx = "live" /\ rd.pc = "read" /\ rd.pos < next /\ rd.pos \in 0 .. maxPart - 1
        /\ rd.pos \in Outstanding /\ BlockOf(rd.pos) = rd.cur /\ rd.cur \in Bufs
    BY <1>14, ReadDoes
  <2>3. CASE rd' = rd
    BY <1>1, <1>4, <2>1, <2>2, <2>3, PhaseReader DEF PhaseInv
  <2>4. CASE /\ PartFull(rd.pos) /\ rd'.pos = rd.pos + 1
             /\ rd'.pc = IF rd.pos + 1 >= maxPart THEN "eof" ELSE "finish"
    <3>1. mu # "free" => rd.pos + 1 < next
      <4>1. SUFFICES ASSUME mu # "free", rd.pos = next - 1 PROVE FALSE
        BY <1>4, <2>2
      <4>2. SendBlock /\ BlockInv  BY <2>2 DEF IInv
      <4>3. Popped  BY <1>4, <2>2 DEF Popped
      <4>4. bufMap[rd.pos] = NoBuf /\ bufMap[next - 1] # NoBuf
        BY <4>1, <4>2, <4>3 DEF SendBlock, BlockInv
      <4> QED  BY <4>1, <4>4
    <3> QED  BY <1>1, <1>4, <2>1, <2>2, <2>4, <3>1, PhaseReader DEF PhaseInv
  <2> QED  BY <1>14, <2>3, <2>4, ReadDoes
<1>15. CASE ReaderStops
  <2>1. UNCHANGED <<len, part, next, mu, worker, ctx, open>> /\ rd.pc = "read"  BY <1>15 DEF ReaderStops, partVars
  <2>2. rd'.pc = "failed" /\ rd'.pos = rd.pos
    <3>1. open /\ Popped  BY <1>1, <1>4, <2>1, Sizes DEF PhaseInv, Popped
    <3>2. rd.cur # NoBuf  BY <3>1 DEF IInv, BlockInv
    <3>3. rd' = [rd EXCEPT !.pc = "failed"]  BY <1>15, <3>2 DEF ReaderStops
    <3> QED  BY <1>5, <3>3 DEF RdPcs
  <2> QED  BY <1>1, <1>4, <2>1, <2>2, PhaseReader DEF PhaseInv
<1>16. CASE ReaderFinishes
  <2>1. UNCHANGED <<len, part, next, mu, worker, ctx, open>> /\ rd.pc = "finish" /\ mu = "free"
    BY <1>16 DEF ReaderFinishes, partVars
  <2>2. open /\ rd.pos < maxPart /\ rd'.pos = rd.pos /\ (rd'.pc = "send" \/ (rd'.pc = "pop" /\ next = maxPart))
    BY <1>16, FinishDoes DEF ReaderGoes
  <2> QED  BY <1>1, <1>4, <2>1, <2>2, PhaseReader DEF PhaseInv
<1>17. CASE ReaderCloses
  <2>1. UNCHANGED <<len, part, next, mu, worker, open>> /\ rd.pc \in {"read", "eof", "failed"} /\ ctx' # "live"
    BY <1>7, <1>17 DEF ReaderCloses, partVars
  <2>2. rd'.pc = "interrupt" /\ rd'.pos = rd.pos  BY <1>5, <1>17 DEF ReaderCloses, RdPcs
  <2> QED  BY <1>1, <1>4, <2>1, <2>2, PhaseReader DEF PhaseInv
<1>18. CASE Interrupt
  <2>1. UNCHANGED <<len, part, next, mu, worker, ctx>> /\ rd.pc = "interrupt" /\ mu = "free" /\ open' = FALSE
    BY <1>18 DEF Interrupt, partVars
  <2>2. rd'.pc = "closed" /\ rd'.pos = rd.pos
    <3>1. rd \in RdRec /\ rd' = [rd EXCEPT !.pc = "closed", !.cur = NoBuf]  BY <1>1, <1>18, Types DEF Interrupt
    <3> QED  BY <3>1 DEF RdRec
  <2> QED  BY <1>1, <1>4, <2>1, <2>2, PhaseReader DEF PhaseInv
<1>19. CASE ClientLeaves
  <2>1. UNCHANGED <<len, part, next, mu, worker, rd, open>> /\ ctx' = "client"  BY <1>19 DEF ClientLeaves, partVars
  <2>2. \A x \in Workers : Live(x)' = Live(x) /\ At(x, "sending")' = At(x, "sending")  BY <2>1 DEF Live, At
  <2> QED  BY <1>1, <1>3, <2>1, <2>2 DEF PhaseInv
<1>20. ASSUME NEW w \in Workers, WorkerStep(w) PROVE PhaseInv'
  <2>1. CASE WorkerOnly(w)
    BY <1>1, <2>1, PhaseWorker
  <2>2. CASE WorkerSends(w)
    <3>1. SendDispatches(w, TRUE) /\ worker[w].pc = "send" /\ mu = "free" /\ UNCHANGED <<ctx, open, rd>>
      BY <2>2 DEF WorkerSends, At
    <3>2. open /\ next' = next + 1 /\ mu' = w  BY <3>1, DispatchDoes
    <3>3. PICK v \in Workers : ~Live(v) /\ worker' = [worker EXCEPT ![w].pc = "sending", ![v].pc = "select"]
      BY <2>2 DEF WorkerSends
    <3>4. /\ v # w /\ \A x \in Workers : x # w /\ x # v => worker'[x] = worker[x]
          /\ worker'[w].pc = "sending" /\ worker'[v].pc = "select"
      BY <1>1, <3>1, <3>3, StartsWorker
    <3>5. \A x \in Workers : worker[x].pc # "sending"  BY <1>1, <1>6, <3>1 DEF PhaseInv, At
    <3>6. \A x \in Workers : At(x, "sending")' <=> x = w  BY <3>4, <3>5 DEF At
    <3>7. next # 0 /\ rd.pc # "start"  BY <1>1, <3>1 DEF PhaseInv, Live
    <3>8. rd.pc # "sending"  BY <1>1, <3>1 DEF PhaseInv
    <3> QED  BY <1>1, <1>3, <1>4, <1>6, <3>1, <3>2, <3>6, <3>7, <3>8 DEF PhaseInv
  <2>3. CASE WorkerSent(w)
    <3>1. worker[w].pc = "sending" /\ mu' = "free" /\ UNCHANGED <<len, part, next, ctx, open, rd>>
          /\ (Goto(w, "copy") \/ Goto(w, "recopy"))
      BY <2>3 DEF WorkerSent, Receive, At, partVars
    <3>2. mu = w /\ \A x \in Workers : At(x, "sending") => x = w  BY <1>1, <3>1 DEF PhaseInv, At
    <3>3. Moves(w, {"copy"}) \/ Moves(w, {"recopy"})  BY <1>1, <3>1, GotoMoves DEF WorkerPcs
    <3>4. \A x \in Workers : ~At(x, "sending")'  BY <3>2, <3>3 DEF At, Moves
    <3>5. next # 0 /\ rd.pc # "sending"  BY <1>1, <1>6, <3>1, <3>2 DEF PhaseInv, Live
    <3> QED  BY <1>1, <1>3, <1>6, <3>1, <3>4, <3>5 DEF PhaseInv
  <2>4. CASE Writes(w)
    <3>1. WorkerOnly(w)  BY <2>4, WriteDoes DEF Writes, CopyUnit, RecopyUnit, WorkerOnly, partVars, At
    <3> QED  BY <1>1, <3>1, PhaseWorker
  <2> QED  BY <1>1, <1>20, <2>1, <2>2, <2>3, <2>4, WorkerOnlySteps DEF WorkerStep, Writes
<1>21. CASE UNCHANGED vars
  <2>1. UNCHANGED <<len, part, next, mu, worker, rd, open, ctx>>  BY <1>21 DEF vars, partVars
  <2>2. \A x \in Workers : Live(x)' = Live(x) /\ At(x, "sending")' = At(x, "sending")  BY <2>1 DEF Live, At
  <2> QED  BY <1>1, <1>3, <2>1, <2>2 DEF PhaseInv
<1> QED
  BY <1>8, <1>9, <1>10, <1>11, <1>12, <1>13, <1>14, <1>15, <1>16, <1>17, <1>18, <1>19, <1>20, <1>21 DEF Next, ReaderStep

-----------------------------------------------------------------------------
(* The blocks and what is in them                                          *)

\* A step that leaves the blocks alone.
Still ==
  /\ UNCHANGED <<len, part, next, bufMap, buf>>
  /\ rd'.pos = rd.pos /\ rd'.cur = rd.cur
  /\ Popped' <=> Popped
  /\ rd'.pc = "finish" <=> rd.pc = "finish"
  /\ rd'.pc = "send" => rd.pc \in {"send", "start"}
  /\ rd.pc = "send" => rd'.pc = "send" \/ bufMap[next] = NoBuf \/ next = maxPart
  /\ rd'.pc = "read" => rd.pc = "read"

\* A step that dispatches the next part
Dispatches ==
  \E p \in Workers \cup {"reader"}, new \in BOOLEAN :
    /\ SendDispatches(p, new) /\ mu = "free"
    /\ \/ rd' = rd /\ next > 0 /\ new
       \/ rd.pc = "send" /\ ReaderGoes("sending") /\ (new <=> next = 0)

LEMMA StillWorker ==
  ASSUME UNCHANGED <<len, part, next, bufMap, buf, rd>>
  PROVE  Still
<1>1. Popped' <=> Popped  BY SameRequest DEF Popped
<1> QED  BY <1>1 DEF Still

\* The steps of the reader that leave the blocks alone
LEMMA ReaderStill ==
  ASSUME IInv, DownloadStarts \/ ReaderSendsNothing \/ ReaderSent \/ ReaderStops \/ ReaderCloses
  PROVE  Still /\ open' = open
<1>1. TypeOK /\ StartOfNext /\ PhaseInv  BY DEF IInv
<1>2. len' = len /\ part' = part
  BY DEF DownloadStarts, ReaderSendsNothing, ReaderSent, ReaderStops, ReaderCloses, partVars
<1>3. maxPart' = maxPart  BY <1>2, SameRequest
<1>4. next \in 0 .. maxPart /\ maxPart \in Nat /\ rd.pos \in 0 .. maxPart  BY <1>1, Sizes, ReaderFields
<1>5. ASSUME NEW l \in RdPcs, rd' = [rd EXCEPT !.pc = l] PROVE ReaderGoes(l)
  BY <1>1, <1>2, <1>5, ReaderGoto
<1>6. CASE DownloadStarts
  <2>1. UNCHANGED <<len, part, next, bufMap, buf, open>> /\ rd.pc = "start"  BY <1>6 DEF DownloadStarts, partVars
  <2>2. ReaderGoes("error") \/ ReaderGoes("send")
    <3>1. rd' = [rd EXCEPT !.pc = "error"] \/ rd' = [rd EXCEPT !.pc = "send"]  BY <1>6 DEF DownloadStarts
    <3> QED  BY <1>5, <3>1 DEF RdPcs
  <2>3. Still  BY <1>3, <2>1, <2>2 DEF Still, ReaderGoes, Popped
  <2> QED  BY <2>1, <2>3
<1>7. CASE ReaderSendsNothing
  <2>1. UNCHANGED <<len, part, next, bufMap, buf, open>> /\ rd.pc = "send"  BY <1>7 DEF ReaderSendsNothing, partVars
  <2>2. ReaderGoes("undo") \/ ReaderGoes("pop")
    <3>1. rd' = [rd EXCEPT !.pc = "undo"] \/ rd' = [rd EXCEPT !.pc = "pop"]  BY <1>7 DEF ReaderSendsNothing
    <3> QED  BY <1>5, <3>1 DEF RdPcs
  <2>3. open /\ BlockInv  BY <1>1, <2>1 DEF IInv, PhaseInv
  <2>4. bufMap[next] = NoBuf \/ next = maxPart
    <3>1. SUFFICES ASSUME bufMap[next] # NoBuf, next # maxPart PROVE FALSE
      OBVIOUS
    <3>2. next > 0  BY <2>3, <3>1 DEF BlockInv
    <3>3. pos # len /\ pos <= len  BY <1>1, <3>1, CoveredAtMaxPart DEF PartsCoverRange
    <3>4. len \in Nat /\ pos \in Nat  BY <1>1, <1>4, Sizes, Starts
    <3>5. ~NothingToSend(next = 0)  BY <2>3, <3>2, <3>3, <3>4 DEF NothingToSend
    <3> QED  BY <1>7, <3>1, <3>2, <3>5 DEF ReaderSendsNothing, SendRefused
  <2>5. Still  BY <1>3, <2>1, <2>2, <2>4 DEF Still, ReaderGoes, Popped
  <2> QED  BY <2>1, <2>5
<1>9. CASE ReaderSent
  <2>1. UNCHANGED <<len, part, next, bufMap, buf, open>> /\ rd.pc = "sending"  BY <1>9 DEF ReaderSent, partVars
  <2>2. ReaderGoes("undo") \/ ReaderGoes("pop")
    <3>1. rd' = [rd EXCEPT !.pc = "undo"] \/ rd' = [rd EXCEPT !.pc = "pop"]  BY <1>9 DEF ReaderSent
    <3> QED  BY <1>5, <3>1 DEF RdPcs
  <2>3. Still  BY <1>3, <2>1, <2>2 DEF Still, ReaderGoes, Popped
  <2> QED  BY <2>1, <2>3
<1>10. CASE ReaderStops
  <2>1. UNCHANGED <<len, part, next, bufMap, buf, open>> /\ rd.pc = "read"  BY <1>10 DEF ReaderStops, partVars
  <2>2. ReaderGoes("failed")
    <3>1. open /\ Popped  BY <1>1, <1>4, <2>1, Sizes DEF PhaseInv, Popped
    <3>2. rd.cur # NoBuf  BY <3>1 DEF IInv, BlockInv
    <3>3. rd' = [rd EXCEPT !.pc = "failed"]  BY <1>10, <3>2 DEF ReaderStops
    <3> QED  BY <1>5, <3>3 DEF RdPcs
  <2>3. Still  BY <1>3, <2>1, <2>2 DEF Still, ReaderGoes, Popped
  <2> QED  BY <2>1, <2>3
<1>11. CASE ReaderCloses
  <2>1. UNCHANGED <<len, part, next, bufMap, buf, open>> /\ rd.pc \in {"read", "eof", "failed"}
    BY <1>11 DEF ReaderCloses, partVars
  <2>2. ReaderGoes("interrupt")  BY <1>5, <1>11 DEF ReaderCloses, RdPcs
  <2>3. rd.pc = "eof" => rd.pos = maxPart  BY <1>1 DEF PhaseInv
  <2>4. Still  BY <1>3, <1>4, <2>1, <2>2, <2>3 DEF Still, ReaderGoes, Popped
  <2> QED  BY <2>1, <2>4
<1> QED  BY <1>6, <1>7, <1>9, <1>10, <1>11

\* What a step does to the blocks
LEMMA Shapes ==
  ASSUME IInv, [Next]_vars, open'
  PROVE  /\ open
         /\ \/ Still \/ ReaderPops \/ ReaderFinishes \/ Dispatches
            \/ \E n \in 1 .. part : ReaderReads(n)
            \/ \E w \in Workers : Writes(w)
<1>1. TypeOK /\ StartOfNext /\ PhaseInv  BY DEF IInv
<1>2. len' = len /\ part' = part  BY StartStep
<1>3. maxPart' = maxPart  BY <1>2, SameRequest
<1>4. next \in 0 .. maxPart /\ maxPart \in Nat /\ rd.pos \in 0 .. maxPart  BY <1>1, Sizes, ReaderFields
<1>5. ASSUME NEW l \in RdPcs, rd' = [rd EXCEPT !.pc = l] PROVE ReaderGoes(l)
  BY <1>1, <1>2, <1>5, ReaderGoto
<1>6. CASE DownloadStarts \/ ReaderSendsNothing \/ ReaderSent \/ ReaderStops \/ ReaderCloses
  BY <1>6, ReaderStill
<1>7. CASE ReaderSends
  <2>1. SendDispatches("reader", next = 0) /\ rd' = [rd EXCEPT !.pc = "sending"] /\ rd.pc = "send" /\ mu = "free"
    BY <1>7 DEF ReaderSends
  <2>2. (next = 0) \in BOOLEAN  OBVIOUS
  <2>3. ReaderGoes("sending")  BY <1>5, <2>1 DEF RdPcs
  <2>4. Dispatches  BY <2>1, <2>2, <2>3 DEF Dispatches
  <2> QED  BY <2>1, <2>2, <2>4, DispatchDoes
<1>12. CASE UNCHANGED <<len, part, next, bufMap, buf, rd, open>>
  BY <1>12, StillWorker
<1>13. ASSUME NEW w \in Workers, WorkerStep(w), ~Writes(w), ~WorkerSends(w)
       PROVE  UNCHANGED <<len, part, next, bufMap, buf, rd, open>>
  BY <1>13 DEF WorkerStep, Writes, WorkerTakes, WorkerLeaves, WorkerReleases, RequestAnswered, RequestRefused,
       RequestFails, DelayEnds, Overloaded, Requeue, WorkerSendsNothing, WorkerSent, CopyEnds, CopyFails,
       RecopyEnds, RecopyFails, partVars
<1>14. ASSUME NEW w \in Workers, WorkerSends(w)
       PROVE  open /\ Dispatches
  <2>1. SendDispatches(w, TRUE) /\ worker[w].pc = "send" /\ rd' = rd /\ mu = "free"  BY <1>14 DEF WorkerSends, At
  <2>2. next > 0  BY <1>1, <1>4, <2>1 DEF PhaseInv, Live
  <2> QED  BY <2>1, <2>2, DispatchDoes DEF Dispatches
<1>15. CASE ClientLeaves \/ UNCHANGED vars
  <2>1. UNCHANGED <<len, part, next, bufMap, buf, rd, open>>  BY <1>15 DEF ClientLeaves, vars, partVars
  <2> QED  BY <1>12, <2>1
<1>16. ASSUME NEW w \in Workers, Writes(w) PROVE open
  BY <1>16, WriteDoes
<1>17. ReaderPops => open
  BY PopDoes
<1>18. ReaderFinishes => open
  BY FinishDoes
<1>19. ASSUME NEW n \in 1 .. part, ReaderReads(n) PROVE open
  BY <1>19, ReadDoes
<1>20. ~DownloadFails /\ ~Interrupt
  BY DEF DownloadFails, Interrupt
<1>21. CASE \E w \in Workers : WorkerStep(w)
  BY <1>12, <1>13, <1>14, <1>16, <1>21
<1>22. CASE ReaderStep
  BY <1>6, <1>7, <1>17, <1>18, <1>19, <1>20, <1>22 DEF ReaderStep
<1> QED
  BY <1>6, <1>15, <1>21, <1>22 DEF Next

\* The blocks of the parts that stay outstanding stay what they are.
ViewKept ==
  /\ Outstanding' \subseteq Outstanding
  /\ \A i \in Outstanding' : /\ BlockOf(i)' = BlockOf(i)
                             /\ buf'[BlockOf(i)].data = buf[BlockOf(i)].data
                             /\ buf'[BlockOf(i)].size = buf[BlockOf(i)].size

LEMMA PartBlock ==
  ASSUME IInv, open, NEW i \in Outstanding
  PROVE  /\ i \in 0 .. maxPart - 1 /\ i \in rd.pos .. maxPart /\ BlockOf(i) \in Bufs /\ BlockHas(i, buf[BlockOf(i)])
         /\ ~(i = rd.pos /\ Popped) => BlockOf(i) = bufMap[i]
<1>1. TypeOK /\ StartOfNext /\ BlockInv /\ DataInv  BY DEF IInv
<1>2. next \in 0 .. maxPart /\ maxPart \in Nat /\ rd.pos \in 0 .. maxPart /\ rd.cur \in Bufs \cup {NoBuf}
  BY <1>1, Sizes, ReaderFields
<1>3. i \in 0 .. maxPart - 1 /\ i \in rd.pos .. maxPart  BY <1>2 DEF Outstanding
<1>4. bufMap[i] \in Bufs \cup {NoBuf}  BY <1>1, <1>2, <1>3, MapFields
<1>5. BlockOf(i) # NoBuf  BY <1>1 DEF BlockInv
<1>6. BlockOf(i) \in Bufs  BY <1>2, <1>4, <1>5 DEF BlockOf
<1> QED  BY <1>1, <1>3, <1>6 DEF DataInv, BlockOf

\* What a block has is what it had.
LEMMA DataKept ==
  ASSUME IInv, open, UNCHANGED <<len, part>>, ViewKept, late' # "stray" => late # "stray",
         \A i \in Outstanding' : ~(i = rd'.pos /\ Popped') =>
             buf'[BlockOf(i)].r = buf[BlockOf(i)].r /\ ~(i = rd.pos /\ Popped),
         \A i \in Outstanding' : i = rd'.pos /\ Popped' => buf'[BlockOf(i)].r <= Len(buf[BlockOf(i)].data)
  PROVE  DataInv'
<1>1. SUFFICES ASSUME NEW i \in Outstanding' PROVE BlockHas(i, buf[BlockOf(i)])'
  BY DEF DataInv
<1>2. i \in Outstanding /\ BlockOf(i)' = BlockOf(i)  BY <1>1 DEF ViewKept
<1> DEFINE c == buf[BlockOf(i)]  d == buf'[BlockOf(i)]
<1>3. BlockHas(i, c)  BY <1>2, PartBlock
<1>4. d.data = c.data /\ d.size = c.size  BY <1>1 DEF ViewKept
<1>5. PartSize(i)' = PartSize(i) /\ StartOf(i)' = StartOf(i)  BY SameRequest
<1>6. d.r <= Len(d.data)  BY <1>1, <1>3, <1>4 DEF BlockHas
<1>7. ~(i = rd'.pos /\ Popped') => d.r = 0  BY <1>1, <1>3 DEF BlockHas
<1>8. buf[BlockOf(i)]' = d  BY <1>2
<1> HIDE DEF c, d
<1> QED  BY <1>3, <1>4, <1>5, <1>6, <1>7, <1>8 DEF BlockHas

LEMMA StillBlocks ==
  ASSUME IInv, open, Still, late' # "stray" => late # "stray"
  PROVE  BlockInv' /\ DataInv' /\ ViewKept
<1>1. TypeOK /\ StartOfNext /\ PhaseInv /\ BlockInv  BY DEF IInv
<1>2. maxPart' = maxPart /\ Bufs' = Bufs  BY SameRequest DEF Still
<1>3. Outstanding' = Outstanding  BY DEF Still, Outstanding
<1>4. \A i : BlockOf(i)' = BlockOf(i)  BY DEF Still, BlockOf
<1>5. \A k : Taken(k)' = Taken(k)  BY <1>2 DEF Still, Taken
<1>6. BlockInv'
  <2>1. next \in Nat /\ maxPart \in Nat  BY <1>1, Sizes
  <2> QED  BY <1>1, <1>2, <1>3, <1>4, <1>5, <2>1 DEF BlockInv, Still, PhaseInv
<1>7. ViewKept  BY <1>3, <1>4 DEF ViewKept, Still
<1>8. DataInv'
  <2>1. \A i \in Outstanding : buf[BlockOf(i)].r <= Len(buf[BlockOf(i)].data)  BY PartBlock DEF BlockHas
  <2> QED  BY <1>3, <1>7, <2>1, DataKept DEF Still
<1> QED  BY <1>6, <1>7, <1>8

LEMMA PopBlocks ==
  ASSUME IInv, ReaderPops
  PROVE  BlockInv' /\ DataInv' /\ ViewKept
<1>1. TypeOK /\ StartOfNext /\ PhaseInv  BY DEF IInv
<1>2. /\ open /\ rd.pc = "pop" /\ rd.pos < next /\ bufMap[rd.pos] \in Bufs /\ rd.pos \in 0 .. maxPart - 1
      /\ rd'.pc = "read" /\ rd'.pos = rd.pos /\ rd'.cur = bufMap[rd.pos]
      /\ bufMap'[rd.pos] = NoBuf
      /\ \A i \in 0 .. maxPart : i # rd.pos => bufMap'[i] = bufMap[i]
  BY PopDoes
<1>3. UNCHANGED <<len, part, next, buf, late>>  BY DEF ReaderPops, partVars
<1>4. BlockInv  BY <1>2 DEF IInv
<1>5. maxPart' = maxPart /\ Bufs' = Bufs /\ NoBuf' = NoBuf  BY <1>3, SameRequest DEF NoBuf
<1>6. next \in 0 .. maxPart /\ maxPart \in Nat  BY <1>1, Sizes
<1>7. ~Popped /\ Popped'  BY <1>2, <1>5, <1>6 DEF Popped
<1>8. Outstanding' = Outstanding  BY <1>2, <1>3 DEF Outstanding
<1>9. Outstanding \subseteq 0 .. maxPart  BY <1>2, <1>6 DEF Outstanding
<1>10. \A i \in Outstanding : BlockOf(i)' = BlockOf(i)
  BY <1>2, <1>7, <1>9 DEF BlockOf
<1>11. \A k : Taken(k)' = Taken(k)  BY <1>3, <1>5 DEF Taken
<1>12. ViewKept  BY <1>3, <1>8, <1>10 DEF ViewKept
<1>13. DataInv'
  <2>1. \A i \in Outstanding : buf[BlockOf(i)].r <= Len(buf[BlockOf(i)].data)  BY <1>2, PartBlock DEF BlockHas
  <2> QED  BY <1>2, <1>3, <1>7, <1>8, <1>12, <2>1, DataKept
<1>14. \A b \in Bufs : b # NoBuf  BY <1>1, MapFields
<1>15. \A i \in next + 1 .. maxPart : bufMap'[i] = NoBuf  BY <1>2, <1>4, <1>6 DEF BlockInv
<1>16. bufMap'[next] = bufMap[next]  BY <1>2, <1>6
<1>17. /\ \A i, j \in rd.pos .. maxPart : i # j /\ bufMap'[i] # NoBuf => bufMap'[i] # bufMap'[j]
       /\ \A j \in rd.pos .. maxPart : bufMap'[j] # rd'.cur
       /\ \A i \in rd.pos .. maxPart : bufMap'[i] # NoBuf => buf[bufMap'[i]].used /\ ~buf[bufMap'[i]].closed
       /\ buf[rd'.cur].used /\ ~buf[rd'.cur].closed
  <2>1. \A i \in rd.pos .. maxPart : i \in 0 .. maxPart  BY <1>2, <1>6
  <2>2. rd.pos \in rd.pos .. maxPart  BY <1>2, <1>6
  <2>3. /\ \A i, j \in rd.pos .. maxPart : i # j /\ bufMap[i] # NoBuf => bufMap[i] # bufMap[j]
        /\ \A i \in rd.pos .. maxPart : bufMap[i] # NoBuf => buf[bufMap[i]].used /\ ~buf[bufMap[i]].closed
    BY <1>4 DEF BlockInv
  <2> QED  BY <1>2, <1>14, <2>1, <2>2, <2>3
<1>18. bufMap'[next] # NoBuf => next > 0 /\ next = maxPart
  BY <1>2, <1>4, <1>6, <1>16 DEF BlockInv
<1>19. /\ \A i \in Outstanding : BlockOf(i) # NoBuf
       /\ \E k \in 0 .. next : Taken(k)
       /\ \A b \in Bufs : ~buf[b].used => ~buf[b].closed
  BY <1>4 DEF BlockInv
<1>20. BlockInv'
  BY <1>2, <1>3, <1>5, <1>6, <1>7, <1>8, <1>10, <1>11, <1>14, <1>15, <1>17, <1>18, <1>19 DEF BlockInv
<1> QED  BY <1>12, <1>13, <1>20

LEMMA FinishBlocks ==
  ASSUME IInv, ReaderFinishes
  PROVE  BlockInv' /\ DataInv' /\ ViewKept
<1>1. TypeOK /\ StartOfNext /\ PhaseInv  BY DEF IInv
<1>2. /\ open /\ rd.pc = "finish" /\ rd.pos < maxPart /\ rd.cur \in Bufs /\ next \in 0 .. maxPart
      /\ buf[rd.cur].used /\ ~buf[rd.cur].closed
  BY FinishDoes
<1>3. UNCHANGED <<len, part, next, late>>  BY DEF ReaderFinishes, partVars
<1>4. BlockInv  BY <1>2 DEF IInv
<1>5. maxPart' = maxPart /\ Bufs' = Bufs /\ NoBuf' = NoBuf  BY <1>3, SameRequest DEF NoBuf
<1>6. maxPart \in Nat /\ rd.pos \in 0 .. maxPart /\ rd.pos <= next  BY <1>1, Sizes, ReaderFields DEF PhaseInv
<1>7. \A b \in Bufs : b # NoBuf  BY <1>1, MapFields
<1>8. next # 0 /\ ~Popped  BY <1>1, <1>2 DEF PhaseInv, Popped
<1>9. /\ \A j \in rd.pos .. maxPart : bufMap[j] # rd.cur
      /\ \A i, j \in rd.pos .. maxPart : i # j /\ bufMap[i] # NoBuf => bufMap[i] # bufMap[j]
      /\ \A i \in rd.pos .. maxPart : bufMap[i] # NoBuf => buf[bufMap[i]].used /\ ~buf[bufMap[i]].closed
      /\ \A i \in next + 1 .. maxPart : bufMap[i] = NoBuf
      /\ \A i \in Outstanding : BlockOf(i) # NoBuf
      /\ \E k \in 0 .. next : Taken(k)
      /\ \A b \in Bufs : ~buf[b].used => ~buf[b].closed
  BY <1>2, <1>4 DEF BlockInv
<1>10. \A i \in Outstanding : i \in rd.pos .. maxPart /\ i # next /\ i \in -1 .. maxPart  BY <1>2, <1>6 DEF Outstanding
<1>11. next \in rd.pos .. maxPart /\ \A i \in rd.pos .. maxPart : i \in -1 .. maxPart  BY <1>2, <1>6
<1>12. CASE /\ bufMap[next] = NoBuf /\ UNCHANGED buf /\ ReaderGoes("send")
            /\ bufMap'[next] = rd.cur
            /\ \A i \in -1 .. maxPart : i # next => bufMap'[i] = bufMap[i]
  <2>1. ~Popped' /\ rd'.pc = "send" /\ rd'.pos = rd.pos /\ rd'.cur = rd.cur  BY <1>12 DEF Popped, ReaderGoes
  <2>2. Outstanding' = Outstanding  BY <1>3, <2>1 DEF Outstanding
  <2>3. \A i \in Outstanding : BlockOf(i)' = BlockOf(i)
    BY <1>8, <1>10, <1>12, <2>1 DEF BlockOf
  <2>4. ViewKept  BY <1>12, <2>2, <2>3 DEF ViewKept
  <2>5. DataInv'  BY <1>2, <1>3, <1>8, <1>12, <2>1, <2>2, <2>4, DataKept
  <2>6. \A k : Taken(k)' = Taken(k)  BY <1>5, <1>12 DEF Taken
  <2>7. \A i \in next + 1 .. maxPart : bufMap'[i] = NoBuf
    <3>1. \A i \in next + 1 .. maxPart : i # next /\ i \in -1 .. maxPart  BY <1>2, <1>6
    <3> QED  BY <1>9, <1>12, <3>1
  <2>8. \A i, j \in rd.pos .. maxPart : i # j /\ bufMap'[i] # NoBuf => bufMap'[i] # bufMap'[j]
    BY <1>7, <1>9, <1>11, <1>12, <1>2
  <2>9. \A i \in rd.pos .. maxPart : bufMap'[i] # NoBuf => buf[bufMap'[i]].used /\ ~buf[bufMap'[i]].closed
    BY <1>2, <1>9, <1>11, <1>12
  <2>10. next > 0  BY <1>2, <1>8
  <2>11. BlockInv'
    BY <1>2, <1>3, <1>5, <1>7, <1>9, <1>12, <2>1, <2>2, <2>3, <2>6, <2>7, <2>8, <2>9, <2>10 DEF BlockInv
  <2> QED  BY <2>4, <2>5, <2>11
<1>13. CASE /\ bufMap[next] # NoBuf /\ UNCHANGED bufMap /\ ReaderGoes("pop")
            /\ next = maxPart
            /\ \A b \in Bufs : b # rd.cur => buf'[b] = buf[b]
            /\ buf'[rd.cur].used /\ buf'[rd.cur].closed
  <2>1. ~Popped' /\ rd'.pc = "pop" /\ rd'.pos = rd.pos /\ rd'.cur = rd.cur  BY <1>13 DEF Popped, ReaderGoes
  <2>2. Outstanding' = Outstanding  BY <1>3, <2>1 DEF Outstanding
  <2>3. \A i \in Outstanding : BlockOf(i)' = BlockOf(i) /\ BlockOf(i) = bufMap[i]
    BY <1>8, <1>13, <2>1 DEF BlockOf
  <2>4. \A i \in Outstanding : buf'[BlockOf(i)] = buf[BlockOf(i)]
    <3>1. \A i \in Outstanding : BlockOf(i) \in Bufs /\ BlockOf(i) # rd.cur  BY <1>2, <1>9, <1>10, <2>3, PartBlock
    <3> QED  BY <1>13, <3>1
  <2>5. ViewKept  BY <2>2, <2>3, <2>4 DEF ViewKept
  <2>6. DataInv'  BY <1>2, <1>3, <1>8, <2>1, <2>2, <2>4, <2>5, DataKept
  <2>7. \A b \in Bufs : buf'[b].used <=> buf[b].used  BY <1>2, <1>13
  <2>8. \A k : Taken(k)' = Taken(k)  BY <1>5, <2>7 DEF Taken
  <2>9. \A i \in rd.pos .. maxPart : bufMap[i] # NoBuf => buf'[bufMap[i]].used /\ ~buf'[bufMap[i]].closed
    <3>1. \A i \in rd.pos .. maxPart : bufMap[i] # NoBuf => bufMap[i] \in Bufs  BY <1>1, <1>11, MapFields
    <3> QED  BY <1>9, <1>13, <3>1
  <2>10. next > 0  BY <1>2, <1>8
  <2>11. \A b \in Bufs : ~buf'[b].used => ~buf'[b].closed  BY <1>9, <1>13
  <2>12. BlockInv'
    BY <1>2, <1>3, <1>5, <1>9, <1>13, <2>1, <2>2, <2>3, <2>8, <2>9, <2>10, <2>11 DEF BlockInv
  <2> QED  BY <2>5, <2>6, <2>12
<1> QED  BY <1>12, <1>13, FinishDoes

LEMMA ReadBlocks ==
  ASSUME IInv, NEW n \in 1 .. part, ReaderReads(n)
  PROVE  BlockInv' /\ DataInv' /\ ViewKept
<1>1. TypeOK /\ StartOfNext /\ PhaseInv  BY DEF IInv
<1>2. /\ open /\ rd.pc = "read" /\ Popped /\ rd.pos < next /\ rd.pos \in 0 .. maxPart - 1
      /\ rd.pos \in Outstanding /\ BlockOf(rd.pos) = rd.cur /\ rd.cur \in Bufs
      /\ buf[rd.cur].r + n <= Len(buf[rd.cur].data)
      /\ \A b \in Bufs : b # rd.cur => buf'[b] = buf[b]
      /\ buf'[rd.cur].r = buf[rd.cur].r + n /\ buf'[rd.cur].data = buf[rd.cur].data
      /\ buf'[rd.cur].used = buf[rd.cur].used /\ buf'[rd.cur].closed = buf[rd.cur].closed
      /\ buf'[rd.cur].size = buf[rd.cur].size
  BY ReadDoes
<1>3. UNCHANGED <<len, part, next, bufMap, late>>  BY DEF ReaderReads, partVars
<1>4. BlockInv  BY <1>2 DEF IInv
<1>5. maxPart' = maxPart /\ Bufs' = Bufs /\ NoBuf' = NoBuf  BY <1>3, SameRequest DEF NoBuf
<1>6. next \in 0 .. maxPart /\ maxPart \in Nat  BY <1>1, Sizes
<1>7. \A b \in Bufs : buf'[b].used = buf[b].used /\ buf'[b].closed = buf[b].closed  BY <1>2
<1>8. \A k : Taken(k)' = Taken(k)  BY <1>5, <1>7 DEF Taken
<1>9. /\ \A j \in rd.pos .. maxPart : bufMap[j] # rd.cur
      /\ \A i, j \in rd.pos .. maxPart : i # j /\ bufMap[i] # NoBuf => bufMap[i] # bufMap[j]
      /\ \A i \in rd.pos .. maxPart : bufMap[i] # NoBuf => buf[bufMap[i]].used /\ ~buf[bufMap[i]].closed
      /\ \A i \in next + 1 .. maxPart : bufMap[i] = NoBuf
      /\ \A i \in Outstanding : BlockOf(i) # NoBuf
      /\ \E k \in 0 .. next : Taken(k)
      /\ \A b \in Bufs : ~buf[b].used => ~buf[b].closed
      /\ bufMap[next] # NoBuf => next > 0 /\ next = maxPart
      /\ bufMap[rd.pos] = NoBuf /\ rd.cur # NoBuf /\ buf[rd.cur].used /\ ~buf[rd.cur].closed
  BY <1>2, <1>4, <1>6 DEF BlockInv
<1>10. \A i \in rd.pos .. maxPart : bufMap[i] # NoBuf => buf'[bufMap[i]].used /\ ~buf'[bufMap[i]].closed
  <2>1. \A i \in rd.pos .. maxPart : i \in -1 .. maxPart  BY <1>2, <1>6
  <2>2. \A i \in rd.pos .. maxPart : bufMap[i] # NoBuf => bufMap[i] \in Bufs  BY <1>1, <2>1, MapFields
  <2> QED  BY <1>7, <1>9, <2>2
<1>11. \A i \in Outstanding : BlockOf(i) \in Bufs  BY <1>2, PartBlock
<1>12. \A i \in Outstanding : buf'[BlockOf(i)].data = buf[BlockOf(i)].data /\ buf'[BlockOf(i)].size = buf[BlockOf(i)].size
  BY <1>2, <1>11
<1>13. \A i \in Outstanding : i # rd.pos => BlockOf(i) = bufMap[i] /\ BlockOf(i) # rd.cur
  <2>1. \A i \in Outstanding : i \in rd.pos .. maxPart  BY <1>2, PartBlock
  <2> QED  BY <1>9, <2>1 DEF BlockOf
<1>14. CASE rd' = rd
  <2>1. Popped' /\ Outstanding' = Outstanding /\ \A i : BlockOf(i)' = BlockOf(i)
    BY <1>2, <1>3, <1>5, <1>14 DEF Popped, Outstanding, BlockOf
  <2>2. ViewKept  BY <1>12, <2>1 DEF ViewKept
  <2>3. DataInv'  BY <1>2, <1>3, <1>11, <1>13, <1>14, <2>1, <2>2, DataKept
  <2>4. BlockInv'
    BY <1>2, <1>3, <1>5, <1>6, <1>7, <1>8, <1>9, <1>10, <1>14, <2>1 DEF BlockInv
  <2> QED  BY <2>2, <2>3, <2>4
<1>15. CASE /\ rd'.pos = rd.pos + 1 /\ rd'.cur = rd.cur
            /\ rd'.pc = IF rd.pos + 1 >= maxPart THEN "eof" ELSE "finish"
  <2>1. ~Popped'  BY <1>15 DEF Popped
  <2>2. Outstanding' \subseteq Outstanding /\ rd.pos \notin Outstanding'
    BY <1>2, <1>3, <1>6, <1>15 DEF Outstanding
  <2>3. \A i \in Outstanding' : BlockOf(i)' = BlockOf(i)
    BY <1>3, <1>13, <2>1, <2>2 DEF BlockOf
  <2>4. ViewKept  BY <1>12, <2>2, <2>3 DEF ViewKept
  <2>5. DataInv'  BY <1>2, <1>3, <1>11, <1>13, <1>15, <2>1, <2>2, <2>4, DataKept
  <2>6. \A i \in rd.pos + 1 .. maxPart : i \in rd.pos .. maxPart  BY <1>2, <1>6
  <2>7. rd'.pc \in {"eof", "finish"}  BY <1>15
  <2>8. BlockInv'
    BY <1>2, <1>3, <1>5, <1>6, <1>7, <1>8, <1>9, <1>10, <1>15, <2>1, <2>2, <2>3, <2>6, <2>7 DEF BlockInv
  <2> QED  BY <2>4, <2>5, <2>8
<1> QED  BY <1>14, <1>15, ReadDoes

\* One part more is outstanding, with an empty block.
ViewGrown ==
  /\ next \notin Outstanding /\ Outstanding' = Outstanding \cup {next}
  /\ \A i \in Outstanding : BlockOf(i)' = BlockOf(i) /\ buf'[BlockOf(i)] = buf[BlockOf(i)]
  /\ \A i : i = next => BlockOf(i)' = bufMap'[next]
  /\ bufMap'[next] # NoBuf /\ buf'[bufMap'[next]].data = << >>

LEMMA DispatchBlocks ==
  ASSUME IInv, Dispatches, late' # "stray" => late # "stray"
  PROVE  BlockInv' /\ DataInv' /\ ViewGrown
<1>1. TypeOK /\ StartOfNext /\ PhaseInv  BY DEF IInv
<1>2. PICK p \in Workers \cup {"reader"}, new \in BOOLEAN :
        /\ SendDispatches(p, new) /\ mu = "free"
        /\ \/ rd' = rd /\ next > 0
           \/ rd.pc = "send" /\ ReaderGoes("sending")
  BY DEF Dispatches
<1>3. /\ open /\ next < maxPart /\ next' = next + 1 /\ len' = len /\ part' = part
      /\ NextBuf \in Bufs
      /\ bufMap'[next] = NextBuf
      /\ \A i \in -1 .. maxPart : i # next => bufMap'[i] = bufMap[i]
      /\ \A b \in Bufs : b # NextBuf => buf'[b] = buf[b]
      /\ buf'[NextBuf].used /\ ~buf'[NextBuf].closed
      /\ buf'[NextBuf].size = PartSize(next) /\ buf'[NextBuf].r = 0 /\ buf'[NextBuf].data = << >>
      /\ \A i \in rd.pos .. maxPart : i # next => bufMap[i] # NextBuf
      /\ Popped \/ rd.pc = "finish" => rd.cur # NextBuf
      /\ \E k \in 0 .. next + 1 : Taken(k)'
      /\ \A b \in Bufs : ~buf'[b].used => ~buf'[b].closed
  BY <1>2, DispatchDoes
<1>4. BlockInv  BY <1>3 DEF IInv
<1>5. maxPart' = maxPart /\ Bufs' = Bufs /\ NoBuf' = NoBuf /\ \A i : PartSize(i)' = PartSize(i) /\ StartOf(i)' = StartOf(i)
  BY <1>3, SameRequest DEF NoBuf
<1>6. /\ next \in 0 .. maxPart /\ maxPart \in Nat /\ rd.pos \in 0 .. maxPart /\ rd.pos <= next
      /\ rd.cur \in Bufs \cup {NoBuf}
  BY <1>1, Sizes, ReaderFields DEF PhaseInv
<1>7. \A b \in Bufs : b # NoBuf  BY <1>1, MapFields
<1>8. /\ rd'.pos = rd.pos /\ rd'.cur = rd.cur /\ (Popped' <=> Popped) /\ (rd'.pc = "finish" <=> rd.pc = "finish")
      /\ rd'.pc = "send" => rd.pc = "send"
  BY <1>2, <1>5 DEF ReaderGoes, Popped
<1>9. /\ \A j \in rd.pos .. maxPart : Popped \/ rd.pc = "finish" => bufMap[j] # rd.cur
      /\ \A i, j \in rd.pos .. maxPart : i # j /\ bufMap[i] # NoBuf => bufMap[i] # bufMap[j]
      /\ \A i \in rd.pos .. maxPart : bufMap[i] # NoBuf => buf[bufMap[i]].used /\ ~buf[bufMap[i]].closed
      /\ \A i \in next + 1 .. maxPart : bufMap[i] = NoBuf
      /\ \A i \in Outstanding : BlockOf(i) # NoBuf
      /\ Popped => rd.pos < next /\ bufMap[rd.pos] = NoBuf
      /\ Popped \/ rd.pc = "finish" => rd.cur # NoBuf /\ ~buf[rd.cur].closed
      /\ rd.cur # NoBuf => buf[rd.cur].used
  BY <1>4 DEF BlockInv
<1>10. next \notin Outstanding /\ Outstanding' = Outstanding \cup {next}
  BY <1>3, <1>6, <1>8 DEF Outstanding
<1>11. \A i \in rd.pos .. maxPart : i \in -1 .. maxPart  BY <1>6
<1>12. \A i \in Outstanding : i \in rd.pos .. maxPart /\ i # next /\ BlockOf(i) \in Bufs
  BY <1>3, <1>10, PartBlock
<1>13. \A i \in Outstanding : BlockOf(i)' = BlockOf(i)
  BY <1>3, <1>8, <1>11, <1>12 DEF BlockOf
<1>14. \A i \in Outstanding : BlockOf(i) # NextBuf  BY <1>3, <1>12 DEF BlockOf
<1>15. \A i \in Outstanding : buf'[BlockOf(i)] = buf[BlockOf(i)]  BY <1>3, <1>12, <1>14
<1>16. \A i : i = next => BlockOf(i)' = bufMap'[next]
  <2>1. ~(next = rd.pos /\ Popped)  BY <1>6, <1>9
  <2>2. \A i : BlockOf(i)' = IF i = rd'.pos /\ Popped' THEN rd'.cur ELSE bufMap'[i]
    BY DEF BlockOf
  <2> QED  BY <1>8, <2>1, <2>2
<1>17. ViewGrown  BY <1>3, <1>7, <1>10, <1>13, <1>15, <1>16 DEF ViewGrown
<1>18. DataInv'
  <2>1. SUFFICES ASSUME NEW i \in Outstanding' PROVE BlockHas(i, buf[BlockOf(i)])'
    BY DEF DataInv
  <2>2. CASE i \in Outstanding
    <3> DEFINE c == buf[BlockOf(i)]
    <3>1. BlockHas(i, c)  BY <1>3, <2>2, PartBlock
    <3>2. buf[BlockOf(i)]' = c  BY <1>13, <1>15, <2>2
    <3> HIDE DEF c
    <3> QED  BY <1>5, <1>8, <3>1, <3>2 DEF BlockHas
  <2>3. CASE i = next
    <3> DEFINE d == buf'[NextBuf]
    <3>1. d.size = PartSize(next) /\ d.r = 0 /\ d.data = << >> /\ Len(d.data) = 0  BY <1>3
    <3>2. buf[BlockOf(i)]' = d  BY <1>3, <1>16, <2>3
    <3>3. PartSize(next) >= 1  BY <1>1, <1>6, Sizes
    <3>4. PartSize(next) \in Nat  BY <1>1, <1>6, Sizes
    <3> HIDE DEF d
    <3> QED  BY <1>5, <2>3, <3>1, <3>2, <3>3, <3>4 DEF BlockHas
  <2> QED  BY <1>10, <2>1, <2>2, <2>3
<1>19. /\ \A i \in next + 2 .. maxPart : bufMap'[i] = NoBuf
       /\ bufMap'[next + 1] = NoBuf
  <2>1. next + 1 \in next + 1 .. maxPart /\ next + 1 # next /\ next + 1 \in -1 .. maxPart  BY <1>3, <1>6
  <2>2. \A i \in next + 2 .. maxPart : i \in next + 1 .. maxPart /\ i # next /\ i \in -1 .. maxPart  BY <1>3, <1>6
  <2> QED  BY <1>3, <1>9, <2>1, <2>2
<1>20. /\ \A j \in rd.pos .. maxPart : Popped \/ rd.pc = "finish" => bufMap'[j] # rd.cur
       /\ \A i, j \in rd.pos .. maxPart : i # j /\ bufMap'[i] # NoBuf => bufMap'[i] # bufMap'[j]
  BY <1>3, <1>9, <1>11
<1>21. \A i \in rd.pos .. maxPart : bufMap'[i] # NoBuf => buf'[bufMap'[i]].used /\ ~buf'[bufMap'[i]].closed
  <2>1. \A i \in rd.pos .. maxPart : i # next /\ bufMap[i] # NoBuf => bufMap[i] \in Bufs /\ bufMap[i] # NextBuf
    BY <1>1, <1>3, <1>11, MapFields
  <2> QED  BY <1>3, <1>9, <1>11, <2>1
<1>22. /\ rd.cur # NoBuf => buf'[rd.cur].used
       /\ Popped \/ rd.pc = "finish" => ~buf'[rd.cur].closed
  BY <1>3, <1>6, <1>9
<1>23. Popped => bufMap'[rd.pos] = NoBuf  BY <1>3, <1>6, <1>9
<1>24. \A i \in Outstanding' : BlockOf(i)' # NoBuf
  BY <1>3, <1>7, <1>9, <1>10, <1>13, <1>16
<1>25. BlockInv'
  <2>1. next' + 1 = next + 2 /\ rd.pos < next' /\ next' = next + 1  BY <1>3, <1>6
  <2> QED
    BY <1>3, <1>5, <1>6, <1>8, <1>9, <1>19, <1>20, <1>21, <1>22, <1>23, <1>24, <2>1 DEF BlockInv
<1> QED  BY <1>17, <1>18, <1>25

\* Two parts never share a block.
LEMMA Distinct ==
  ASSUME IInv, open, NEW i \in Outstanding, NEW j \in Outstanding, i # j
  PROVE  BlockOf(i) # BlockOf(j)
<1>1. BlockInv  BY DEF IInv
<1>2. /\ i \in rd.pos .. maxPart /\ j \in rd.pos .. maxPart
      /\ ~(i = rd.pos /\ Popped) => BlockOf(i) = bufMap[i]
      /\ ~(j = rd.pos /\ Popped) => BlockOf(j) = bufMap[j]
  BY PartBlock
<1>3. BlockOf(i) # NoBuf /\ BlockOf(j) # NoBuf  BY <1>1 DEF BlockInv
<1>4. CASE Popped /\ i = rd.pos
  BY <1>1, <1>2, <1>4 DEF BlockInv, BlockOf
<1>5. CASE Popped /\ j = rd.pos
  BY <1>1, <1>2, <1>5 DEF BlockInv, BlockOf
<1>6. CASE ~(Popped /\ i = rd.pos) /\ ~(Popped /\ j = rd.pos)
  BY <1>1, <1>2, <1>3, <1>6 DEF BlockInv
<1> QED  BY <1>4, <1>5, <1>6

\* One block gets a byte: that of the worker's part, unless the byte is stray.
LEMMA WriteBlocks ==
  ASSUME IInv, NEW w \in Workers, Writes(w)
  PROVE  /\ BlockInv' /\ DataInv' /\ Outstanding' = Outstanding
         /\ \A i : BlockOf(i)' = BlockOf(i)
         /\ late' # "stray" => \A i \in Outstanding : i # worker[w].ch.id => buf'[BlockOf(i)] = buf[BlockOf(i)]
<1> DEFINE c == worker[w].ch  b == c.buf
<1>1. TypeOK /\ StartOfNext /\ PhaseInv  BY DEF IInv
<1>2. /\ open /\ b \in Bufs /\ Len(buf[b].data) < buf[b].size
      /\ \A x \in Bufs : x # b => buf'[x] = buf[x]
      /\ buf'[b].used = buf[b].used /\ buf'[b].closed = buf[b].closed /\ buf'[b].size = buf[b].size
      /\ buf'[b].r = buf[b].r /\ Len(buf'[b].data) = Len(buf[b].data) + 1
  BY WriteDoes
<1>3. BlockInv /\ UNCHANGED <<len, part, next, bufMap, rd>>
  BY <1>2 DEF IInv, Writes, CopyUnit, RecopyUnit, partVars
<1>20. late' # "stray" =>
        /\ late # "stray" /\ c.id \in Outstanding /\ BlockOf(c.id) = b
        /\ \A k \in 1 .. Len(buf[b].data) + 1 : buf'[b].data[k] = StartOf(c.id) + k - 1
  <2>1. SUFFICES ASSUME late' # "stray"
        PROVE  /\ late # "stray" /\ c.id \in Outstanding /\ BlockOf(c.id) = b
               /\ \A k \in 1 .. Len(buf[b].data) + 1 : buf'[b].data[k] = StartOf(c.id) + k - 1
    OBVIOUS
  <2>2. CopyUnit(w) /\ late # "stray"  BY <2>1 DEF Writes, CopyUnit, RecopyUnit
  <2> QED  BY <2>2, CopyDoes
<1> HIDE DEF b, c
<1>4. maxPart' = maxPart /\ Bufs' = Bufs /\ NoBuf' = NoBuf /\ \A i : PartSize(i)' = PartSize(i) /\ StartOf(i)' = StartOf(i)
  BY <1>3, SameRequest DEF NoBuf
<1>5. (Popped' <=> Popped) /\ Outstanding' = Outstanding  BY <1>3, <1>4 DEF Popped, Outstanding
<1>6. \A i : BlockOf(i)' = BlockOf(i)  BY <1>3, <1>5 DEF BlockOf
<1>21. \A i \in Outstanding : BlockOf(i) \in Bufs  BY <1>2, PartBlock
<1>7. \A i \in Outstanding : BlockOf(i) # b => buf'[BlockOf(i)] = buf[BlockOf(i)]  BY <1>2, <1>21
<1>8. \A x \in Bufs : buf'[x].used = buf[x].used /\ buf'[x].closed = buf[x].closed  BY <1>2
<1>9. \A k : Taken(k)' = Taken(k)  BY <1>4, <1>8 DEF Taken
<1>10. next \in 0 .. maxPart /\ maxPart \in Nat /\ rd.pos \in 0 .. maxPart /\ rd.cur \in Bufs \cup {NoBuf}
  BY <1>1, Sizes, ReaderFields
<1>11. \A i \in rd.pos .. maxPart : bufMap[i] # NoBuf => bufMap[i] \in Bufs
  <2>1. \A i \in rd.pos .. maxPart : i \in -1 .. maxPart  BY <1>10
  <2> QED  BY <1>1, <2>1, MapFields
<1>12. BlockInv'
  <2>1. \A i \in rd.pos .. maxPart : bufMap[i] # NoBuf => buf'[bufMap[i]].used /\ ~buf'[bufMap[i]].closed
    BY <1>3, <1>8, <1>11 DEF BlockInv
  <2>2. /\ rd.cur # NoBuf => buf'[rd.cur].used
        /\ Popped \/ rd.pc = "finish" => ~buf'[rd.cur].closed
    BY <1>3, <1>8, <1>10 DEF BlockInv
  <2>3. \A x \in Bufs : ~buf'[x].used => ~buf'[x].closed  BY <1>3, <1>8 DEF BlockInv
  <2> QED  BY <1>3, <1>4, <1>5, <1>6, <1>9, <2>1, <2>2, <2>3 DEF BlockInv
<1>13. DataInv'
  <2>1. SUFFICES ASSUME NEW i \in Outstanding PROVE BlockHas(i, buf[BlockOf(i)])'
    BY <1>5 DEF DataInv
  <2>2. CASE BlockOf(i) # b
    <3> DEFINE d == buf[BlockOf(i)]
    <3>1. BlockHas(i, d)  BY <1>2, PartBlock
    <3>2. buf[BlockOf(i)]' = d  BY <1>6, <1>7, <2>2
    <3> HIDE DEF d
    <3> QED  BY <1>3, <1>4, <1>5, <1>20, <3>1, <3>2 DEF BlockHas
  <2>3. CASE BlockOf(i) = b
    <3> DEFINE d == buf[b]  e == buf'[b]
    <3>1. BlockHas(i, d) /\ Len(d.data) \in Nat /\ d.r \in Nat /\ d.size \in Nat
      <4>1. BlockHas(i, d)  BY <1>2, <2>3, PartBlock
      <4>2. Len(d.data) \in Nat /\ d.r \in 0 .. part /\ d.size \in 0 .. part /\ part \in Nat
        BY <1>1, <1>2, BlockFields, Sizes
      <4> QED  BY <4>1, <4>2
    <3>2. buf[BlockOf(i)]' = e  BY <1>2, <1>6, <2>3
    <3>3. e.size = d.size /\ e.r = d.r /\ Len(e.data) = Len(d.data) + 1 /\ Len(d.data) < d.size
      BY <1>2
    <3>4. late' # "stray" => \A k \in 1 .. Len(d.data) + 1 : e.data[k] = StartOf(i) + k - 1
      <4>1. SUFFICES ASSUME late' # "stray", i # c.id PROVE FALSE
        BY <1>20
      <4>2. BlockOf(i) # BlockOf(c.id)  BY <1>2, <1>20, <4>1, Distinct
      <4> QED  BY <1>20, <2>3, <4>1, <4>2
    <3> HIDE DEF d, e
    <3> QED  BY <1>3, <1>4, <1>5, <3>1, <3>2, <3>3, <3>4 DEF BlockHas
  <2> QED  BY <2>2, <2>3
<1>14. late' # "stray" => \A i \in Outstanding : i # c.id => buf'[BlockOf(i)] = buf[BlockOf(i)]
  BY <1>2, <1>7, <1>20, Distinct
<1> QED  BY <1>5, <1>6, <1>12, <1>13, <1>14 DEF c

-----------------------------------------------------------------------------
(* The places of the parts                                                 *)

LEMMA HeldNext ==
  ASSUME \A x \in Workers : \A c : c = worker'[x].ch /\ worker'[x].pc \in HoldingPcs => HeldOk(c)'
  PROVE  HeldInv'
BY DEF HeldInv, Holds, HeldOk, Linked

LEMMA QueuedNext ==
  ASSUME \A k \in 1 .. Len(chan') : \A c : c = chan'[k] => HeldOk(c)'
  PROVE  QueuedInv'
BY DEF QueuedInv, HeldOk, Linked

LEMMA LinkedNext ==
  ASSUME UNCHANGED <<len, part>>, NEW c, Linked(c), c.id \in Outstanding', BlockOf(c.id)' = BlockOf(c.id),
         buf'[BlockOf(c.id)].data = buf[BlockOf(c.id)].data
  PROVE  Linked(c)'
<1>1. PartSize(c.id)' = PartSize(c.id) /\ StartOf(c.id)' = StartOf(c.id)  BY SameRequest
<1> QED  BY <1>1 DEF Linked

\* No worker takes or leaves a part.
SameHolders ==
  \A x \in Workers : /\ worker'[x].pc \in HoldingPcs <=> worker[x].pc \in HoldingPcs
                     /\ Holds(x) => worker'[x].ch = worker[x].ch

LEMMA SameHeld ==
  ASSUME SameHolders, HeldInv, NEW x \in Workers, NEW c, c = worker'[x].ch, worker'[x].pc \in HoldingPcs
  PROVE  HeldOk(c) /\ Holds(x) /\ worker[x].ch = c
BY DEF SameHolders, Holds, HeldInv

\* Holders and queue stay: so does who has what, except for parts that leave full.
LEMMA PlaceKept ==
  ASSUME IInv, open, late # "stray", UNCHANGED <<len, part, next, chan, mu>>, SameHolders, ViewKept,
         rd'.pos \in Nat, rd.pos <= rd'.pos,
         \A i \in Outstanding : i \in Outstanding' \/ (PartFull(i) /\ i < rd'.pos),
         ctx' = "live" => ctx = "live",
         mu # "free" => bufMap'[next - 1] = bufMap[next - 1]
                        /\ buf'[bufMap[next - 1]].data = buf[bufMap[next - 1]].data
  PROVE  PlaceInv'
<1>1. PlaceInv /\ TypeOK /\ StartOfNext  BY DEF IInv
<1>2. \A i : PartSize(i)' = PartSize(i)  BY SameRequest
<1>3. rd.pos \in Nat /\ maxPart \in Nat  BY <1>1, Sizes, ReaderFields
<1>4. ASSUME NEW c \in Chunk, Linked(c), c.id \in Outstanding' PROVE Linked(c)'
  BY <1>4, LinkedNext DEF ViewKept
<1>5. ASSUME NEW c \in Chunk, Linked(c), c.id \notin Outstanding' PROVE c.got = c.size /\ c.id \in 0 .. rd'.pos - 1
  <2>1. c.id \in Ids  BY ChunkFields
  <2>2. c.id \in Nat  BY <1>3, <2>1 DEF Ids
  <2> QED  BY <1>5, <2>2 DEF Linked, PartFull
<1>6. ASSUME NEW c \in Chunk, HeldOk(c) PROVE HeldOk(c)'
  <2>1. CASE Linked(c) /\ c.got <= c.size
    BY <1>4, <1>5, <1>6, <2>1 DEF HeldOk
  <2>2. CASE c.got = c.size /\ c.id \in 0 .. rd.pos - 1
    <3>1. c.id \in 0 .. rd'.pos - 1  BY <1>3, <2>2
    <3> QED  BY <2>2, <3>1 DEF HeldOk
  <2> QED  BY <1>6, <2>1, <2>2 DEF HeldOk
<1>7. HeldInv' /\ QueuedInv'
  <2>1. ASSUME NEW x \in Workers, NEW c, c = worker'[x].ch, worker'[x].pc \in HoldingPcs
        PROVE  HeldOk(c)'
    <3>1. HeldOk(c) /\ Holds(x) /\ worker[x].ch = c  BY <1>1, <2>1, SameHeld DEF PlaceInv
    <3>2. c \in Chunk  BY <1>1, <3>1, WorkerFields
    <3> QED  BY <1>6, <3>1, <3>2
  <2>2. ASSUME NEW k \in 1 .. Len(chan), NEW c, c = chan[k] PROVE HeldOk(c)'
    <3>1. HeldOk(c)  BY <1>1, <2>2 DEF PlaceInv, QueuedInv
    <3>2. c \in Chunk  BY <1>1, <2>2, Types, Queue
    <3> QED  BY <1>6, <3>1, <3>2
  <2> QED  BY <2>1, <2>2, HeldNext, QueuedNext
<1>8. OneHolder'
  BY <1>1 DEF PlaceInv, OneHolder, SameHolders, Holds
<1>9. SendingInv'
  BY <1>1 DEF PlaceInv, SendingInv, SameHolders, Holds
<1>10. AllPlaced'
  <2>1. SUFFICES ASSUME ctx' = "live", NEW i \in Outstanding' PROVE Placed(i)'
    BY DEF AllPlaced
  <2>2. Placed(i)  BY <1>1, <2>1 DEF PlaceInv, AllPlaced, ViewKept
  <2>3. PartFull(i) => PartFull(i)'  BY <1>2, <2>1 DEF PartFull, ViewKept
  <2> QED  BY <2>2, <2>3 DEF Placed, SameHolders, Holds
<1> QED  BY <1>7, <1>8, <1>9, <1>10 DEF PlaceInv

\* The steps of a worker leave every block as it is.
LEMMA SameView ==
  ASSUME Still
  PROVE  /\ Outstanding' = Outstanding
         /\ \A i : BlockOf(i)' = BlockOf(i) /\ (PartFull(i)' <=> PartFull(i))
         /\ \A c : Linked(c)' <=> Linked(c)
         /\ \A c : HeldOk(c)' <=> HeldOk(c)
<1>1. maxPart' = maxPart /\ \A i : PartSize(i)' = PartSize(i) /\ StartOf(i)' = StartOf(i)  BY SameRequest DEF Still
<1>2. UNCHANGED <<next, bufMap, buf>> /\ rd'.pos = rd.pos /\ rd'.cur = rd.cur /\ (Popped' <=> Popped)  BY DEF Still
<1>3. Outstanding' = Outstanding  BY <1>2 DEF Outstanding
<1>4. \A i : BlockOf(i)' = BlockOf(i)  BY <1>2 DEF BlockOf
<1>5. \A i : PartFull(i)' <=> PartFull(i)  BY <1>1, <1>2, <1>4 DEF PartFull
<1>6. \A c : Linked(c)' <=> Linked(c)  BY <1>1, <1>2, <1>3, <1>4 DEF Linked
<1>7. \A c : HeldOk(c)' <=> HeldOk(c)  BY <1>2, <1>6 DEF HeldOk
<1> QED  BY <1>3, <1>4, <1>5, <1>6, <1>7

\* A worker goes on with its part, or leaves one that is full or not wanted.
LEMMA PlaceMoves ==
  ASSUME IInv, open, late # "stray", UNCHANGED <<len, part, next, bufMap, buf, rd, chan, mu>>, NEW w \in Workers,
         \A x \in Workers : x # w => worker'[x] = worker[x],
         worker'[w].pc \in HoldingPcs => Holds(w) /\ worker'[w].ch = worker[w].ch,
         Holds(w) /\ worker'[w].pc \notin HoldingPcs => ctx' # "live" \/ worker[w].ch.got >= worker[w].ch.size,
         ctx' = "live" => ctx = "live"
  PROVE  PlaceInv'
<1>1. PlaceInv /\ TypeOK /\ StartOfNext  BY DEF IInv
<1>2. /\ Outstanding' = Outstanding
      /\ \A i : BlockOf(i)' = BlockOf(i) /\ (PartFull(i)' <=> PartFull(i))
      /\ \A c : Linked(c)' <=> Linked(c)
      /\ \A c : HeldOk(c)' <=> HeldOk(c)
  BY StillWorker, SameView
<1>3. \A x \in Workers : worker'[x].pc \in HoldingPcs => Holds(x) /\ worker'[x].ch = worker[x].ch
  BY DEF Holds
<1>4. HeldInv'
  <2>1. SUFFICES ASSUME NEW x \in Workers, NEW c, c = worker'[x].ch, worker'[x].pc \in HoldingPcs
        PROVE  HeldOk(c)
    BY <1>2, HeldNext
  <2>2. Holds(x) /\ worker[x].ch = c  BY <1>3, <2>1
  <2> QED  BY <1>1, <2>2 DEF PlaceInv, HeldInv
<1>5. QueuedInv'  BY <1>1, <1>2, QueuedNext DEF PlaceInv, QueuedInv
<1>6. OneHolder'  BY <1>1, <1>3 DEF PlaceInv, OneHolder, Holds
<1>7. SendingInv'  BY <1>1, <1>3 DEF PlaceInv, SendingInv, Holds
<1>8. AllPlaced'
  <2>1. SUFFICES ASSUME ctx' = "live", NEW i \in Outstanding PROVE Placed(i)'
    BY <1>2 DEF AllPlaced
  <2>2. Placed(i)  BY <1>1, <2>1 DEF PlaceInv, AllPlaced
  <2>3. CASE ~\E x \in Workers : Holds(x) /\ worker[x].ch.id = i
    BY <1>2, <2>2, <2>3 DEF Placed
  <2>4. CASE \E x \in Workers : Holds(x) /\ worker[x].ch.id = i
    <3>1. PICK x \in Workers : Holds(x) /\ worker[x].ch.id = i  BY <2>4
    <3>2. CASE worker'[x].pc \in HoldingPcs
      BY <1>3, <3>1, <3>2 DEF Placed, Holds
    <3>3. CASE worker'[x].pc \notin HoldingPcs
      <4> DEFINE c == worker[x].ch
      <4>2. HeldOk(c)  BY <1>1, <3>1 DEF PlaceInv, HeldInv
      <4>1. x = w /\ c.got = c.size
        <5>1. x = w /\ c.got >= c.size  BY <2>1, <3>1, <3>3 DEF Holds
        <5>2. c \in Chunk  BY <1>1, WorkerFields
        <5>3. c.got \in Int /\ c.size \in Int  BY <1>1, <5>2, ChunkFields, Sizes
        <5> HIDE DEF c
        <5> QED  BY <4>2, <5>1, <5>3 DEF HeldOk
      <4>3. Linked(c)
        <5>1. rd.pos \in Nat /\ i \notin 0 .. rd.pos - 1  BY <1>1, Sizes, ReaderFields DEF Outstanding
        <5> QED  BY <3>1, <4>2, <5>1 DEF HeldOk
      <4>4. PartFull(i)  BY <3>1, <4>1, <4>3 DEF Linked, PartFull
      <4> QED  BY <1>2, <4>4 DEF Placed
    <3> QED  BY <3>2, <3>3
  <2> QED  BY <2>3, <2>4
<1> QED  BY <1>4, <1>5, <1>6, <1>7, <1>8 DEF PlaceInv

\* A part goes from the channel to a worker.
LEMMA PlaceTakes ==
  ASSUME IInv, open, late # "stray", NEW w \in Workers, WorkerTakes(w)
  PROVE  PlaceInv'
<1>1. PlaceInv /\ TypeOK /\ StartOfNext  BY DEF IInv
<1>2. UNCHANGED <<len, part, next, bufMap, buf, rd, mu, ctx>>  BY DEF WorkerTakes, partVars
<1>3. /\ Outstanding' = Outstanding
      /\ \A i : BlockOf(i)' = BlockOf(i) /\ (PartFull(i)' <=> PartFull(i))
      /\ \A c : Linked(c)' <=> Linked(c)
      /\ \A c : HeldOk(c)' <=> HeldOk(c)
  BY <1>2, StillWorker, SameView
<1>4. /\ \A x \in Workers : x # w => worker'[x] = worker[x]
      /\ worker[w].pc = "select" /\ worker'[w].pc = "request" /\ worker'[w].ch = chan[1]
      /\ Len(chan) \in Nat \ {0} /\ Len(chan') = Len(chan) - 1
      /\ \A k \in 1 .. Len(chan) - 1 : chan'[k] = chan[k + 1]
  BY <1>1, TakeDoes
<1>5. \A k \in 1 .. Len(chan') : k + 1 \in 1 .. Len(chan) /\ k + 1 # 1 /\ chan'[k] = chan[k + 1]
  BY <1>4
<1>6. 1 \in 1 .. Len(chan) /\ ~Holds(w)  BY <1>4 DEF Holds, HoldingPcs
<1>7. HeldInv'
  <2>1. SUFFICES ASSUME NEW x \in Workers, NEW c, c = worker'[x].ch, worker'[x].pc \in HoldingPcs
        PROVE  HeldOk(c)
    BY <1>3, HeldNext
  <2>2. CASE x # w
    BY <1>1, <1>4, <2>1, <2>2 DEF PlaceInv, HeldInv, Holds
  <2>3. CASE x = w
    BY <1>1, <1>4, <1>6, <2>1, <2>3 DEF PlaceInv, QueuedInv
  <2> QED  BY <2>2, <2>3
<1>8. QueuedInv'
  BY <1>1, <1>3, <1>5, QueuedNext DEF PlaceInv, QueuedInv
<1>9. OneHolder'
  <2>1. /\ \A v, x \in Workers : Holds(v) /\ Holds(x) /\ worker[v].ch.id = worker[x].ch.id => v = x
        /\ \A k, l \in 1 .. Len(chan) : chan[k].id = chan[l].id => k = l
        /\ \A x \in Workers, k \in 1 .. Len(chan) : Holds(x) => worker[x].ch.id # chan[k].id
    BY <1>1 DEF PlaceInv, OneHolder
  <2>2. \A v, x \in Workers : worker'[v].pc \in HoldingPcs /\ worker'[x].pc \in HoldingPcs
                                /\ worker'[v].ch.id = worker'[x].ch.id => v = x
    BY <1>4, <1>6, <2>1 DEF Holds
  <2>3. \A k, l \in 1 .. Len(chan') : chan'[k].id = chan'[l].id => k = l
    <3>1. SUFFICES ASSUME NEW k \in 1 .. Len(chan'), NEW l \in 1 .. Len(chan'), chan'[k].id = chan'[l].id
          PROVE  k = l
      OBVIOUS
    <3>2. k + 1 = l + 1  BY <1>5, <2>1, <3>1
    <3> QED  BY <1>4, <3>2
  <2>4. \A x \in Workers, k \in 1 .. Len(chan') : worker'[x].pc \in HoldingPcs => worker'[x].ch.id # chan'[k].id
    <3>1. SUFFICES ASSUME NEW x \in Workers, NEW k \in 1 .. Len(chan'), worker'[x].pc \in HoldingPcs
          PROVE  worker'[x].ch.id # chan[k + 1].id
      BY <1>5
    <3>2. CASE x = w  BY <1>4, <1>5, <1>6, <2>1, <3>1, <3>2
    <3>3. CASE x # w  BY <1>4, <1>5, <2>1, <3>1, <3>3 DEF Holds
    <3> QED  BY <3>2, <3>3
  <2> QED  BY <2>2, <2>3, <2>4 DEF OneHolder, Holds
<1>10. SendingInv'
  <2>1. mu # "free" => /\ bufMap[next - 1] # NoBuf /\ Len(buf[bufMap[next - 1]].data) = 0
                       /\ \A x \in Workers : Holds(x) => worker[x].ch.id # next - 1
                       /\ \A k \in 1 .. Len(chan) : chan[k].id # next - 1
    BY <1>1 DEF PlaceInv, SendingInv
  <2>2. mu # "free" => \A x \in Workers : worker'[x].pc \in HoldingPcs => worker'[x].ch.id # next - 1
    BY <1>4, <1>6, <2>1 DEF Holds
  <2>3. mu # "free" => \A k \in 1 .. Len(chan') : chan'[k].id # next - 1
    BY <1>5, <2>1
  <2> QED  BY <1>2, <2>1, <2>2, <2>3 DEF SendingInv, Holds, NoBuf
<1>11. AllPlaced'
  <2>1. SUFFICES ASSUME ctx' = "live", NEW i \in Outstanding PROVE Placed(i)'
    BY <1>3 DEF AllPlaced
  <2>2. Placed(i)  BY <1>1, <1>2, <2>1 DEF PlaceInv, AllPlaced
  <2>3. CASE \E x \in Workers : Holds(x) /\ worker[x].ch.id = i
    BY <1>4, <1>6, <2>3 DEF Placed, Holds
  <2>4. CASE \E k \in 1 .. Len(chan) : chan[k].id = i
    <3>1. PICK k \in 1 .. Len(chan) : chan[k].id = i  BY <2>4
    <3>2. CASE k = 1
      <4>1. worker'[w].pc \in HoldingPcs /\ worker'[w].ch.id = i  BY <1>4, <3>1, <3>2 DEF HoldingPcs
      <4> QED  BY <4>1 DEF Placed, Holds
    <3>3. CASE k # 1
      <4>1. k - 1 \in 1 .. Len(chan') /\ chan'[k - 1].id = i  BY <1>4, <3>1, <3>3
      <4> QED  BY <4>1 DEF Placed
    <3> QED  BY <3>2, <3>3
  <2>5. CASE PartFull(i)  BY <1>3, <2>5 DEF Placed
  <2>6. CASE mu # "free" /\ i = next - 1  BY <1>2, <2>6 DEF Placed
  <2> QED  BY <2>2, <2>3, <2>4, <2>5, <2>6 DEF Placed
<1> QED  BY <1>7, <1>8, <1>9, <1>10, <1>11 DEF PlaceInv

\* A part goes into the channel: from the worker that gives it up, or from the
\* process that dispatched it.
LEMMA PlaceQueues ==
  ASSUME IInv, open, late # "stray", Still, UNCHANGED ctx,
         NEW c \in Chunk, chan' = Append(chan, c), HeldOk(c),
         \A k \in 1 .. Len(chan) : chan[k].id # c.id,
         \A x \in Workers : worker'[x].pc \in HoldingPcs =>
            Holds(x) /\ worker'[x].ch = worker[x].ch /\ worker[x].ch.id # c.id,
         \A x \in Workers : Holds(x) /\ worker'[x].pc \notin HoldingPcs => worker[x].ch.id = c.id,
         mu' = mu \/ mu' = "free",
         mu # "free" => c.id = next - 1 \/ mu' = mu,
         mu' # "free" => c.id # next - 1
  PROVE  PlaceInv'
<1>1. PlaceInv /\ TypeOK /\ StartOfNext /\ UNCHANGED <<next, bufMap, buf>>  BY DEF IInv, Still
<1>2. /\ Outstanding' = Outstanding
      /\ \A i : BlockOf(i)' = BlockOf(i) /\ (PartFull(i)' <=> PartFull(i))
      /\ \A d : Linked(d)' <=> Linked(d)
      /\ \A d : HeldOk(d)' <=> HeldOk(d)
  BY SameView
<1>3. /\ Len(chan) \in Nat /\ Len(chan') = Len(chan) + 1 /\ chan'[Len(chan) + 1] = c
      /\ \A k \in 1 .. Len(chan) : chan'[k] = chan[k]
  BY <1>1, Types, QueueAppend
<1>4. \A k \in 1 .. Len(chan') : (k \in 1 .. Len(chan) /\ chan'[k] = chan[k]) \/ (k = Len(chan) + 1 /\ chan'[k] = c)
  BY <1>3
<1>5. HeldInv'
  <2>1. SUFFICES ASSUME NEW x \in Workers, NEW d, d = worker'[x].ch, worker'[x].pc \in HoldingPcs
        PROVE  HeldOk(d)
    BY <1>2, HeldNext
  <2>2. Holds(x) /\ worker[x].ch = d  BY <2>1
  <2> QED  BY <1>1, <2>2 DEF PlaceInv, HeldInv
<1>6. QueuedInv'
  <2>1. SUFFICES ASSUME NEW k \in 1 .. Len(chan'), NEW d, d = chan'[k] PROVE HeldOk(d)
    BY <1>2, QueuedNext
  <2>2. CASE k \in 1 .. Len(chan) /\ chan'[k] = chan[k]
    BY <1>1, <2>1, <2>2 DEF PlaceInv, QueuedInv
  <2>3. CASE chan'[k] = c  BY <2>1, <2>3
  <2> QED  BY <1>4, <2>2, <2>3
<1>7. OneHolder'
  <2>1. /\ \A v, x \in Workers : Holds(v) /\ Holds(x) /\ worker[v].ch.id = worker[x].ch.id => v = x
        /\ \A k, l \in 1 .. Len(chan) : chan[k].id = chan[l].id => k = l
        /\ \A x \in Workers, k \in 1 .. Len(chan) : Holds(x) => worker[x].ch.id # chan[k].id
    BY <1>1 DEF PlaceInv, OneHolder
  <2>2. \A v, x \in Workers : worker'[v].pc \in HoldingPcs /\ worker'[x].pc \in HoldingPcs
                                /\ worker'[v].ch.id = worker'[x].ch.id => v = x
    BY <2>1
  <2>3. \A k, l \in 1 .. Len(chan') : chan'[k].id = chan'[l].id => k = l
    BY <1>4, <2>1
  <2>4. \A x \in Workers, k \in 1 .. Len(chan') : worker'[x].pc \in HoldingPcs => worker'[x].ch.id # chan'[k].id
    BY <1>4, <2>1
  <2> QED  BY <2>2, <2>3, <2>4 DEF OneHolder, Holds
<1>8. SendingInv'
  <2>1. SUFFICES ASSUME mu' # "free" PROVE SendingInv'
    BY DEF SendingInv
  <2>2. /\ bufMap[next - 1] # NoBuf /\ Len(buf[bufMap[next - 1]].data) = 0
        /\ \A x \in Workers : Holds(x) => worker[x].ch.id # next - 1
        /\ \A k \in 1 .. Len(chan) : chan[k].id # next - 1
    BY <1>1, <2>1 DEF PlaceInv, SendingInv
  <2>3. \A x \in Workers : worker'[x].pc \in HoldingPcs => worker'[x].ch.id # next - 1  BY <2>2
  <2>4. \A k \in 1 .. Len(chan') : chan'[k].id # next - 1  BY <1>4, <2>1, <2>2
  <2> QED  BY <1>1, <2>2, <2>3, <2>4 DEF SendingInv, Holds, NoBuf
<1>9. AllPlaced'
  <2>1. SUFFICES ASSUME ctx' = "live", NEW i \in Outstanding PROVE Placed(i)'
    BY <1>2 DEF AllPlaced
  <2>2. Placed(i)  BY <1>1, <2>1 DEF PlaceInv, AllPlaced
  <2>3. CASE i = c.id
    <3>1. Len(chan) + 1 \in 1 .. Len(chan') /\ chan'[Len(chan) + 1].id = i  BY <1>3, <2>3
    <3> QED  BY <3>1 DEF Placed
  <2>4. CASE i # c.id
    <3>1. CASE PartFull(i)  BY <1>2, <3>1 DEF Placed
    <3>2. CASE \E x \in Workers : Holds(x) /\ worker[x].ch.id = i
      <4>1. PICK x \in Workers : Holds(x) /\ worker[x].ch.id = i  BY <3>2
      <4>2. worker'[x].pc \in HoldingPcs  BY <2>4, <4>1
      <4> QED  BY <4>1, <4>2 DEF Placed, Holds
    <3>3. CASE \E k \in 1 .. Len(chan) : chan[k].id = i
      <4>1. PICK k \in 1 .. Len(chan) : chan[k].id = i  BY <3>3
      <4>2. k \in 1 .. Len(chan') /\ chan'[k].id = i  BY <1>3, <4>1
      <4> QED  BY <4>2 DEF Placed
    <3>4. CASE mu # "free" /\ i = next - 1
      BY <1>1, <2>4, <3>4 DEF Placed
    <3> QED  BY <2>2, <3>1, <3>2, <3>3, <3>4 DEF Placed
  <2> QED  BY <2>3, <2>4
<1> QED  BY <1>5, <1>6, <1>7, <1>8, <1>9 DEF PlaceInv

\* The send is cancelled: the part is in no place any more, nor is it wanted.
LEMMA PlaceCancelled ==
  ASSUME IInv, open, late # "stray", Still, UNCHANGED <<ctx, chan>>, SameHolders,
         ctx # "live", mu' = "free"
  PROVE  PlaceInv'
<1>1. PlaceInv  BY DEF IInv
<1>2. /\ Outstanding' = Outstanding
      /\ \A d : Linked(d)' <=> Linked(d)
      /\ \A d : HeldOk(d)' <=> HeldOk(d)
  BY SameView
<1>3. HeldInv'
  <2>1. SUFFICES ASSUME NEW x \in Workers, NEW d, d = worker'[x].ch, worker'[x].pc \in HoldingPcs
        PROVE  HeldOk(d)
    BY <1>2, HeldNext
  <2> QED  BY <1>1, <2>1, SameHeld DEF PlaceInv
<1>4. QueuedInv'  BY <1>1, <1>2, QueuedNext DEF PlaceInv, QueuedInv
<1>5. OneHolder'  BY <1>1 DEF PlaceInv, OneHolder, SameHolders, Holds
<1>6. SendingInv'  BY DEF SendingInv
<1>7. AllPlaced'  BY DEF AllPlaced
<1> QED  BY <1>3, <1>4, <1>5, <1>6, <1>7 DEF PlaceInv

\* A new part, which its dispatcher is going to send.
LEMMA PlaceDispatch ==
  ASSUME IInv, open, late # "stray", Dispatches, SameHolders, UNCHANGED chan, mu' # "free", ctx' = ctx
  PROVE  PlaceInv'
<1>1. PlaceInv /\ TypeOK /\ StartOfNext /\ PhaseInv  BY DEF IInv
<1>2. ViewGrown  BY DispatchBlocks
<1>3. next' = next + 1 /\ len' = len /\ part' = part /\ mu = "free" /\ rd'.pos = rd.pos
  <2>1. PICK p \in Workers \cup {"reader"}, new \in BOOLEAN :
          SendDispatches(p, new) /\ mu = "free" /\ (rd' = rd \/ ReaderGoes("sending"))
    BY DEF Dispatches
  <2> QED  BY <2>1, DispatchDoes DEF ReaderGoes
<1>4. next \in Nat /\ rd.pos \in Nat /\ rd.pos <= next  BY <1>1, Sizes, ReaderFields DEF PhaseInv
<1>5. ASSUME NEW d, Linked(d) PROVE Linked(d)' /\ d.id # next
  <2>1. d.id \in Outstanding  BY <1>5 DEF Linked
  <2>2. d.id \in Outstanding' /\ d.id # next /\ BlockOf(d.id)' = BlockOf(d.id)
        /\ buf'[BlockOf(d.id)].data = buf[BlockOf(d.id)].data
    BY <1>2, <2>1 DEF ViewGrown
  <2> QED  BY <1>3, <1>5, <2>2, LinkedNext
<1>6. ASSUME NEW d, HeldOk(d) PROVE HeldOk(d)' /\ d.id # next
  <2>1. CASE Linked(d) /\ d.got <= d.size
    BY <1>5, <2>1 DEF HeldOk
  <2>2. CASE d.got = d.size /\ d.id \in 0 .. rd.pos - 1
    BY <1>3, <1>4, <2>2 DEF HeldOk
  <2> QED  BY <1>6, <2>1, <2>2 DEF HeldOk
<1>7. ASSUME NEW x \in Workers, NEW d, d = worker'[x].ch, worker'[x].pc \in HoldingPcs
      PROVE  HeldOk(d)' /\ d.id # next
  <2>1. HeldOk(d)  BY <1>1, <1>7, SameHeld DEF PlaceInv
  <2> QED  BY <1>6, <2>1
<1>8. HeldInv'  BY <1>7, HeldNext
<1>9. \A k \in 1 .. Len(chan) : \A d : d = chan[k] => HeldOk(d)' /\ d.id # next
  BY <1>1, <1>6 DEF PlaceInv, QueuedInv
<1>10. QueuedInv'  BY <1>9, QueuedNext
<1>11. OneHolder'  BY <1>1 DEF PlaceInv, OneHolder, SameHolders, Holds
<1>12. next' - 1 = next  BY <1>3, <1>4
<1>13. SendingInv'
  <2>1. bufMap'[next] # NoBuf /\ Len(buf'[bufMap'[next]].data) = 0  BY <1>2 DEF ViewGrown
  <2>2. \A x \in Workers : worker'[x].pc \in HoldingPcs => worker'[x].ch.id # next  BY <1>7
  <2>3. \A k \in 1 .. Len(chan') : chan'[k].id # next  BY <1>9
  <2> QED  BY <1>12, <2>1, <2>2, <2>3 DEF SendingInv, Holds, NoBuf
<1>14. AllPlaced'
  <2>1. SUFFICES ASSUME ctx' = "live", NEW i \in Outstanding' PROVE Placed(i)'
    BY DEF AllPlaced
  <2>2. CASE i = next  BY <1>12, <2>2 DEF Placed
  <2>3. CASE i \in Outstanding
    <3>1. Placed(i)  BY <1>1, <2>1, <2>3 DEF PlaceInv, AllPlaced
    <3>2. PartSize(i)' = PartSize(i) /\ BlockOf(i)' = BlockOf(i) /\ buf'[BlockOf(i)] = buf[BlockOf(i)]
      BY <1>2, <1>3, <2>3, SameRequest DEF ViewGrown
    <3>3. PartFull(i) => PartFull(i)'  BY <3>2 DEF PartFull
    <3> QED  BY <1>3, <3>1, <3>3 DEF Placed, SameHolders, Holds
  <2> QED  BY <1>2, <2>1, <2>2, <2>3 DEF ViewGrown
<1> QED  BY <1>8, <1>10, <1>11, <1>13, <1>14 DEF PlaceInv

\* A byte arrives at the one worker that has the part.
LEMMA PlaceCopies ==
  ASSUME IInv, late # "stray", NEW w \in Workers, CopyUnit(w)
  PROVE  PlaceInv'
<1> DEFINE c == worker[w].ch  b == c.buf
<1>1. TypeOK /\ StartOfNext /\ PhaseInv  BY DEF IInv
<1>2. /\ open /\ Linked(c) /\ c \in Chunk /\ b \in Bufs
      /\ c.got < c.size /\ c.id \in Outstanding /\ BlockOf(c.id) = b
  BY CopyDoes
<1>15. /\ Holds(w) /\ \A x \in Workers : x # w => worker'[x] = worker[x]
       /\ worker'[w].pc = worker[w].pc /\ worker'[w].ch.got = c.got + 1 /\ worker'[w].ch.id = c.id
       /\ worker'[w].ch.size = c.size /\ worker'[w].ch.start = c.start /\ worker'[w].ch.buf = b
       /\ Len(buf'[b].data) = Len(buf[b].data) + 1
  BY WriteDoes DEF Writes
<1>3. /\ Outstanding' = Outstanding
      /\ \A i : BlockOf(i)' = BlockOf(i)
      /\ \A i \in Outstanding : i # c.id => buf'[BlockOf(i)] = buf[BlockOf(i)]
  BY WriteBlocks DEF Writes, CopyUnit
<1>4. UNCHANGED <<len, part, next, bufMap, rd, mu, ctx, chan>>  BY DEF CopyUnit, partVars
<1>5. PlaceInv  BY <1>2 DEF IInv
<1>6. c.got \in Nat /\ c.size \in Nat
  <2>1. c.got \in Nat /\ c.size \in 0 .. part /\ part \in Nat  BY <1>1, <1>2, ChunkFields, Sizes
  <2> HIDE DEF c
  <2> QED  BY <2>1
<1>7. ASSUME NEW d, Linked(d), d.id # c.id PROVE Linked(d)'
  <2>1. d.id \in Outstanding  BY <1>7 DEF Linked
  <2> QED  BY <1>3, <1>4, <1>7, <2>1, LinkedNext
<1>8. /\ \A v, x \in Workers : Holds(v) /\ Holds(x) /\ worker[v].ch.id = worker[x].ch.id => v = x
      /\ \A k, l \in 1 .. Len(chan) : chan[k].id = chan[l].id => k = l
      /\ \A x \in Workers, k \in 1 .. Len(chan) : Holds(x) => worker[x].ch.id # chan[k].id
  BY <1>5 DEF PlaceInv, OneHolder
<1>9. \A x \in Workers : worker'[x].pc = worker[x].pc /\ worker'[x].ch.id = worker[x].ch.id  BY <1>15
<1>16. ASSUME NEW d, HeldOk(d), d.id # c.id PROVE HeldOk(d)'
  BY <1>4, <1>7, <1>16 DEF HeldOk
<1>10. HeldInv'
  <2>1. SUFFICES ASSUME NEW x \in Workers, NEW d, d = worker'[x].ch, worker'[x].pc \in HoldingPcs
        PROVE  HeldOk(d)'
    BY HeldNext
  <2>2. CASE x # w
    <3>1. d = worker[x].ch /\ Holds(x)  BY <1>15, <2>1, <2>2 DEF Holds
    <3>2. HeldOk(d) /\ d.id # c.id  BY <1>5, <1>8, <1>15, <2>2, <3>1 DEF PlaceInv, HeldInv
    <3> QED  BY <1>16, <3>2
  <2>3. CASE x = w
    <3>1. d.got = c.got + 1 /\ d.id = c.id /\ d.size = c.size /\ d.start = c.start /\ d.buf = b
      BY <1>15, <2>1, <2>3
    <3>2. c.size = PartSize(c.id) /\ c.start = StartOf(c.id) /\ c.got = Len(buf[b].data)  BY <1>2 DEF Linked
    <3>3. PartSize(d.id)' = PartSize(d.id) /\ StartOf(d.id)' = StartOf(d.id) /\ BlockOf(d.id)' = BlockOf(d.id)
      BY <1>3, <1>4, SameRequest
    <3>4. d.id \in Outstanding' /\ d.size = PartSize(d.id) /\ d.start = StartOf(d.id) /\ d.buf = BlockOf(d.id)
          /\ d.got = Len(buf'[d.buf].data)
      BY <1>2, <1>3, <1>15, <3>1, <3>2
    <3>5. Linked(d)'  BY <3>3, <3>4 DEF Linked
    <3>6. d.got <= d.size
      <4> HIDE DEF c
      <4> QED  BY <1>2, <1>6, <3>1
    <3> QED  BY <3>5, <3>6 DEF HeldOk
  <2> QED  BY <2>2, <2>3
<1>11. QueuedInv'
  <2>1. SUFFICES ASSUME NEW k \in 1 .. Len(chan), NEW d, d = chan[k] PROVE HeldOk(d)'
    BY <1>4, QueuedNext
  <2>2. HeldOk(d)  BY <1>5, <2>1 DEF PlaceInv, QueuedInv
  <2>3. d.id # c.id  BY <1>8, <1>15, <2>1
  <2> QED  BY <1>16, <2>2, <2>3
<1>12. OneHolder'  BY <1>4, <1>8, <1>9 DEF OneHolder, Holds
<1>13. SendingInv'
  <2>1. SUFFICES ASSUME mu # "free" PROVE SendingInv'
    BY <1>4 DEF SendingInv
  <2>2. /\ bufMap[next - 1] # NoBuf /\ Len(buf[bufMap[next - 1]].data) = 0
        /\ \A x \in Workers : Holds(x) => worker[x].ch.id # next - 1
        /\ \A k \in 1 .. Len(chan) : chan[k].id # next - 1
    BY <1>5, <2>1 DEF PlaceInv, SendingInv
  <2>3. next - 1 \in Outstanding
    <3>1. next \in Nat /\ rd.pos \in Nat /\ rd.pos < next  BY <1>1, <2>1, Sizes, ReaderFields DEF PhaseInv
    <3> QED  BY <3>1 DEF Outstanding
  <2>4. BlockOf(next - 1) = bufMap[next - 1]
    <3>1. Popped => bufMap[rd.pos] = NoBuf  BY <1>2 DEF IInv, BlockInv
    <3> QED  BY <2>2, <3>1 DEF BlockOf
  <2>5. next - 1 # c.id  BY <1>15, <2>2
  <2>6. Len(buf'[bufMap[next - 1]].data) = 0  BY <1>3, <2>2, <2>3, <2>4, <2>5
  <2> QED  BY <1>4, <1>9, <2>2, <2>6 DEF SendingInv, Holds, NoBuf
<1>14. AllPlaced'
  <2>1. SUFFICES ASSUME ctx' = "live", NEW i \in Outstanding PROVE Placed(i)'
    BY <1>3 DEF AllPlaced
  <2>2. Placed(i)  BY <1>4, <1>5, <2>1 DEF PlaceInv, AllPlaced
  <2>3. CASE i = c.id
    <3>1. worker'[w].pc \in HoldingPcs /\ worker'[w].ch.id = i  BY <1>15, <2>3 DEF Holds
    <3> QED  BY <3>1 DEF Placed, Holds
  <2>4. CASE i # c.id
    <3>1. PartSize(i)' = PartSize(i) /\ BlockOf(i)' = BlockOf(i) /\ buf'[BlockOf(i)] = buf[BlockOf(i)]
      BY <1>3, <1>4, <2>4, SameRequest
    <3>2. PartFull(i) => PartFull(i)'  BY <3>1 DEF PartFull
    <3> QED  BY <1>4, <1>9, <2>2, <3>2 DEF Placed, Holds
  <2> QED  BY <2>3, <2>4
<1> QED  BY <1>10, <1>11, <1>12, <1>13, <1>14 DEF PlaceInv

\* A chunk that was dispatched and is not queued: it is the last one, and empty.
LEMMA Sent ==
  ASSUME IInv, late # "stray", mu # "free", NEW c \in Chunk, c.id = next - 1, c.start = StartOf(next - 1),
         c.size = PartSize(next - 1), c.buf = bufMap[next - 1], c.got = 0
  PROVE  /\ HeldOk(c) /\ open
         /\ \A x \in Workers : Holds(x) => worker[x].ch.id # c.id
         /\ \A k \in 1 .. Len(chan) : chan[k].id # c.id
<1>1. TypeOK /\ StartOfNext /\ PhaseInv  BY DEF IInv
<1>2. open /\ rd.pos < next  BY <1>1 DEF PhaseInv
<1>3. PlaceInv /\ BlockInv  BY <1>2 DEF IInv
<1>4. /\ bufMap[next - 1] # NoBuf /\ Len(buf[bufMap[next - 1]].data) = 0
      /\ \A w \in Workers : Holds(w) => worker[w].ch.id # next - 1
      /\ \A k \in 1 .. Len(chan) : chan[k].id # next - 1
  BY <1>3 DEF PlaceInv, SendingInv
<1>5. next \in Nat /\ rd.pos \in Nat  BY <1>1, Sizes, ReaderFields
<1>6. next - 1 \in Outstanding /\ next - 1 \in Nat  BY <1>2, <1>5 DEF Outstanding
<1>7. BlockOf(next - 1) = bufMap[next - 1]  BY <1>3, <1>4 DEF BlockInv, BlockOf
<1>8. 0 <= PartSize(next - 1)
  <2>1. PartSize(next - 1) \in 1 .. part /\ part \in Nat  BY <1>1, <1>6, Sizes
  <2> QED  BY <2>1
<1>9. Linked(c)  BY <1>4, <1>6, <1>7 DEF Linked
<1>10. HeldOk(c)
  <2>1. c.got <= c.size  BY <1>8
  <2> QED  BY <1>9, <2>1 DEF HeldOk
<1> QED  BY <1>2, <1>4, <1>10

\* The reader's steps and those of the client
LEMMA PlaceReader ==
  ASSUME IInv, open, late # "stray", ReaderStep \/ ReaderCloses \/ ClientLeaves \/ UNCHANGED vars, open'
  PROVE  PlaceInv'
<1>1. TypeOK /\ StartOfNext /\ PhaseInv /\ BlockInv /\ PlaceInv  BY DEF IInv
<1>2. next \in 0 .. maxPart /\ maxPart \in Nat /\ rd.pos \in 0 .. maxPart  BY <1>1, Sizes, ReaderFields
<1>3. UNCHANGED worker => SameHolders  BY DEF SameHolders, Holds
<1>4. ASSUME Still, UNCHANGED <<chan, mu, worker>>, ctx' = "live" => ctx = "live"
      PROVE  PlaceInv'
  <2>1. ViewKept  BY <1>4, StillBlocks
  <2>2. UNCHANGED <<len, part, next, bufMap, buf>> /\ rd'.pos = rd.pos  BY <1>4 DEF Still
  <2>3. Outstanding' = Outstanding  BY <2>2 DEF Outstanding
  <2> QED  BY <1>2, <1>3, <1>4, <2>1, <2>2, <2>3, PlaceKept
<1>5. CASE DownloadStarts \/ ReaderSendsNothing \/ ReaderStops \/ ReaderCloses
  <2>1. Still  BY <1>5, ReaderStill
  <2>2. UNCHANGED <<chan, mu, worker>>
    BY <1>5 DEF DownloadStarts, ReaderSendsNothing, ReaderStops, ReaderCloses
  <2>3. ctx' = "live" => ctx = "live"
    BY <1>5 DEF DownloadStarts, ReaderSendsNothing, ReaderStops, ReaderCloses, Cancel
  <2> QED  BY <1>4, <2>1, <2>2, <2>3
<1>6. CASE ClientLeaves \/ UNCHANGED vars
  <2>1. UNCHANGED <<len, part, next, bufMap, buf, rd, chan, mu, worker>>  BY <1>6 DEF ClientLeaves, vars, partVars
  <2>2. ctx' = "live" => ctx = "live"  BY <1>6 DEF ClientLeaves, vars
  <2> QED  BY <1>4, <2>1, <2>2, StillWorker
<1>7. CASE ReaderPops
  <2>1. ViewKept  BY <1>7, PopBlocks
  <2>2. UNCHANGED <<len, part, next, buf, chan, mu, worker, ctx>> /\ mu = "free"  BY <1>7 DEF ReaderPops, partVars
  <2>3. rd'.pos = rd.pos  BY <1>7, PopDoes
  <2>4. Outstanding' = Outstanding  BY <2>2, <2>3 DEF Outstanding
  <2> QED  BY <1>2, <1>3, <2>1, <2>2, <2>3, <2>4, PlaceKept
<1>8. CASE ReaderFinishes
  <2>1. ViewKept  BY <1>8, FinishBlocks
  <2>2. UNCHANGED <<len, part, next, chan, mu, worker, ctx>> /\ mu = "free"  BY <1>8 DEF ReaderFinishes, partVars
  <2>3. rd'.pos = rd.pos  BY <1>8, FinishDoes DEF ReaderGoes
  <2>4. Outstanding' = Outstanding  BY <2>2, <2>3 DEF Outstanding
  <2> QED  BY <1>2, <1>3, <2>1, <2>2, <2>3, <2>4, PlaceKept
<1>9. ASSUME NEW n \in 1 .. part, ReaderReads(n) PROVE PlaceInv'
  <2>1. ViewKept  BY <1>9, ReadBlocks
  <2>2. UNCHANGED <<len, part, next, chan, mu, worker, bufMap, ctx>>  BY <1>9 DEF ReaderReads, partVars
  <2>3. rd' = rd \/ (rd'.pos = rd.pos + 1 /\ PartFull(rd.pos))  BY <1>9, ReadDoes
  <2>4. rd'.pos \in Nat /\ rd.pos <= rd'.pos  BY <1>2, <2>3
  <2>5. \A i \in Outstanding : i \in Outstanding' \/ (PartFull(i) /\ i < rd'.pos)
    <3>1. SUFFICES ASSUME NEW i \in Outstanding PROVE i \in Outstanding' \/ (PartFull(i) /\ i < rd'.pos)
      OBVIOUS
    <3>2. CASE rd' = rd  BY <2>2, <3>2 DEF Outstanding
    <3>3. CASE rd'.pos = rd.pos + 1 /\ PartFull(rd.pos)  BY <1>2, <2>2, <3>1, <3>3 DEF Outstanding
    <3> QED  BY <2>3, <3>2, <3>3
  <2>6. mu # "free" => buf'[bufMap[next - 1]].data = buf[bufMap[next - 1]].data
    <3>1. SUFFICES ASSUME mu # "free" PROVE buf'[bufMap[next - 1]].data = buf[bufMap[next - 1]].data
      OBVIOUS
    <3>2. bufMap[next - 1] # NoBuf /\ rd.pos < next  BY <1>1, <3>1 DEF PlaceInv, SendingInv, PhaseInv
    <3>3. next - 1 \in -1 .. maxPart  BY <1>2
    <3>4. bufMap[next - 1] \in Bufs  BY <1>1, <3>2, <3>3, MapFields
    <3> QED  BY <1>9, <3>4, ReadDoes
  <2> QED  BY <1>3, <2>1, <2>2, <2>4, <2>5, <2>6, PlaceKept
<1>10. CASE ReaderSent
  <2>1. rd.pc = "sending" /\ UNCHANGED <<len, part, next, bufMap, buf, worker, ctx, open>> /\ mu' = "free"
    BY <1>10 DEF ReaderSent, partVars
  <2>2. mu = "reader" /\ mu # "free"  BY <1>1, <2>1 DEF PhaseInv
  <2>3. Still /\ rd'.pos = rd.pos  BY <1>10, ReaderStill DEF Still
  <2>4. (next = 1) \in BOOLEAN  OBVIOUS
  <2>5. CASE SendQueues(next = 1)
    <3>1. PICK c \in Chunk : /\ chan' = Append(chan, c) /\ c.id = next - 1
                             /\ c.start = StartOf(next - 1) /\ c.size = PartSize(next - 1)
                             /\ c.buf = bufMap[next - 1] /\ c.got = 0
      BY <2>2, <2>4, <2>5, QueuesDoes
    <3>2. /\ HeldOk(c)
          /\ \A x \in Workers : Holds(x) => worker[x].ch.id # c.id
          /\ \A k \in 1 .. Len(chan) : chan[k].id # c.id
      BY <2>2, <3>1, Sent
    <3> QED  BY <2>1, <2>3, <3>1, <3>2, PlaceQueues DEF Holds
  <2>6. CASE SendCancelled(next = 1)
    BY <1>3, <2>1, <2>3, <2>6, PlaceCancelled DEF SendCancelled
  <2> QED  BY <1>10, <2>5, <2>6 DEF ReaderSent
<1>11. CASE ReaderSends
  <2>1. SendDispatches("reader", next = 0) /\ rd' = [rd EXCEPT !.pc = "sending"] /\ rd.pc = "send" /\ mu = "free"
        /\ UNCHANGED <<chan, ctx>>
    BY <1>11 DEF ReaderSends
  <2>2. (next = 0) \in BOOLEAN  OBVIOUS
  <2>3. ReaderGoes("sending")
    <3>1. UNCHANGED <<len, part>>  BY <2>1 DEF SendDispatches, Dispatch
    <3> QED  BY <1>1, <2>1, <3>1, ReaderGoto DEF RdPcs
  <2>4. Dispatches  BY <2>1, <2>2, <2>3 DEF Dispatches
  <2>5. mu' # "free"  BY <2>1 DEF SendDispatches
  <2>6. SameHolders
    <3>1. CASE next = 0
      <4>1. PICK w \in Workers : ~Live(w) /\ Goto(w, "select")  BY <1>11, <3>1 DEF ReaderSends
      <4>2. Moves(w, {"select"})  BY <1>1, <4>1, GotoMoves DEF WorkerPcs
      <4> QED  BY <4>1, <4>2 DEF Moves, SameHolders, Holds, HoldingPcs, Live
    <3>2. CASE next # 0
      BY <1>3, <1>11, <3>2 DEF ReaderSends
    <3> QED  BY <3>1, <3>2
  <2> QED  BY <2>1, <2>4, <2>5, <2>6, PlaceDispatch
<1> QED
  BY <1>5, <1>6, <1>7, <1>8, <1>9, <1>10, <1>11 DEF ReaderStep, DownloadFails, Interrupt

\* The steps of the workers
LEMMA PlaceWorker ==
  ASSUME IInv, open, late # "stray", NEW w \in Workers, WorkerStep(w), ~RecopyUnit(w)
  PROVE  PlaceInv'
<1>1. TypeOK /\ StartOfNext /\ PhaseInv /\ BlockInv /\ PlaceInv  BY DEF IInv
<1>2. ASSUME NEW l \in WorkerPcs, Goto(w, l)
      PROVE  /\ worker'[w].pc = l /\ worker'[w].ch = worker[w].ch
             /\ \A x \in Workers : x # w => worker'[x] = worker[x]
  BY <1>1, <1>2, GotoMoves DEF Moves
<1>3. ASSUME NEW l \in WorkerPcs, Goto(w, l), UNCHANGED <<len, part, next, bufMap, buf, rd, chan, mu>>,
             ctx' = "live" => ctx = "live",
             l \in HoldingPcs => Holds(w), Holds(w) /\ l \notin HoldingPcs => ctx' # "live"
      PROVE  PlaceInv'
  BY <1>2, <1>3, PlaceMoves
<1>4. CASE WorkerTakes(w)  BY <1>4, PlaceTakes
<1>5. CASE WorkerLeaves(w)
  <2>1. Goto(w, "exit") /\ UNCHANGED <<len, part, next, bufMap, buf, rd, chan, mu, ctx>> /\ worker[w].pc = "select"
    BY <1>5 DEF WorkerLeaves, At, partVars
  <2> QED  BY <1>3, <2>1 DEF WorkerPcs, HoldingPcs, Holds
<1>6. CASE WorkerReleases(w)
  <2>1. UNCHANGED <<len, part, next, bufMap, buf, rd, chan, mu, ctx>>  BY <1>6 DEF WorkerReleases, partVars
  <2>2. /\ worker[w].pc = "exit" /\ worker'[w].pc = "none"
        /\ \A x \in Workers : x # w => worker'[x] = worker[x]
    BY <1>1, <1>6, ReleaseDoes
  <2> QED  BY <2>1, <2>2, PlaceMoves DEF HoldingPcs, Holds
<1>7. CASE RequestAnswered(w)
  <2>1. Goto(w, "send") /\ UNCHANGED <<len, part, next, bufMap, buf, rd, chan, mu, ctx>> /\ worker[w].pc = "request"
    BY <1>7 DEF RequestAnswered, At, partVars
  <2> QED  BY <1>3, <2>1 DEF WorkerPcs, HoldingPcs, Holds
<1>8. CASE RequestRefused(w)
  <2>1. /\ UNCHANGED <<len, part, next, bufMap, buf, rd, chan, mu, ctx>> /\ worker[w].pc = "request"
        /\ Goto(w, "delay") \/ Goto(w, "overload")
    BY <1>8 DEF RequestRefused, At, partVars
  <2> QED  BY <1>3, <2>1 DEF WorkerPcs, HoldingPcs, Holds
<1>9. CASE RequestFails(w)
  <2>1. Goto(w, "exit") /\ UNCHANGED <<len, part, next, bufMap, buf, rd, chan, mu>> /\ worker[w].pc = "request"
        /\ ctx' # "live"
    BY <1>9 DEF RequestFails, At, partVars, Cancel
  <2> QED  BY <1>3, <2>1 DEF WorkerPcs, HoldingPcs, Holds
<1>10. ASSUME Retry(w, worker[w].ch.got), UNCHANGED <<len, part, next, bufMap, buf, rd, chan, mu>>, Holds(w)
       PROVE  PlaceInv'
  <2>1. /\ Moves(w, {"request", "exit"})
        /\ worker'[w].pc = "exit" => ctx' # "live"
        /\ ctx' = "live" => ctx = "live"
    BY <1>1, <1>10, RetryMoves
  <2>2. /\ worker'[w].pc \in {"request", "exit"} /\ worker'[w].ch = worker[w].ch
        /\ \A x \in Workers : x # w => worker'[x] = worker[x]
    BY <2>1 DEF Moves
  <2> QED  BY <1>10, <2>1, <2>2, PlaceMoves DEF HoldingPcs
<1>11. CASE DelayEnds(w)
  <2>1. worker[w].pc = "delay" /\ Retry(w, worker[w].ch.got) /\ UNCHANGED <<len, part, next, bufMap, buf, rd, chan, mu>>
    BY <1>11 DEF DelayEnds, At, partVars
  <2> QED  BY <1>10, <2>1 DEF Holds, HoldingPcs
<1>12. CASE CopyFails(w) \/ RecopyFails(w)
  <2>1. worker[w].pc \in {"copy", "recopy"} /\ Retry(w, worker[w].ch.got)
        /\ UNCHANGED <<len, part, next, bufMap, buf, rd, chan, mu>>
    BY <1>12 DEF CopyFails, RecopyFails, At, partVars
  <2> QED  BY <1>10, <2>1 DEF Holds, HoldingPcs
<1>13. CASE Overloaded(w)
  <2>1. /\ UNCHANGED <<len, part, next, bufMap, buf, rd, chan, mu, ctx>> /\ worker[w].pc = "overload"
        /\ Goto(w, "requeue") \/ Goto(w, "request") \/ (ctx # "live" /\ Goto(w, "exit"))
    BY <1>13 DEF Overloaded, At, partVars
  <2> QED  BY <1>3, <2>1 DEF WorkerPcs, HoldingPcs, Holds
<1>14. CASE Requeue(w)
  <2>1. UNCHANGED <<len, part, next, bufMap, buf, rd, mu, ctx>> /\ worker[w].pc = "requeue"
    BY <1>14 DEF Requeue, At, partVars
  <2>2. CASE ctx # "live" /\ Goto(w, "exit") /\ UNCHANGED chan
    BY <1>3, <2>1, <2>2 DEF WorkerPcs, HoldingPcs, Holds
  <2>3. CASE open /\ chan' = Append(chan, worker[w].ch) /\ Goto(w, "exit")
    <3> DEFINE c == worker[w].ch
    <3>1. Holds(w) /\ c \in Chunk  BY <1>1, <2>1, WorkerFields DEF Holds, HoldingPcs
    <3>3. HeldOk(c)  BY <1>1, <3>1 DEF PlaceInv, HeldInv
    <3>4. /\ worker'[w].pc = "exit" /\ \A x \in Workers : x # w => worker'[x] = worker[x]
      BY <1>2, <2>3 DEF WorkerPcs
    <3>5. /\ \A k \in 1 .. Len(chan) : chan[k].id # c.id
          /\ \A x \in Workers : Holds(x) /\ x # w => worker[x].ch.id # c.id
      BY <1>1, <3>1 DEF PlaceInv, OneHolder
    <3>6. mu # "free" => c.id # next - 1  BY <1>1, <3>1 DEF PlaceInv, SendingInv
    <3>7. Still  BY <2>1, StillWorker
    <3>8. \A x \in Workers : worker'[x].pc \in HoldingPcs =>
            Holds(x) /\ worker'[x].ch = worker[x].ch /\ worker[x].ch.id # c.id
      BY <3>4, <3>5 DEF Holds, HoldingPcs
    <3>9. \A x \in Workers : Holds(x) /\ worker'[x].pc \notin HoldingPcs => worker[x].ch.id = c.id
      BY <3>4 DEF Holds
    <3> HIDE DEF c
    <3>10. chan' = Append(chan, c)  BY <2>3 DEF c
    <3> QED  BY <2>1, <3>1, <3>3, <3>5, <3>6, <3>7, <3>8, <3>9, <3>10, PlaceQueues
  <2> QED  BY <1>14, <2>2, <2>3 DEF Requeue
<1>15. CASE WorkerSends(w)
  <2>1. SendDispatches(w, TRUE) /\ worker[w].pc = "send" /\ rd' = rd /\ mu = "free" /\ UNCHANGED <<chan, ctx>>
    BY <1>15 DEF WorkerSends, At
  <2>2. next > 0
    <3>1. next \in Nat  BY <1>1, Sizes
    <3> QED  BY <1>1, <2>1, <3>1 DEF PhaseInv, Live
  <2>3. Dispatches  BY <2>1, <2>2 DEF Dispatches
  <2>4. mu' # "free"  BY <2>1, DownloaderAssumption DEF SendDispatches
  <2>5. SameHolders
    <3>1. PICK v \in Workers : ~Live(v) /\ worker' = [worker EXCEPT ![w].pc = "sending", ![v].pc = "select"]
      BY <1>15 DEF WorkerSends
    <3>2. /\ v # w
          /\ \A x \in Workers : x # w /\ x # v => worker'[x] = worker[x]
          /\ worker'[w].pc = "sending" /\ worker'[w].ch = worker[w].ch
          /\ worker'[v].pc = "select"
      BY <1>1, <2>1, <3>1, StartsWorker
    <3> QED  BY <2>1, <3>1, <3>2 DEF SameHolders, Holds, HoldingPcs, Live
  <2> QED  BY <2>1, <2>3, <2>4, <2>5, PlaceDispatch
<1>16. CASE WorkerSendsNothing(w)
  <2>1. /\ UNCHANGED <<len, part, next, bufMap, buf, rd, chan, mu, ctx>> /\ worker[w].pc = "send"
        /\ Goto(w, "copy") \/ Goto(w, "recopy")
    BY <1>16 DEF WorkerSendsNothing, Receive, At, partVars
  <2> QED  BY <1>3, <2>1 DEF WorkerPcs, HoldingPcs, Holds
<1>17. CASE WorkerSent(w)
  <2>1. /\ UNCHANGED <<len, part, next, bufMap, buf, rd, ctx>> /\ worker[w].pc = "sending" /\ mu' = "free"
        /\ Goto(w, "copy") \/ Goto(w, "recopy")
    BY <1>17 DEF WorkerSent, Receive, At, partVars
  <2>2. mu # "free"  BY <1>1, <2>1, DownloaderAssumption DEF PhaseInv, At
  <2>3. Still  BY <2>1, StillWorker
  <2>4. /\ worker'[w].pc \in {"copy", "recopy"} /\ worker'[w].ch = worker[w].ch
        /\ \A x \in Workers : x # w => worker'[x] = worker[x]
    BY <1>2, <2>1 DEF WorkerPcs
  <2>5. CASE SendQueues(TRUE)
    <3>1. PICK c \in Chunk : /\ chan' = Append(chan, c) /\ c.id = next - 1
                             /\ c.start = StartOf(next - 1) /\ c.size = PartSize(next - 1)
                             /\ c.buf = bufMap[next - 1] /\ c.got = 0
      BY <2>2, <2>5, QueuesDoes
    <3>2. /\ HeldOk(c)
          /\ \A x \in Workers : Holds(x) => worker[x].ch.id # c.id
          /\ \A k \in 1 .. Len(chan) : chan[k].id # c.id
      BY <2>2, <3>1, Sent
    <3>3. \A x \in Workers : worker'[x].pc \in HoldingPcs =>
            Holds(x) /\ worker'[x].ch = worker[x].ch /\ worker[x].ch.id # c.id
      BY <2>1, <2>4, <3>2 DEF Holds, HoldingPcs
    <3>4. \A x \in Workers : Holds(x) /\ worker'[x].pc \notin HoldingPcs => worker[x].ch.id = c.id
      BY <2>4 DEF Holds, HoldingPcs
    <3> QED  BY <2>1, <2>3, <3>1, <3>2, <3>3, <3>4, PlaceQueues
  <2>6. CASE SendCancelled(TRUE)
    <3>1. SameHolders  BY <2>1, <2>4 DEF SameHolders, Holds, HoldingPcs
    <3> QED  BY <2>1, <2>3, <2>6, <3>1, PlaceCancelled DEF SendCancelled
  <2> QED  BY <1>17, <2>5, <2>6 DEF WorkerSent
<1>18. CASE CopyUnit(w)  BY <1>18, PlaceCopies
<1>19. CASE CopyEnds(w) \/ RecopyEnds(w)
  <2>1. Goto(w, "select") /\ UNCHANGED <<len, part, next, bufMap, buf, rd, chan, mu, ctx>>
        /\ worker[w].ch.got >= worker[w].ch.size
    <3> DEFINE g == worker[w].ch.got  z == worker[w].ch.size
    <3>1. g \in Int /\ z \in Int  BY <1>1, WorkerFields, ChunkFields, Sizes
    <3>2. g >= z
      <4>1. g >= z \/ g = z  BY <1>19 DEF CopyEnds, RecopyEnds, Over
      <4> HIDE DEF g, z
      <4> QED  BY <3>1, <4>1
    <3>3. Goto(w, "select") /\ UNCHANGED <<len, part, next, bufMap, buf, rd, chan, mu, ctx>>
      BY <1>19 DEF CopyEnds, RecopyEnds, partVars
    <3> QED  BY <3>2, <3>3
  <2>2. /\ worker'[w].pc = "select" /\ \A x \in Workers : x # w => worker'[x] = worker[x]
    BY <1>2, <2>1 DEF WorkerPcs
  <2> QED  BY <2>1, <2>2, PlaceMoves DEF HoldingPcs
<1> QED
  BY <1>4, <1>5, <1>6, <1>7, <1>8, <1>9, <1>11, <1>12, <1>13, <1>14, <1>15, <1>16, <1>17, <1>18, <1>19 DEF WorkerStep

LEMMA PlaceStep ==
  ASSUME IInv, [Next]_vars, open', late' # "stray"
  PROVE  PlaceInv'
<1>1. open /\ late # "stray" /\ \A w \in Workers : ~RecopyUnit(w)  BY Shapes, LateStep
<1> QED  BY <1>1, PlaceReader, PlaceWorker DEF Next

\* Which blocks there are, and what is in them
LEMMA BlocksStep ==
  ASSUME IInv, [Next]_vars, open'
  PROVE  BlockInv' /\ DataInv'
BY Shapes, LateStep, StillBlocks, PopBlocks, FinishBlocks, DispatchBlocks, ReadBlocks, WriteBlocks

\* The part that is being sent keeps its block: nobody pops or recycles meanwhile.
LEMMA SendBlockStep ==
  ASSUME IInv, [Next]_vars, open'
  PROVE  SendBlock'
<1>1. TypeOK /\ StartOfNext /\ PhaseInv  BY DEF IInv
<1>2. open /\ SendBlock  BY Shapes DEF IInv
<1>3. next \in 0 .. maxPart /\ maxPart \in Nat  BY <1>1, Sizes
<1>4. ASSUME UNCHANGED <<next, bufMap>>, mu' # "free" => mu # "free" PROVE SendBlock'
  BY <1>2, <1>4 DEF SendBlock, NoBuf
<1>5. ASSUME NEW p, NEW new, p \in Workers \cup {"reader"}, new \in BOOLEAN, SendDispatches(p, new) PROVE SendBlock'
  <2>1. next' = next + 1 /\ NextBuf \in Bufs  BY <1>5, DispatchDoes
  <2>2. bufMap' = [bufMap EXCEPT ![next] = NextBuf]  BY <1>5 DEF SendDispatches
  <2>3. bufMap \in [-1 .. maxPart -> Bufs \cup {NoBuf}] /\ next \in -1 .. maxPart  BY <1>1, <1>3, Types
  <2>4. bufMap'[next] \in Bufs  BY <2>1, <2>2, <2>3
  <2>5. bufMap'[next] # NoBuf  BY <1>1, <2>4, MapFields
  <2>6. next' - 1 = next  BY <1>3, <2>1
  <2> QED  BY <2>5, <2>6 DEF SendBlock, NoBuf
<1>6. ASSUME mu' = "free" PROVE SendBlock'
  BY <1>6 DEF SendBlock
<1>7. CASE ReaderStep
  <2>1. CASE ReaderSends
    <3>1. SendDispatches("reader", next = 0) /\ (next = 0) \in BOOLEAN  BY <2>1 DEF ReaderSends
    <3> QED  BY <1>5, <3>1
  <2>2. CASE ReaderPops \/ ReaderFinishes \/ Interrupt \/ DownloadFails
    BY <1>6, <2>2 DEF ReaderPops, ReaderFinishes, Interrupt, DownloadFails
  <2> QED
    BY <1>4, <1>6, <1>7, <2>1, <2>2 DEF ReaderStep, DownloadStarts, ReaderSendsNothing, ReaderSent, ReaderStops,
         ReaderReads, partVars
<1>8. ASSUME NEW w \in Workers, WorkerStep(w) PROVE SendBlock'
  <2>1. CASE WorkerSends(w)
    <3>1. SendDispatches(w, TRUE)  BY <2>1 DEF WorkerSends
    <3> QED  BY <1>5, <3>1
  <2> QED
    BY <1>4, <1>6, <1>8, <2>1 DEF WorkerStep, WorkerTakes, WorkerLeaves, WorkerReleases, RequestAnswered, RequestRefused,
         RequestFails, DelayEnds, Overloaded, Requeue, WorkerSendsNothing, WorkerSent, CopyUnit, CopyEnds, CopyFails,
         RecopyUnit, RecopyEnds, RecopyFails, partVars
<1>9. CASE ReaderCloses \/ ClientLeaves \/ UNCHANGED vars
  BY <1>4, <1>9 DEF ReaderCloses, ClientLeaves, vars, partVars
<1> QED  BY <1>7, <1>8, <1>9 DEF Next

\* Until a body fails after its last byte, no worker goes on with a complete part.
LEMMA FreshStep ==
  ASSUME IInv, [Next]_vars
  PROVE  Fresh'
<1> SUFFICES ASSUME late' = "none" PROVE Fresh'
  BY DEF Fresh
<1>1. TypeOK /\ StartOfNext /\ PhaseInv  BY DEF IInv
<1>2. late = "none"  BY LateStep
<1>3. /\ \A x \in Workers : Holds(x) /\ ~At(x, "copy") => worker[x].ch.got < worker[x].ch.size
      /\ \A k \in 1 .. Len(chan) : chan[k].got < chan[k].size
  BY <1>2 DEF IInv, Fresh
<1>4. chan \in Seq(Chunk) /\ worker \in [Workers -> WorkerRec]  BY <1>1, Types
<1> DEFINE Ok(x) == worker'[x].pc \in HoldingPcs /\ worker'[x].pc # "copy" => worker'[x].ch.got < worker'[x].ch.size
           OkChan == \A k \in 1 .. Len(chan') : chan'[k].got < chan'[k].size
<1>5. SUFFICES (\A x \in Workers : Ok(x)) /\ OkChan
  BY DEF Fresh, Holds, At
<1>6. UNCHANGED chan => OkChan  BY <1>3
<1>7. ASSUME NEW x \in Workers, worker'[x] = worker[x] PROVE Ok(x)
  BY <1>3, <1>7 DEF Holds, At
<1>8. ASSUME NEW c \in Chunk, chan' = Append(chan, c), c.got < c.size PROVE OkChan
  <2>1. /\ Len(chan) \in Nat /\ Len(chan') = Len(chan) + 1 /\ chan'[Len(chan) + 1] = c
        /\ \A k \in 1 .. Len(chan) : chan'[k] = chan[k]
    BY <1>4, <1>8, QueueAppend
  <2>2. \A k \in 1 .. Len(chan') : (k \in 1 .. Len(chan) /\ chan'[k] = chan[k]) \/ chan'[k] = c
    BY <2>1
  <2> QED  BY <1>3, <1>8, <2>2
<1>9. ASSUME NEW new \in BOOLEAN, mu # "free", SendQueues(new) \/ SendCancelled(new) PROVE OkChan
  <2>1. CASE SendQueues(new)
    <3>1. PICK c \in Chunk : chan' = Append(chan, c) /\ c.size = PartSize(next - 1) /\ c.got = 0
      BY <1>9, <2>1, QueuesDoes
    <3>2. next - 1 \in Nat /\ part \in Nat
      <4>1. next - 1 \in 0 .. maxPart - 1 /\ maxPart \in Nat /\ part \in Nat  BY <1>1, <1>9, <2>1, QueuesDoes, Sizes
      <4> QED  BY <4>1
    <3>3. PartSize(next - 1) \in 1 .. part  BY <1>1, <3>2, Sizes
    <3>4. c.got < c.size  BY <3>1, <3>2, <3>3
    <3> QED  BY <1>8, <3>1, <3>4
  <2>2. CASE SendCancelled(new)
    BY <1>6, <2>2 DEF SendCancelled
  <2> QED  BY <1>9, <2>1, <2>2
<1>10. CASE ReaderStep
  <2>1. CASE ReaderSent
    <3>1. rd.pc = "sending" /\ UNCHANGED worker /\ (SendQueues(next = 1) \/ SendCancelled(next = 1))
      BY <2>1 DEF ReaderSent
    <3>2. mu # "free" /\ (next = 1) \in BOOLEAN  BY <1>1, <3>1 DEF PhaseInv
    <3> QED  BY <1>7, <1>9, <3>1, <3>2
  <2>2. CASE ReaderSends
    <3>1. UNCHANGED chan  BY <2>2 DEF ReaderSends
    <3>2. CASE UNCHANGED worker  BY <1>6, <1>7, <3>1, <3>2
    <3>3. CASE \E w \in Workers : Goto(w, "select")
      <4>1. PICK w \in Workers : Goto(w, "select")  BY <3>3
      <4>2. worker'[w].pc = "select" /\ \A x \in Workers : x # w => worker'[x] = worker[x]
        BY <1>1, <4>1, GotoMoves DEF Moves, WorkerPcs
      <4> QED  BY <1>6, <1>7, <3>1, <4>2 DEF HoldingPcs
    <3> QED  BY <2>2, <3>2, <3>3 DEF ReaderSends
  <2>3. CASE ~ReaderSent /\ ~ReaderSends
    <3>1. UNCHANGED <<worker, chan>>
      BY <1>10, <2>3 DEF ReaderStep, DownloadStarts, ReaderSendsNothing, DownloadFails, ReaderPops, ReaderReads,
           ReaderStops, ReaderFinishes, Interrupt
    <3> QED  BY <1>6, <1>7, <3>1
  <2> QED  BY <2>1, <2>2, <2>3
<1>11. ASSUME NEW w \in Workers, NEW l \in WorkerPcs, Goto(w, l), UNCHANGED chan,
             l \in HoldingPcs /\ l # "copy" => worker[w].ch.got < worker[w].ch.size
       PROVE (\A x \in Workers : Ok(x)) /\ OkChan
  <2>1. worker'[w].pc = l /\ worker'[w].ch = worker[w].ch /\ \A x \in Workers : x # w => worker'[x] = worker[x]
    BY <1>1, <1>11, GotoMoves DEF Moves
  <2> QED  BY <1>6, <1>7, <1>11, <2>1
<1>12. ASSUME NEW w \in Workers, Retry(w, worker[w].ch.got), UNCHANGED chan, worker[w].ch.got < worker[w].ch.size
       PROVE (\A x \in Workers : Ok(x)) /\ OkChan
  <2>1. worker'[w].ch = worker[w].ch /\ \A x \in Workers : x # w => worker'[x] = worker[x]
    BY <1>1, <1>12, RetryMoves DEF Moves
  <2> QED  BY <1>6, <1>7, <1>12, <2>1
<1>13. ASSUME NEW w \in Workers, WorkerStep(w) PROVE (\A x \in Workers : Ok(x)) /\ OkChan
  <2>1. worker[w].ch.got \in Int /\ worker[w].ch.size \in Int  BY <1>1, WorkerFields, ChunkFields, Sizes
  <2>2. Holds(w) /\ ~At(w, "copy") => worker[w].ch.got < worker[w].ch.size  BY <1>3
  <2>3. At(w, "request") \/ At(w, "delay") \/ At(w, "overload") \/ At(w, "requeue") \/ At(w, "send")
           \/ At(w, "sending") \/ At(w, "recopy") => worker[w].ch.got < worker[w].ch.size
    BY <2>2 DEF At, Holds, HoldingPcs
  <2>4. ASSUME Receive(w), At(w, "send") \/ At(w, "sending") PROVE Goto(w, "copy")
    BY <2>1, <2>3, <2>4 DEF Receive, Over
  <2>5. CASE WorkerTakes(w)
    <3>1. /\ \A x \in Workers : x # w => worker'[x] = worker[x]
          /\ worker'[w].ch = chan[1] /\ Len(chan) \in Nat \ {0} /\ Len(chan') = Len(chan) - 1
          /\ \A k \in 1 .. Len(chan) - 1 : chan'[k] = chan[k + 1]
      BY <1>1, <2>5, TakeDoes
    <3>2. \A k \in 1 .. Len(chan') : k + 1 \in 1 .. Len(chan) /\ chan'[k] = chan[k + 1]  BY <3>1
    <3>3. 1 \in 1 .. Len(chan)  BY <3>1
    <3> QED  BY <1>3, <1>7, <3>1, <3>2, <3>3
  <2>6. CASE WorkerLeaves(w) \/ RequestAnswered(w) \/ RequestRefused(w) \/ RequestFails(w) \/ Overloaded(w)
               \/ CopyEnds(w) \/ RecopyEnds(w)
    <3>1. UNCHANGED chan /\ \E l \in {"exit", "send", "delay", "overload", "requeue", "request", "select"} :
            /\ Goto(w, l)
            /\ At(w, "request") \/ At(w, "overload") \/ l \in {"exit", "select"}
      BY <2>6 DEF WorkerLeaves, RequestAnswered, RequestRefused, RequestFails, Overloaded, CopyEnds, RecopyEnds
    <3> QED  BY <1>11, <2>3, <3>1 DEF WorkerPcs, HoldingPcs
  <2>7. CASE WorkerReleases(w)
    <3>1. UNCHANGED chan /\ worker'[w].pc = "none" /\ \A x \in Workers : x # w => worker'[x] = worker[x]
      BY <1>1, <2>7, ReleaseDoes DEF WorkerReleases
    <3> QED  BY <1>6, <1>7, <3>1 DEF HoldingPcs
  <2>8. CASE DelayEnds(w) \/ RecopyFails(w)
    BY <1>12, <2>3, <2>8 DEF DelayEnds, RecopyFails
  <2>9. CASE CopyFails(w)
    <3>1. ~Over(w)  BY <1>2, <2>9 DEF CopyFails
    <3> QED  BY <1>12, <2>1, <2>9, <3>1 DEF CopyFails, Over
  <2>10. CASE Requeue(w)
    <3>1. CASE UNCHANGED chan /\ (Goto(w, "exit") \/ Goto(w, "panic"))
      BY <1>11, <3>1 DEF WorkerPcs, HoldingPcs
    <3>2. CASE chan' = Append(chan, worker[w].ch) /\ Goto(w, "exit")
      <4>1. worker[w].ch.got < worker[w].ch.size /\ worker[w].ch \in Chunk
        BY <1>1, <2>3, <2>10, WorkerFields DEF Requeue
      <4>2. OkChan  BY <1>8, <3>2, <4>1
      <4>3. worker'[w].pc = "exit" /\ \A x \in Workers : x # w => worker'[x] = worker[x]
        BY <1>1, <3>2, GotoMoves DEF Moves, WorkerPcs
      <4> QED  BY <1>7, <4>2, <4>3 DEF HoldingPcs
    <3> QED  BY <2>10, <3>1, <3>2 DEF Requeue
  <2>11. CASE WorkerSends(w)
    <3>1. PICK v \in Workers : ~Live(v) /\ worker' = [worker EXCEPT ![w].pc = "sending", ![v].pc = "select"]
      BY <2>11 DEF WorkerSends
    <3>2. UNCHANGED chan /\ worker[w].pc = "send" /\ worker[w].ch.got < worker[w].ch.size
      BY <2>3, <2>11 DEF WorkerSends, At
    <3>3. /\ \A x \in Workers : x # w /\ x # v => worker'[x] = worker[x]
          /\ worker'[w].ch = worker[w].ch /\ worker'[v].pc = "select"
      BY <1>1, <3>1, <3>2, StartsWorker
    <3> QED  BY <1>6, <1>7, <3>2, <3>3 DEF HoldingPcs
  <2>12. CASE WorkerSendsNothing(w)
    <3>1. UNCHANGED chan /\ Goto(w, "copy")  BY <2>4, <2>12 DEF WorkerSendsNothing
    <3> QED  BY <1>11, <3>1 DEF WorkerPcs
  <2>13. CASE WorkerSent(w)
    <3>1. Goto(w, "copy") /\ (SendQueues(TRUE) \/ SendCancelled(TRUE)) /\ worker[w].pc = "sending"
      BY <2>4, <2>13 DEF WorkerSent, At
    <3>2. mu # "free"  BY <1>1, <3>1, DownloaderAssumption DEF PhaseInv, At
    <3>3. OkChan  BY <1>9, <3>1, <3>2
    <3>4. worker'[w].pc = "copy" /\ \A x \in Workers : x # w => worker'[x] = worker[x]
      BY <1>1, <3>1, GotoMoves DEF Moves, WorkerPcs
    <3> QED  BY <1>7, <3>3, <3>4
  <2>14. CASE CopyUnit(w)
    <3>1. worker'[w].pc = "copy" /\ UNCHANGED chan /\ \A x \in Workers : x # w => worker'[x] = worker[x]
      BY <2>14, WriteDoes DEF Writes, CopyUnit, At
    <3> QED  BY <1>6, <1>7, <3>1
  <2>15. ~RecopyUnit(w)  BY LateStep
  <2> QED
    BY <1>13, <2>5, <2>6, <2>7, <2>8, <2>9, <2>10, <2>11, <2>12, <2>13, <2>14, <2>15 DEF WorkerStep
<1>14. CASE ReaderCloses \/ ClientLeaves \/ UNCHANGED vars
  <2>1. UNCHANGED <<worker, chan>>  BY <1>14 DEF ReaderCloses, ClientLeaves, vars
  <2> QED  BY <1>6, <1>7, <2>1
<1> QED  BY <1>10, <1>13, <1>14 DEF Next

-----------------------------------------------------------------------------
(* The number of blocks                                                    *)

LEMMA Counts ==
  ASSUME TypeOK, StartOfNext
  PROVE  /\ next \in Nat /\ maxPart \in Nat /\ rd.pos \in Nat /\ Concurrent \in Nat /\ conc \in Int
         /\ Slack \in Nat /\ Spare \in Nat /\ ToStart \in Nat
         /\ IsFiniteSet(OpenBlocks) /\ Cardinality(OpenBlocks) \in Nat
<1>1. /\ next \in Nat /\ maxPart \in Nat /\ rd.pos \in Nat /\ Concurrent \in Nat
  BY Sizes, ReaderFields
<1>2. conc \in Int  BY Types
<1>3. Slack \in Nat /\ Spare \in Nat /\ ToStart \in Nat  BY <1>2 DEF Slack, Spare, ToStart, Bit
<1>4. IsFiniteSet(Bufs)
  <2>1. IsFiniteSet(1 .. maxPart + 1)  BY <1>1, FS_Interval
  <2> QED  BY <2>1 DEF Bufs
<1>5. OpenBlocks \subseteq Bufs  BY DEF OpenBlocks
<1>6. IsFiniteSet(OpenBlocks)  BY <1>4, <1>5, FS_Subset
<1>7. Cardinality(OpenBlocks) \in Nat  BY <1>6, FS_CardinalityType
<1> QED  BY <1>1, <1>2, <1>3, <1>6, <1>7

LEMMA CountNext ==
  ASSUME IInv, open, UNCHANGED <<len, part>>, NEW k \in {0, 1},
         next' \in Nat, rd'.pos \in Nat, conc' \in Int, Cardinality(OpenBlocks') \in Nat,
         next' - rd'.pos + Slack' + ToStart' <= next - rd.pos + Slack + ToStart,
         Cardinality(OpenBlocks') <= Cardinality(OpenBlocks) + k,
         next - rd.pos + Spare + k <= next' - rd'.pos + Spare'
  PROVE  CountInv'
<1>1. TypeOK /\ StartOfNext /\ CountInv  BY DEF IInv
<1>2. Slack' \in Nat /\ Spare' \in Nat /\ ToStart' \in Nat  BY DEF Slack, Spare, ToStart, Bit
<1>3. Concurrent' = Concurrent  BY SameRequest
<1>4. next' - rd'.pos + Slack' + ToStart' <= Concurrent  BY <1>1, <1>2, Counts DEF CountInv
<1>5. Cardinality(OpenBlocks') <= next' - rd'.pos + Spare'  BY <1>1, <1>2, Counts DEF CountInv
<1> QED  BY <1>3, <1>4, <1>5 DEF CountInv

\* No block is taken or closed.
LEMMA CountKept ==
  ASSUME IInv, open, UNCHANGED <<len, part, next>>, rd'.pos \in Nat, conc' \in Int, ToStart' <= ToStart,
         OpenBlocks' = OpenBlocks,
         Slack' - rd'.pos <= Slack - rd.pos,
         Spare - rd.pos <= Spare' - rd'.pos
  PROVE  CountInv'
<1>1. TypeOK /\ StartOfNext  BY DEF IInv
<1>2. Slack' \in Nat /\ Spare' \in Nat /\ ToStart' \in Nat  BY DEF Slack, Spare, ToStart, Bit
<1>3. Cardinality(OpenBlocks') = Cardinality(OpenBlocks)  OBVIOUS
<1>4. next' - rd'.pos + Slack' + ToStart' <= next - rd.pos + Slack + ToStart  BY <1>1, <1>2, Counts
<1>5. next - rd.pos + Spare + 0 <= next' - rd'.pos + Spare'  BY <1>1, <1>2, Counts
<1>6. Cardinality(OpenBlocks') \in Nat /\ Cardinality(OpenBlocks') <= Cardinality(OpenBlocks) + 0  BY <1>1, <1>3, Counts
<1>7. next' \in Nat  BY <1>1, Counts
<1> QED  BY <1>4, <1>5, <1>6, <1>7, CountNext

LEMMA CountStill ==
  ASSUME IInv, open, Still, conc' \in Int, ToStart' <= ToStart
  PROVE  CountInv'
<1>1. TypeOK /\ StartOfNext /\ PhaseInv  BY DEF IInv
<1>2. UNCHANGED <<len, part, next, bufMap, buf>> /\ rd'.pos = rd.pos /\ (rd'.pc = "finish" <=> rd.pc = "finish")
  BY DEF Still
<1>3. maxPart' = maxPart /\ Bufs' = Bufs  BY <1>2, SameRequest
<1>4. next \in Nat /\ maxPart \in Nat /\ rd.pos \in Nat  BY <1>1, Counts
<1>5. OpenBlocks' = OpenBlocks  BY <1>2, <1>3 DEF OpenBlocks
<1>6. Spare' = Spare  BY <1>2, <1>3 DEF Spare, Bit, NoBuf
<1>7. rd'.pc = "send" /\ 0 < next => rd.pc = "send"  BY <1>1, <1>4 DEF Still, PhaseInv
<1>8. Slack' <= Slack  BY <1>2, <1>3, <1>4, <1>7 DEF Slack, Bit, NoBuf
<1>9. Slack' \in Nat /\ Slack \in Nat /\ Spare \in Nat  BY DEF Slack, Spare, Bit
<1> QED  BY <1>2, <1>4, <1>5, <1>6, <1>8, <1>9, CountKept

LEMMA CountPops ==
  ASSUME IInv, ReaderPops
  PROVE  CountInv'
<1>1. TypeOK /\ StartOfNext  BY DEF IInv
<1>2. /\ open /\ rd.pc = "pop" /\ rd.pos < next /\ rd.pos \in 0 .. maxPart - 1
      /\ rd'.pc = "read" /\ rd'.pos = rd.pos
      /\ \A i \in 0 .. maxPart : i # rd.pos => bufMap'[i] = bufMap[i]
  BY PopDoes
<1>3. UNCHANGED <<len, part, next, buf, conc>>  BY DEF ReaderPops, partVars
<1>4. maxPart' = maxPart /\ Bufs' = Bufs  BY <1>3, SameRequest
<1>5. next \in 0 .. maxPart /\ maxPart \in Nat /\ conc \in Int /\ ToStart \in Nat  BY <1>1, Counts, Sizes
<1>6. bufMap'[next] = bufMap[next] /\ bufMap'[maxPart] = bufMap[maxPart]  BY <1>2, <1>5
<1>7. OpenBlocks' = OpenBlocks  BY <1>3, <1>4 DEF OpenBlocks
<1>8. Spare' = Spare  BY <1>2, <1>3, <1>4, <1>6 DEF Spare, Bit, NoBuf
<1>9. Slack' = Slack  BY <1>2, <1>3, <1>4, <1>6 DEF Slack, Bit, NoBuf
<1>10. ToStart' = ToStart  BY <1>3 DEF ToStart
<1>11. Slack \in Nat /\ Spare \in Nat /\ rd.pos \in Nat  BY <1>1, Counts
<1> QED  BY <1>2, <1>3, <1>5, <1>7, <1>8, <1>9, <1>10, <1>11, CountKept

LEMMA CountReads ==
  ASSUME IInv, NEW n \in 1 .. part, ReaderReads(n)
  PROVE  CountInv'
<1>1. TypeOK /\ StartOfNext  BY DEF IInv
<1>2. /\ open /\ rd.pc = "read" /\ rd.pos \in 0 .. maxPart - 1 /\ rd.cur \in Bufs
      /\ \A b \in Bufs : b # rd.cur => buf'[b] = buf[b]
      /\ buf'[rd.cur].used = buf[rd.cur].used /\ buf'[rd.cur].closed = buf[rd.cur].closed
      /\ rd' = rd \/ (rd'.pos = rd.pos + 1 /\ rd'.pc = IF rd.pos + 1 >= maxPart THEN "eof" ELSE "finish")
  BY ReadDoes
<1>3. UNCHANGED <<len, part, next, bufMap, conc>>  BY DEF ReaderReads, partVars
<1>4. maxPart' = maxPart /\ Bufs' = Bufs  BY <1>3, SameRequest
<1>5. maxPart \in Nat /\ conc \in Int /\ ToStart \in Nat /\ rd.pos \in Nat  BY <1>1, Counts
<1>6. OpenBlocks' = OpenBlocks  BY <1>2, <1>4 DEF OpenBlocks
<1>7. ToStart' = ToStart  BY <1>3 DEF ToStart
<1>8. Slack \in Nat /\ Spare \in Nat  BY <1>1, Counts
<1>9. CASE rd' = rd
  <2>1. Spare' = Spare /\ Slack' = Slack  BY <1>3, <1>4, <1>9 DEF Spare, Slack, Bit, NoBuf
  <2> QED  BY <1>2, <1>3, <1>5, <1>6, <1>7, <1>8, <1>9, <2>1, CountKept
<1>10. CASE rd'.pos = rd.pos + 1 /\ rd'.pc = IF rd.pos + 1 >= maxPart THEN "eof" ELSE "finish"
  <2>1. (rd'.pc = "finish" \/ rd'.pos = maxPart) /\ rd'.pc # "send"  BY <1>2, <1>5, <1>10
  <2>2. ~(rd.pc = "finish" \/ rd.pos = maxPart) /\ rd.pc # "send"  BY <1>2, <1>5
  <2>3. Spare' = Spare + 1  BY <1>3, <1>4, <2>1, <2>2 DEF Spare, Bit, NoBuf
  <2>4. Slack' = Slack + 1  BY <1>3, <1>4, <2>1, <2>2 DEF Slack, Bit, NoBuf
  <2>5. rd'.pos \in Nat /\ Slack' - rd'.pos <= Slack - rd.pos /\ Spare - rd.pos <= Spare' - rd'.pos
    BY <1>5, <1>8, <1>10, <2>3, <2>4
  <2> QED  BY <1>2, <1>3, <1>5, <1>6, <1>7, <2>5, CountKept
<1> QED  BY <1>2, <1>9, <1>10

LEMMA CountFinishes ==
  ASSUME IInv, ReaderFinishes
  PROVE  CountInv'
<1>1. TypeOK /\ StartOfNext  BY DEF IInv
<1>2. /\ open /\ rd.pc = "finish" /\ rd.pos < maxPart /\ rd.cur \in Bufs /\ next \in 0 .. maxPart
      /\ buf[rd.cur].used /\ ~buf[rd.cur].closed
  BY FinishDoes
<1>3. UNCHANGED <<len, part, next, conc>>  BY DEF ReaderFinishes, partVars
<1>4. maxPart' = maxPart /\ Bufs' = Bufs /\ NoBuf' = NoBuf  BY <1>3, SameRequest DEF NoBuf
<1>5. maxPart \in Nat /\ conc \in Int /\ ToStart \in Nat /\ rd.pos \in Nat /\ next \in Nat  BY <1>1, Counts
<1>6. ToStart' = ToStart  BY <1>3 DEF ToStart
<1>7. Slack \in Nat /\ Spare \in Nat  BY <1>1, Counts
<1>8. IsFiniteSet(OpenBlocks) /\ Cardinality(OpenBlocks) \in Nat  BY <1>1, Counts
<1>9. \A b \in Bufs : b # NoBuf  BY <1>1, MapFields
<1>10. CASE /\ bufMap[next] = NoBuf /\ UNCHANGED buf /\ ReaderGoes("send")
            /\ bufMap'[next] = rd.cur
            /\ \A i \in -1 .. maxPart : i # next => bufMap'[i] = bufMap[i]
  <2>1. rd'.pc = "send" /\ rd'.pos = rd.pos  BY <1>10 DEF ReaderGoes
  <2>2. OpenBlocks' = OpenBlocks  BY <1>4, <1>10 DEF OpenBlocks
  <2>3. Spare = 1  BY <1>2, <1>10 DEF Spare, Bit
  <2>4. Spare' = 1  BY <1>2, <1>3, <1>4, <1>5, <1>9, <1>10, <2>1 DEF Spare, Bit
  <2>5. Slack >= 1  BY <1>2 DEF Slack, Bit
  <2>6. Slack' <= 1  BY <1>2, <1>3, <1>4, <1>5, <2>1 DEF Slack, Bit
  <2>7. Slack' \in Nat  BY DEF Slack, Bit
  <2>8. Slack' - rd'.pos <= Slack - rd.pos /\ Spare - rd.pos <= Spare' - rd'.pos
    BY <1>5, <1>7, <2>1, <2>3, <2>4, <2>5, <2>6, <2>7
  <2> QED  BY <1>2, <1>3, <1>5, <1>6, <2>1, <2>2, <2>8, CountKept
<1>11. CASE /\ bufMap[next] # NoBuf /\ UNCHANGED bufMap /\ ReaderGoes("pop")
            /\ \A b \in Bufs : b # rd.cur => buf'[b] = buf[b]
            /\ buf'[rd.cur].closed
  <2>1. rd'.pc = "pop" /\ rd'.pos = rd.pos  BY <1>11 DEF ReaderGoes
  <2>2. OpenBlocks' = OpenBlocks \ {rd.cur} /\ rd.cur \in OpenBlocks  BY <1>2, <1>4, <1>11 DEF OpenBlocks
  <2>3. Cardinality(OpenBlocks') = Cardinality(OpenBlocks) - 1 /\ Cardinality(OpenBlocks) >= 1
    <3>1. IsFiniteSet(OpenBlocks') /\ Cardinality(OpenBlocks') = Cardinality(OpenBlocks) - 1
      BY <1>8, <2>2, FS_RemoveElement
    <3>2. Cardinality(OpenBlocks') \in Nat  BY <3>1, FS_CardinalityType
    <3> QED  BY <1>8, <3>1, <3>2
  <2>4. Spare = Spare' + 1 /\ Slack = Slack' + 1  BY <1>2, <1>3, <1>4, <1>5, <1>11, <2>1 DEF Spare, Slack, Bit
  <2>5. Slack' \in Nat /\ Spare' \in Nat  BY DEF Slack, Spare, Bit
  <2>6. next' - rd'.pos + Slack' + ToStart' <= next - rd.pos + Slack + ToStart  BY <1>3, <1>5, <1>6, <2>1, <2>4, <2>5
  <2>7. CountInv'
    <3>1. CountInv /\ Concurrent' = Concurrent  BY <1>2, <1>3, SameRequest DEF IInv
    <3>2. next' - rd'.pos + Slack' + ToStart' <= Concurrent  
      BY <1>1, <1>3, <1>5, <1>6, <2>1, <2>4, <2>5, <3>1, Counts DEF CountInv
    <3>3. Cardinality(OpenBlocks') <= next' - rd'.pos + Spare'
      BY <1>3, <1>5, <1>8, <2>1, <2>3, <2>4, <2>5, <3>1 DEF CountInv
    <3> QED  BY <3>1, <3>2, <3>3 DEF CountInv
  <2> QED  BY <2>7
<1> QED  BY <1>10, <1>11, FinishDoes

LEMMA CountDispatches ==
  ASSUME IInv, Dispatches
  PROVE  CountInv'
<1>1. TypeOK /\ StartOfNext /\ PhaseInv  BY DEF IInv
<1>2. PICK p \in Workers \cup {"reader"}, new \in BOOLEAN :
        /\ SendDispatches(p, new) /\ mu = "free"
        /\ \/ rd' = rd /\ next > 0 /\ new
           \/ rd.pc = "send" /\ ReaderGoes("sending") /\ (new <=> next = 0)
  BY DEF Dispatches
<1>3. /\ open /\ next < maxPart /\ next' = next + 1 /\ len' = len /\ part' = part
      /\ NextBuf \in Bufs
      /\ \A i \in -1 .. maxPart : i # next => bufMap'[i] = bufMap[i]
      /\ \A b \in Bufs : b # NextBuf => buf'[b] = buf[b]
      /\ buf'[NextBuf].used /\ ~buf[NextBuf].closed /\ ~buf'[NextBuf].closed
      /\ bufMap[next] = NoBuf => ~buf[NextBuf].used
      /\ bufMap[next] # NoBuf => NextBuf = bufMap[next] /\ buf[NextBuf].used
  BY <1>2, DispatchDoes
<1>4. maxPart' = maxPart /\ Bufs' = Bufs /\ NoBuf' = NoBuf  BY <1>3, SameRequest DEF NoBuf
<1>5. next \in Nat /\ maxPart \in Nat /\ rd.pos \in Nat /\ conc \in Int  BY <1>1, Counts
<1>6. BlockInv  BY <1>3 DEF IInv
<1>7. /\ \A i \in next + 1 .. maxPart : bufMap[i] = NoBuf
  BY <1>6 DEF BlockInv
<1>8. bufMap'[next + 1] = NoBuf /\ bufMap'[maxPart] = NoBuf /\ bufMap[maxPart] = NoBuf
  <2>1. next + 1 \in next + 1 .. maxPart /\ next + 1 # next /\ next + 1 \in -1 .. maxPart  BY <1>3, <1>5
  <2>2. maxPart \in next + 1 .. maxPart /\ maxPart # next /\ maxPart \in -1 .. maxPart  BY <1>3, <1>5
  <2> QED  BY <1>3, <1>7, <2>1, <2>2
<1>9. rd'.pos = rd.pos /\ (rd'.pc = "finish" <=> rd.pc = "finish")  BY <1>2 DEF ReaderGoes
<1> DEFINE k == Bit(bufMap[next] = NoBuf)
<1>10. Spare' + Bit(bufMap[next] # NoBuf) = Spare
  BY <1>3, <1>4, <1>8, <1>9 DEF Spare, Bit
<1>11. next - rd.pos + Spare + k <= next' - rd'.pos + Spare' /\ k \in {0, 1}
  <2>1. Spare' \in Nat  BY DEF Spare, Bit
  <2> QED  BY <1>3, <1>5, <1>9, <1>10, <2>1 DEF Bit
<1>12. IsFiniteSet(OpenBlocks) /\ Cardinality(OpenBlocks) \in Nat  BY <1>1, Counts
<1>13. Cardinality(OpenBlocks') \in Nat /\ Cardinality(OpenBlocks') <= Cardinality(OpenBlocks) + k
  <2>1. CASE bufMap[next] = NoBuf
    <3>1. OpenBlocks' = OpenBlocks \cup {NextBuf} /\ NextBuf \notin OpenBlocks
      BY <1>3, <1>4, <2>1 DEF OpenBlocks
    <3>2. Cardinality(OpenBlocks') = Cardinality(OpenBlocks) + 1  BY <1>12, <3>1, FS_AddElement
    <3> QED  BY <1>12, <2>1, <3>2 DEF Bit
  <2>2. CASE bufMap[next] # NoBuf
    <3>1. OpenBlocks' = OpenBlocks  BY <1>3, <1>4, <2>2 DEF OpenBlocks
    <3>2. Cardinality(OpenBlocks') = Cardinality(OpenBlocks)  BY <3>1
    <3> QED  BY <1>12, <2>2, <3>2 DEF Bit
  <2> QED  BY <2>1, <2>2
<1>14. conc' = IF new THEN conc - 1 ELSE conc  BY <1>2 DEF SendDispatches
<1>15. new => conc > 0  BY <1>2, <1>5 DEF SendDispatches, NothingToSend
<1>16. Slack' <= Slack  
  BY <1>2, <1>3, <1>4, <1>5, <1>8, <1>9 DEF Slack, Bit, ReaderGoes
<1>17. ~new => Slack' <= Slack - 1
  <2>1. SUFFICES ASSUME ~new PROVE Slack' <= Slack - 1
    OBVIOUS
  <2>2. rd.pc = "send" /\ rd'.pc = "sending" /\ 0 < next  BY <1>2, <1>5, <2>1 DEF ReaderGoes
  <2> QED  BY <1>3, <1>4, <1>8, <1>9, <2>2 DEF Slack, Bit
<1>18. new => ToStart' = ToStart - 1  BY <1>5, <1>14, <1>15 DEF ToStart
<1>19. ~new => ToStart' = ToStart  BY <1>14 DEF ToStart
<1>20. next' \in Nat /\ conc' \in Int /\ Slack \in Nat /\ Slack' \in Nat /\ ToStart \in Nat
  <2>1. Slack' \in Nat  BY DEF Slack, Bit
  <2> QED  BY <1>1, <1>3, <1>5, <1>14, <2>1, Counts
<1>21. next' - rd'.pos + Slack' + ToStart' <= next - rd.pos + Slack + ToStart
  BY <1>3, <1>5, <1>9, <1>16, <1>17, <1>18, <1>19, <1>20
<1> HIDE DEF k
<1> QED  BY <1>3, <1>5, <1>9, <1>11, <1>13, <1>20, <1>21, CountNext

LEMMA CountCopies ==
  ASSUME IInv, NEW w \in Workers, Writes(w)
  PROVE  CountInv'
<1> DEFINE b == worker[w].ch.buf
<1>1. TypeOK /\ StartOfNext  BY DEF IInv
<1>2. /\ open /\ b \in Bufs
      /\ \A x \in Bufs : x # b => buf'[x] = buf[x]
      /\ buf'[b].used = buf[b].used /\ buf'[b].closed = buf[b].closed
  BY WriteDoes
<1>3. UNCHANGED <<len, part, next, bufMap, rd, conc>>  BY DEF Writes, CopyUnit, RecopyUnit, partVars
<1>4. maxPart' = maxPart /\ Bufs' = Bufs  BY <1>3, SameRequest
<1>5. OpenBlocks' = OpenBlocks  BY <1>2, <1>4 DEF OpenBlocks
<1>6. Spare' = Spare /\ Slack' = Slack  BY <1>3, <1>4 DEF Spare, Slack, Bit, NoBuf
<1>7. ToStart' = ToStart  BY <1>3 DEF ToStart
<1>8. rd.pos \in Nat /\ conc \in Int /\ Slack \in Nat /\ Spare \in Nat /\ ToStart \in Nat  BY <1>1, Counts
<1> QED  BY <1>2, <1>3, <1>5, <1>6, <1>7, <1>8, CountKept

\* Only a dispatch starts a worker; after an overload no more are started.
LEMMA ToStartFalls ==
  ASSUME IInv, [Next]_vars, open', next' = next
  PROVE  conc' \in Int /\ ToStart' <= ToStart
<1>1. conc \in Int /\ ToStart \in Nat /\ next \in Nat  BY Counts DEF IInv
<1>2. conc' \in Int  BY TypeStep DEF TypeOK
<1>3. conc' = conc => ToStart' <= ToStart  BY <1>1 DEF ToStart
<1>4. ASSUME NEW p, NEW new, SendDispatches(p, new) PROVE FALSE
  BY <1>1, <1>4 DEF SendDispatches, Dispatch
<1>5. ASSUME NEW w \in Workers, Overloaded(w) PROVE ToStart' <= ToStart
  <2>1. conc' = conc \/ (conc' = -conc - 1 /\ conc > 0) \/ (conc' = conc - 1 /\ ~(conc > 0))
    BY <1>5 DEF Overloaded
  <2> QED  BY <1>1, <1>2, <2>1 DEF ToStart
<1>6. ASSUME NEW w \in Workers, WorkerStep(w), ~Overloaded(w) PROVE conc' = conc
  BY <1>4, <1>6 DEF WorkerStep, WorkerTakes, WorkerLeaves, WorkerReleases, RequestAnswered, RequestRefused, RequestFails,
       DelayEnds, Requeue, WorkerSends, WorkerSendsNothing, WorkerSent, CopyUnit, CopyEnds, CopyFails,
       RecopyUnit, RecopyEnds, RecopyFails
<1>7. ASSUME ReaderStep PROVE conc' = conc
  BY <1>4, <1>7 DEF ReaderStep, DownloadStarts, ReaderSends, ReaderSendsNothing, ReaderSent,
         DownloadFails, ReaderPops, ReaderReads, ReaderStops, ReaderFinishes, Interrupt
<1>8. CASE ReaderCloses \/ ClientLeaves \/ UNCHANGED vars
  BY <1>2, <1>3, <1>8 DEF ReaderCloses, ClientLeaves, vars
<1> QED  BY <1>2, <1>3, <1>5, <1>6, <1>7, <1>8 DEF Next

LEMMA CountStep ==
  ASSUME IInv, [Next]_vars, open'
  PROVE  CountInv'
<1>1. CASE Still
  <2>1. next' = next  BY <1>1 DEF Still
  <2>2. conc' \in Int /\ ToStart' <= ToStart  BY <2>1, ToStartFalls
  <2> QED  BY <1>1, <2>2, Shapes, CountStill
<1> QED  BY <1>1, Shapes, CountPops, CountReads, CountFinishes, CountDispatches, CountCopies

\* The blocks of CountInv are within the bound of request.go:74.
LEMMA Bounded ==
  TypeOK /\ StartOfNext /\ PhaseInv /\ BlockInv /\ CountInv => BlocksBounded
<1> SUFFICES ASSUME TypeOK, StartOfNext, PhaseInv, BlockInv, CountInv PROVE BlocksBounded
  OBVIOUS
<1>1. /\ next \in Nat /\ maxPart \in Nat /\ rd.pos \in Nat /\ Concurrent \in Nat
      /\ Slack \in Nat /\ Spare \in Nat /\ ToStart \in Nat
      /\ IsFiniteSet(OpenBlocks) /\ Cardinality(OpenBlocks) \in Nat
  BY Counts
<1>2. next <= maxPart  BY Sizes
<1>3. Spare <= Slack
  <2>1. bufMap[next] # NoBuf => (rd.pc = "send" /\ 0 < next /\ next < maxPart) \/ next = maxPart
    BY <1>1, <1>2 DEF BlockInv
  <2> QED  BY <1>1, <2>1 DEF Spare, Slack, Bit
<1>4. Cardinality(OpenBlocks) <= Concurrent  BY <1>1, <1>3 DEF CountInv
<1> QED  BY <1>4 DEF BlocksBounded, OpenBlocks

\* After the download is closed or has failed nothing happens to the blocks.
LEMMA AfterClose ==
  ASSUME IInv, [Next]_vars, ~open
  PROVE  ~open' /\ UNCHANGED <<len, part, next, buf, rd, out>>
<1>1. TypeOK /\ StartOfNext /\ PhaseInv  BY DEF IInv
<1>2. rd.pc \in {"closed", "error", "nil"} /\ ctx # "live" /\ mu = "free"  BY <1>1 DEF PhaseInv
<1>3. ASSUME NEW p, NEW new, SendDispatches(p, new) PROVE FALSE
  BY <1>3 DEF SendDispatches, NothingToSend
<1>4. ~ReaderStep /\ ~ReaderCloses
  BY <1>2 DEF ReaderStep, DownloadStarts, ReaderSends, ReaderSendsNothing, ReaderSent, DownloadFails,
       ReaderPops, ReaderReads, ReaderStops, ReaderFinishes, Interrupt, ReaderCloses
<1>5. ASSUME NEW w \in Workers, WorkerStep(w) PROVE ~open' /\ UNCHANGED <<len, part, next, buf, rd, out>>
  <2>1. ~WorkerSends(w) /\ ~CopyUnit(w) /\ ~RecopyUnit(w)
    BY <1>2, <1>3 DEF WorkerSends, CopyUnit, RecopyUnit, WriteRefused
  <2>2. UNCHANGED <<len, part, next, buf, rd, out, open>>
    BY <1>5, <2>1 DEF WorkerStep, WorkerTakes, WorkerLeaves, WorkerReleases, RequestAnswered, RequestRefused,
         RequestFails, DelayEnds, Overloaded, Requeue, WorkerSendsNothing, WorkerSent, CopyEnds, CopyFails,
         RecopyEnds, RecopyFails, partVars
  <2> QED  BY <2>2
<1>6. CASE ClientLeaves \/ UNCHANGED vars
  BY <1>6 DEF ClientLeaves, vars, partVars
<1> QED  BY <1>4, <1>5, <1>6 DEF Next

\* The two steps that close the download
LEMMA Closing ==
  ASSUME IInv, [Next]_vars, open, ~open'
  PROVE  DownloadFails \/ Interrupt
<1>1. ASSUME NEW w \in Workers, WorkerStep(w) PROVE open' = open
  BY <1>1 DEF WorkerStep, WorkerTakes, WorkerLeaves, WorkerReleases, RequestAnswered, RequestRefused, RequestFails,
       DelayEnds, Overloaded, Requeue, WorkerSends, WorkerSendsNothing, WorkerSent, CopyUnit, CopyEnds, CopyFails,
       RecopyUnit, RecopyEnds, RecopyFails
<1>2. ASSUME ReaderStep, ~DownloadFails, ~Interrupt PROVE open' = open
  BY <1>2 DEF ReaderStep, DownloadStarts, ReaderSends, ReaderSendsNothing, ReaderSent, ReaderPops, ReaderReads,
       ReaderStops, ReaderFinishes
<1>3. CASE ReaderCloses \/ ClientLeaves \/ UNCHANGED vars
  BY <1>3 DEF ReaderCloses, ClientLeaves, vars
<1> QED  BY <1>1, <1>2, <1>3 DEF Next

LEMMA BoundStep ==
  ASSUME IInv, [Next]_vars, PhaseInv', open' => BlockInv' /\ CountInv'
  PROVE  BlocksBounded'
<1>1. TypeOK /\ StartOfNext /\ PhaseInv /\ BlocksBounded  BY DEF IInv
<1>2. TypeOK' /\ StartOfNext' /\ len' = len /\ part' = part  BY TypeStep, StartStep
<1>3. Concurrent' = Concurrent /\ Bufs' = Bufs /\ maxPart' = maxPart  BY <1>2, SameRequest
<1>4. Cardinality(OpenBlocks) <= Concurrent /\ IsFiniteSet(OpenBlocks) /\ Cardinality(OpenBlocks) \in Nat
      /\ Concurrent \in Nat
  BY <1>1, Counts DEF BlocksBounded, OpenBlocks
<1>5. CASE open'
  <2>1. TypeOK' /\ StartOfNext' /\ PhaseInv' /\ BlockInv' /\ CountInv' => BlocksBounded'  BY Bounded, PTL
  <2> QED  BY <1>2, <1>5, <2>1
<1>6. ASSUME OpenBlocks' \subseteq OpenBlocks PROVE BlocksBounded'
  <2>1. Cardinality(OpenBlocks') <= Cardinality(OpenBlocks) /\ IsFiniteSet(OpenBlocks')  BY <1>4, <1>6, FS_Subset
  <2>2. Cardinality(OpenBlocks') \in Nat  BY <2>1, FS_CardinalityType
  <2> QED  BY <1>3, <1>4, <2>1, <2>2 DEF BlocksBounded, OpenBlocks
<1>7. CASE ~open
  <2>1. OpenBlocks' = OpenBlocks  BY <1>3, <1>7, AfterClose DEF OpenBlocks
  <2> QED  BY <1>6, <2>1
<1>8. CASE DownloadFails
  <2> DEFINE F == [b \in Bufs |-> buf[b].used]
  <2>1. buf' = [b \in Bufs |-> [buf[b] EXCEPT !.closed = F[b]]]  BY <1>8 DEF DownloadFails
  <2>2. F \in [Bufs -> BOOLEAN]  BY <1>1, BlockFields
  <2>3. \A b \in Bufs : buf'[b].closed = F[b] /\ buf'[b].used = buf[b].used
    <3> HIDE DEF F
    <3> QED  BY <1>1, <2>1, <2>2, ClosesBlocks
  <2>4. OpenBlocks' \subseteq OpenBlocks  BY <1>3, <2>3 DEF OpenBlocks
  <2> QED  BY <1>6, <2>4
<1>9. CASE Interrupt
  <2> DEFINE F == [b \in Bufs |-> buf[b].closed \/ \E i \in -1 .. maxPart : bufMap[i] = b]
  <2>1. buf' = [b \in Bufs |-> [buf[b] EXCEPT !.closed = F[b]]]  BY <1>9 DEF Interrupt
  <2>2. F \in [Bufs -> BOOLEAN]  BY <1>1, BlockFields
  <2>3. \A b \in Bufs : buf'[b].closed = F[b] /\ buf'[b].used = buf[b].used
    <3> HIDE DEF F
    <3> QED  BY <1>1, <2>1, <2>2, ClosesBlocks
  <2>4. OpenBlocks' \subseteq OpenBlocks  BY <1>3, <2>3 DEF OpenBlocks
  <2> QED  BY <1>6, <2>4
<1> QED  BY <1>5, <1>7, <1>8, <1>9, Closing

-----------------------------------------------------------------------------
(* What the reader returns                                                 *)

\* A step that returns nothing
LEMMA OutKept ==
  ASSUME IInv, UNCHANGED <<len, part, out>>, late' # "stray" => late # "stray",
         rd'.pc = "eof" => rd.pc = "eof",
         rd'.pc \in Streaming => rd.pc \in Streaming /\ rd'.pos = rd.pos /\ InPart' = InPart
  PROVE  OutInv'
<1>1. OutInv  BY DEF IInv
<1>2. \A i : StartOf(i)' = StartOf(i)  BY SameRequest
<1>3. (late' # "stray" => DeliveredInOrder') /\ NoEarlyEOF'  BY <1>1 DEF OutInv, DeliveredInOrder, NoEarlyEOF
<1>4. rd'.pc \in Streaming => Len(out') = StartOf(rd.pos)' + InPart'
  <2>1. SUFFICES ASSUME rd'.pc \in Streaming PROVE Len(out') = StartOf(rd.pos)' + InPart'
    OBVIOUS
  <2>2. Len(out) = StartOf(rd.pos) + InPart /\ rd'.pos = rd.pos /\ InPart' = InPart  BY <1>1, <2>1 DEF OutInv
  <2>3. StartOf(rd.pos)' = StartOf(rd.pos)
    <3>1. \A i : i = rd.pos => StartOf(i)' = StartOf(rd.pos)'  BY <2>2
    <3> QED  BY <1>2, <3>1
  <2> QED  BY <2>2, <2>3
<1> QED  BY <1>3, <1>4 DEF OutInv, Streaming

\* The next bytes of the file
LEMMA OutReads ==
  ASSUME IInv, NEW n \in 1 .. part, ReaderReads(n)
  PROVE  OutInv'
<1> DEFINE c == buf[rd.cur]  sub == SubSeq(c.data, c.r + 1, c.r + n)  s == StartOf(rd.pos)
<1>1. TypeOK /\ StartOfNext /\ OutInv  BY DEF IInv
<1>2. /\ rd.pc = "read" /\ rd.pos \in 0 .. maxPart - 1 /\ rd.cur \in Bufs /\ BlockHas(rd.pos, c)
      /\ c.r + n <= Len(c.data)
      /\ out' = out \o sub
      /\ buf'[rd.cur].r = c.r + n
      /\ \/ c.r + n < PartSize(rd.pos) /\ rd' = rd
         \/ /\ c.r + n = PartSize(rd.pos) /\ rd'.pos = rd.pos + 1
            /\ rd'.pc = IF rd.pos + 1 >= maxPart THEN "eof" ELSE "finish"
  BY ReadDoes
<1>3. c.r \in Nat /\ c.data \in Seq(Int) /\ Len(c.data) \in Nat /\ n \in Nat /\ n >= 1
  <2>1. c.r \in 0 .. part /\ c.data \in Seq(Int) /\ Len(c.data) \in Nat  BY <1>1, <1>2, BlockFields
  <2>2. part \in Nat  BY <1>1, Sizes
  <2> HIDE DEF c
  <2> QED  BY <2>1, <2>2
<1>4. /\ maxPart \in Nat /\ s \in Nat /\ StartOf(rd.pos + 1) = s + PartSize(rd.pos)
      /\ StartOf(maxPart) = len /\ PartSize(rd.pos) \in Nat
  <2>1. maxPart \in Nat /\ part \in Nat  BY <1>1, Sizes
  <2>2. rd.pos \in 0 .. maxPart /\ rd.pos \in Nat  BY <1>2, <2>1
  <2>3. PartSize(rd.pos) \in 1 .. part  BY <1>1, <2>2, Sizes
  <2> QED  BY <1>1, <1>2, <2>1, <2>2, <2>3, Starts
<1>5. out \in Seq(Int) /\ Len(out) \in Nat  BY <1>1, Types, LenProperties
<1>6. Len(out) = s + c.r  BY <1>1, <1>2 DEF OutInv, Streaming, InPart
<1>7. UNCHANGED <<len, part, next, late>>  BY DEF ReaderReads, partVars
<1>8. maxPart' = maxPart /\ \A i : StartOf(i)' = StartOf(i)  BY <1>7, SameRequest
<1>9. /\ late # "stray" => \A k \in 1 .. Len(c.data) : c.data[k] = s + k - 1
      /\ \A k \in 1 .. Len(c.data) : c.data[k] \in Int
  <2>1. late # "stray" => \A k \in 1 .. Len(c.data) : c.data[k] = s + k - 1  BY <1>2 DEF BlockHas
  <2> HIDE DEF c, s
  <2> QED  BY <1>3, <2>1, ElementOfSeq
<1>10. /\ sub \in Seq(Int) /\ Len(sub) = n
       /\ late # "stray" => \A k \in 1 .. n : sub[k] = s + c.r + k - 1
  <2> HIDE DEF c, s
  <2>1. \A k \in c.r + 1 .. c.r + n : k \in 1 .. Len(c.data)  BY <1>2, <1>3
  <2>2. \A k \in c.r + 1 .. c.r + n : c.data[k] \in Int  BY <1>9, <2>1
  <2>3. c.r + 1 \in Int /\ c.r + n \in Int /\ c.r + 1 <= c.r + n /\ (c.r + n) - (c.r + 1) + 1 = n  BY <1>3
  <2>4. /\ sub \in Seq(Int) /\ Len(sub) = n
        /\ \A k \in 1 .. n : sub[k] = c.data[c.r + 1 + k - 1]
    BY <2>2, <2>3, SubSeqProperties
  <2>5. \A k \in 1 .. n : c.r + 1 + k - 1 \in 1 .. Len(c.data) /\ c.r + 1 + k - 1 = c.r + k
    <3>1. c.r + n <= Len(c.data)  BY <1>2
    <3> DEFINE m == Len(c.data)  r == c.r
    <3>2. r + n <= m /\ r \in Nat /\ m \in Nat /\ n \in Nat  BY <1>3, <3>1
    <3> HIDE DEF m, r
    <3>3. \A k \in 1 .. n : r + 1 + k - 1 \in 1 .. m /\ r + 1 + k - 1 = r + k  BY <3>2
    <3> QED  BY <3>3 DEF m, r
  <2>6. late # "stray" => \A k \in 1 .. n : sub[k] = s + (c.r + k) - 1  BY <1>9, <2>4, <2>5
  <2> HIDE DEF sub
  <2>7. \A k \in 1 .. n : s + (c.r + k) - 1 = s + c.r + k - 1  BY <1>3, <1>4 DEF s
  <2> QED  BY <2>4, <2>6, <2>7
<1>11. /\ Len(out') = Len(out) + n
       /\ \A k \in 1 .. Len(out) + n : out'[k] = IF k <= Len(out) THEN out[k] ELSE sub[k - Len(out)]
  <2> HIDE DEF sub
  <2> QED  BY <1>2, <1>5, <1>10, ConcatProperties
<1>12. late' # "stray" => DeliveredInOrder'
  <2>1. SUFFICES ASSUME late # "stray", NEW k \in 1 .. Len(out) + n PROVE out'[k] = k - 1
    BY <1>7, <1>11 DEF DeliveredInOrder
  <2>2. CASE k <= Len(out)
    <3>1. k \in 1 .. Len(out)  BY <1>3, <1>5, <2>2
    <3> QED  BY <1>1, <1>11, <2>1, <2>2, <3>1 DEF OutInv, DeliveredInOrder
  <2>3. CASE ~(k <= Len(out))
    <3>1. k - Len(out) \in 1 .. n /\ k \in Nat  BY <1>3, <1>5, <2>3
    <3>2. out'[k] = s + c.r + (k - Len(out)) - 1  BY <1>10, <1>11, <2>1, <2>3, <3>1
    <3> HIDE DEF c, s
    <3> QED  BY <1>3, <1>4, <1>5, <1>6, <3>1, <3>2 DEF s
  <2> QED  BY <2>2, <2>3
<1>13. Len(out') = s + (c.r + n)
  <2> HIDE DEF c
  <2> QED  BY <1>3, <1>4, <1>6, <1>11
<1>14. CASE c.r + n < PartSize(rd.pos) /\ rd' = rd
  <2>1. rd'.pc = "read" /\ InPart' = c.r + n  BY <1>2, <1>14 DEF InPart
  <2>2. StartOf(rd.pos)' = s
    <3>1. \A i : i = rd.pos => StartOf(i)' = StartOf(rd.pos)'  BY <1>14
    <3> QED  BY <1>8, <3>1
  <2> QED  BY <1>12, <1>13, <2>1, <2>2 DEF OutInv, NoEarlyEOF
<1>15. CASE /\ c.r + n = PartSize(rd.pos) /\ rd'.pos = rd.pos + 1
            /\ rd'.pc = IF rd.pos + 1 >= maxPart THEN "eof" ELSE "finish"
  <2>1. Len(out') = StartOf(rd.pos + 1)  BY <1>4, <1>13, <1>15
  <2>2. StartOf(rd.pos)' = StartOf(rd.pos + 1)
    <3>1. \A i : i = rd.pos + 1 => StartOf(i)' = StartOf(rd.pos)'  BY <1>15
    <3> QED  BY <1>8, <3>1
  <2>3. rd'.pc = "eof" => Len(out') = len
    <3>1. rd'.pc = "eof" => rd.pos + 1 = maxPart  BY <1>2, <1>4, <1>15
    <3> QED  BY <1>4, <2>1, <3>1
  <2>4. rd'.pc # "read"  BY <1>15
  <2>5. Len(out') = StartOf(rd.pos + 1) + 0  BY <1>13, <1>4, <2>1, <1>3
  <2> QED  BY <1>7, <1>12, <2>2, <2>3, <2>4, <2>5 DEF OutInv, NoEarlyEOF, InPart
<1> QED  BY <1>2, <1>14, <1>15

LEMMA OutStep ==
  ASSUME IInv, [Next]_vars
  PROVE  OutInv'
<1>1. TypeOK /\ StartOfNext /\ PhaseInv  BY DEF IInv
<1>2. len' = len /\ part' = part /\ (late' # "stray" => late # "stray")  BY StartStep, LateStep
<1>3. ASSUME NEW l \in RdPcs, ReaderGoes(l), UNCHANGED out, l \notin {"read", "eof"},
             l \in Streaming => rd.pc \in Streaming \ {"read"}
      PROVE  OutInv'
  <2>1. rd'.pc = l /\ rd'.pos = rd.pos  BY <1>3 DEF ReaderGoes
  <2>2. l \in Streaming => InPart' = InPart  BY <1>3, <2>1 DEF InPart
  <2> QED  BY <1>2, <1>3, <2>1, <2>2, OutKept
<1>4. ASSUME NEW l \in RdPcs, rd' = [rd EXCEPT !.pc = l], UNCHANGED out, l \notin {"read", "eof"},
             l \in Streaming => rd.pc \in Streaming \ {"read"}
      PROVE  OutInv'
  <2>1. ReaderGoes(l)  BY <1>1, <1>2, <1>4, ReaderGoto
  <2> QED  BY <1>3, <1>4, <2>1
<1>5. ASSUME UNCHANGED <<rd, out>>, rd.pc = "read" => buf'[rd.cur].r = buf[rd.cur].r
      PROVE  OutInv'
  <2>1. InPart' = InPart  BY <1>5 DEF InPart
  <2> QED  BY <1>2, <1>5, <2>1, OutKept
<1>6. rd.pc = "read" => open /\ rd.cur \in Bufs /\ Popped
  <2>1. SUFFICES ASSUME rd.pc = "read" PROVE open /\ rd.cur \in Bufs /\ Popped
    OBVIOUS
  <2>2. open /\ Popped
    <3>1. maxPart \in Nat /\ next \in 0 .. maxPart /\ rd.pos \in 0 .. maxPart  BY <1>1, Sizes, ReaderFields
    <3> QED  BY <1>1, <2>1, <3>1 DEF PhaseInv, Popped
  <2>3. rd.cur # NoBuf  BY <2>2 DEF IInv, BlockInv
  <2> QED  BY <1>1, <2>2, <2>3, ReaderFields
<1>7. ASSUME NEW p \in Workers \cup {"reader"}, NEW new \in BOOLEAN, SendDispatches(p, new), rd.pc = "read"
      PROVE  buf'[rd.cur].r = buf[rd.cur].r
  BY <1>6, <1>7, DispatchDoes
<1>8. CASE DownloadStarts
  <2>1. UNCHANGED out /\ rd.pc = "start" /\ (rd' = [rd EXCEPT !.pc = "error"] \/ rd' = [rd EXCEPT !.pc = "send"])
    BY <1>8 DEF DownloadStarts
  <2> QED  BY <1>4, <2>1 DEF RdPcs, Streaming
<1>9. CASE ReaderSends
  <2>1. UNCHANGED out /\ rd.pc = "send" /\ rd' = [rd EXCEPT !.pc = "sending"]
    BY <1>9 DEF ReaderSends
  <2> QED  BY <1>4, <2>1 DEF RdPcs, Streaming
<1>10. CASE ReaderSendsNothing
  <2>1. UNCHANGED out /\ rd.pc = "send" /\ (rd' = [rd EXCEPT !.pc = "undo"] \/ rd' = [rd EXCEPT !.pc = "pop"])
    BY <1>10 DEF ReaderSendsNothing
  <2> QED  BY <1>4, <2>1 DEF RdPcs, Streaming
<1>11. CASE ReaderSent
  <2>1. UNCHANGED out /\ rd.pc = "sending" /\ (rd' = [rd EXCEPT !.pc = "undo"] \/ rd' = [rd EXCEPT !.pc = "pop"])
    BY <1>11 DEF ReaderSent
  <2> QED  BY <1>4, <2>1 DEF RdPcs, Streaming
<1>12. CASE DownloadFails
  <2>1. UNCHANGED out /\ (rd' = [rd EXCEPT !.pc = "error"] \/ rd' = [rd EXCEPT !.pc = "nil"])
    BY <1>12 DEF DownloadFails
  <2> QED  BY <1>4, <2>1 DEF RdPcs, Streaming
<1>13. CASE ReaderPops
  <2>1. /\ open /\ rd.pc = "pop" /\ rd.pos < next /\ rd.pos \in 0 .. maxPart - 1
        /\ rd'.pc = "read" /\ rd'.pos = rd.pos /\ rd'.cur = bufMap[rd.pos]
    BY <1>13, PopDoes
  <2>2. UNCHANGED <<buf, out>>  BY <1>13 DEF ReaderPops
  <2>3. rd.pos \in Outstanding /\ ~Popped
    <3>1. next \in Nat  BY <1>1, Sizes
    <3> QED  BY <2>1, <3>1 DEF Outstanding, Popped
  <2>4. buf[bufMap[rd.pos]].r = 0  BY <2>1, <2>3, PartBlock DEF BlockHas
  <2>5. InPart' = InPart  BY <2>1, <2>2, <2>4 DEF InPart
  <2> QED  BY <1>2, <2>1, <2>2, <2>5, OutKept DEF Streaming
<1>14. CASE ReaderStops
  <2>1. UNCHANGED out /\ rd.pc = "read"  BY <1>14 DEF ReaderStops
  <2>2. rd.cur # NoBuf  BY <1>1, <1>6, <2>1, MapFields
  <2>3. rd' = [rd EXCEPT !.pc = "failed"]  BY <1>14, <2>2 DEF ReaderStops
  <2> QED  BY <1>4, <2>1, <2>3 DEF RdPcs, Streaming
<1>15. CASE ReaderFinishes
  <2>1. UNCHANGED out /\ rd.pc = "finish"  BY <1>15 DEF ReaderFinishes
  <2>2. ReaderGoes("send") \/ ReaderGoes("pop")  BY <1>15, FinishDoes
  <2> QED  BY <1>3, <2>1, <2>2 DEF RdPcs, Streaming
<1>16. CASE Interrupt
  <2>1. UNCHANGED out /\ rd' = [rd EXCEPT !.pc = "closed", !.cur = NoBuf]  BY <1>16 DEF Interrupt
  <2>2. rd'.pc = "closed"
    <3>1. rd \in RdRec  BY <1>1, Types
    <3> QED  BY <2>1, <3>1 DEF RdRec
  <2> QED  BY <1>2, <2>1, <2>2, OutKept DEF Streaming
<1>17. CASE ReaderCloses
  <2>1. UNCHANGED out /\ rd' = [rd EXCEPT !.pc = "interrupt"]  BY <1>17 DEF ReaderCloses
  <2> QED  BY <1>4, <2>1 DEF RdPcs, Streaming
<1>18. CASE ClientLeaves \/ UNCHANGED vars
  <2>1. UNCHANGED <<rd, out, buf>>  BY <1>18 DEF ClientLeaves, vars
  <2> QED  BY <1>5, <2>1
<1>19. ASSUME NEW w \in Workers, WorkerStep(w) PROVE OutInv'
  <2>1. UNCHANGED <<rd, out>>
    BY <1>19 DEF WorkerStep, WorkerTakes, WorkerLeaves, WorkerReleases, RequestAnswered, RequestRefused,
         RequestFails, DelayEnds, Overloaded, Requeue, WorkerSends, WorkerSendsNothing, WorkerSent, CopyUnit, CopyEnds,
         CopyFails, RecopyUnit, RecopyEnds, RecopyFails
  <2>2. CASE WorkerSends(w)
    <3>1. SendDispatches(w, TRUE)  BY <2>2 DEF WorkerSends
    <3> QED  BY <1>5, <1>7, <2>1, <3>1
  <2>3. CASE Writes(w)
    <3>1. rd.pc = "read" => buf'[rd.cur].r = buf[rd.cur].r  BY <1>6, <2>3, WriteDoes
    <3> QED  BY <1>5, <2>1, <3>1
  <2>4. CASE ~WorkerSends(w) /\ ~Writes(w)
    <3>1. UNCHANGED buf
      BY <1>19, <2>4 DEF WorkerStep, Writes, WorkerTakes, WorkerLeaves, WorkerReleases, RequestAnswered, RequestRefused,
           RequestFails, DelayEnds, Overloaded, Requeue, WorkerSendsNothing, WorkerSent, CopyEnds, CopyFails,
           RecopyEnds, RecopyFails
    <3> QED  BY <1>5, <2>1, <3>1
  <2> QED  BY <2>2, <2>3, <2>4
<1> QED
  BY <1>8, <1>9, <1>10, <1>11, <1>12, <1>13, <1>14, <1>15, <1>16, <1>17, <1>18, <1>19, OutReads DEF Next, ReaderStep

-----------------------------------------------------------------------------
(* The tokens of the shared limit                                          *)

\* The workers that run are those that ran, as far as one worker's step goes.
LEMMA RunOn ==
  ASSUME IInv, NEW w \in Workers, WorkerStep(w), ~WorkerReleases(w), ~WorkerSends(w)
  PROVE  Running' = Running
<1> TypeOK /\ StartOfNext  BY DEF IInv
<1>1. ASSUME NEW l \in WorkerPcs \ {"none"}, Goto(w, l), Live(w) PROVE Running' = Running
  <2>1. worker'[w].pc = l /\ \A x \in Workers : x # w => worker'[x] = worker[x]  BY <1>1, GotoMoves DEF Moves
  <2> QED  BY <1>1, <2>1 DEF Running, Live
<1>2. ASSUME Retry(w, worker[w].ch.got), Live(w) PROVE Running' = Running
  <2>1. worker'[w].pc \in {"request", "exit"} /\ \A x \in Workers : x # w => worker'[x] = worker[x]
    BY <1>2, RetryMoves DEF Moves
  <2> QED  BY <1>2, <2>1 DEF Running, Live
<1>3. CASE WorkerTakes(w)
  <2>1. /\ worker[w].pc = "select" /\ worker'[w].pc = "request"
        /\ \A x \in Workers : x # w => worker'[x] = worker[x]
    BY <1>3, TakeDoes
  <2> QED  BY <2>1 DEF Running, Live
<1>4. CASE WorkerLeaves(w) \/ RequestAnswered(w) \/ RequestFails(w) \/ WorkerSendsNothing(w) \/ WorkerSent(w)
             \/ CopyEnds(w) \/ RecopyEnds(w)
  BY <1>1, <1>4 DEF WorkerLeaves, RequestAnswered, RequestFails, WorkerSendsNothing, WorkerSent, Receive, CopyEnds,
       RecopyEnds, At, Live, WorkerPcs
<1>5. CASE RequestRefused(w)
  <2>1. Goto(w, "delay") \/ Goto(w, "overload")  BY <1>5 DEF RequestRefused
  <2> QED  BY <1>1, <1>5, <2>1 DEF RequestRefused, At, Live, WorkerPcs
<1>6. CASE Overloaded(w)
  <2>1. Goto(w, "requeue") \/ Goto(w, "request") \/ Goto(w, "exit")  BY <1>6 DEF Overloaded
  <2> QED  BY <1>1, <1>6, <2>1 DEF Overloaded, At, Live, WorkerPcs
<1>7. CASE Requeue(w)
  <2>1. Goto(w, "exit") \/ Goto(w, "panic")  BY <1>7 DEF Requeue
  <2> QED  BY <1>1, <1>7, <2>1 DEF Requeue, At, Live, WorkerPcs
<1>8. CASE DelayEnds(w) \/ CopyFails(w) \/ RecopyFails(w)
  BY <1>2, <1>8 DEF DelayEnds, CopyFails, RecopyFails, At, Live
<1>9. CASE Writes(w)
  <2>1. worker[w].pc \in {"copy", "recopy"}  BY <1>9 DEF Writes, CopyUnit, RecopyUnit, At
  <2>2. worker'[w].pc = worker[w].pc /\ \A x \in Workers : x # w => worker'[x] = worker[x]  BY <1>9, WriteDoes
  <2> QED  BY <2>1, <2>2 DEF Running, Live
<1> QED  BY <1>3, <1>4, <1>5, <1>6, <1>7, <1>8, <1>9 DEF WorkerStep, Writes

LEMMA TokenNext ==
  ASSUME IInv, limit' \in Nat, IsFiniteSet(Running'),
         limit' + Cardinality(Running') + Starting' >= limit + Cardinality(Running) + Starting
  PROVE  TokenInv'
<1>1. TypeOK /\ TokenInv  BY DEF IInv
<1>2. limit \in Nat /\ Tokens \in Nat  BY <1>1, Types, DownloaderAssumption
<1>3. Cardinality(Running) \in Nat /\ Cardinality(Running') \in Nat  BY <1>1, FS_CardinalityType DEF TokenInv
<1>4. Starting \in Nat /\ Starting' \in Nat  BY DEF Starting
<1>5. limit + Cardinality(Running) + Starting >= Tokens  BY <1>1 DEF TokenInv, NoTokenLost
<1>6. limit' + Cardinality(Running') + Starting' >= Tokens  BY <1>2, <1>3, <1>4, <1>5
<1> QED  BY <1>6 DEF TokenInv, NoTokenLost

LEMMA TokenStep ==
  ASSUME IInv, [Next]_vars
  PROVE  TokenInv'
<1>1. TypeOK /\ StartOfNext /\ PhaseInv /\ TokenInv  BY DEF IInv
<1>2. limit \in Nat /\ limit' \in Nat  BY <1>1, TypeStep, Types DEF TypeOK
<1>3. IsFiniteSet(Running) /\ Cardinality(Running) \in Nat  BY <1>1, FS_CardinalityType DEF TokenInv
<1>4. Starting \in Nat /\ Starting <= 1 /\ Starting' \in Nat /\ Starting' <= 1  BY DEF Starting
<1>5. ASSUME Running' = Running, limit' >= limit, Starting' >= Starting PROVE TokenInv'
  <2>1. IsFiniteSet(Running') /\ Cardinality(Running') = Cardinality(Running)  BY <1>3, <1>5
  <2> QED  BY <1>2, <1>3, <1>4, <1>5, <2>1, TokenNext
<1>6. ASSUME NEW w \in Workers, ~Live(w), Running' = Running \cup {w}, limit' + Starting' + 1 >= limit + Starting
      PROVE  TokenInv'
  <2>1. w \notin Running  BY <1>6 DEF Running
  <2>2. IsFiniteSet(Running') /\ Cardinality(Running') = Cardinality(Running) + 1  BY <1>3, <1>6, <2>1, FS_AddElement
  <2> DEFINE k == Cardinality(Running)  m == Cardinality(Running')  s == Starting  t == Starting'
  <2>3. limit' + m + t >= limit + k + s
    <3>1. m = k + 1 /\ k \in Nat /\ s \in Nat /\ t \in Nat /\ limit' + t + 1 >= limit + s  BY <1>3, <1>4, <1>6, <2>2
    <3> HIDE DEF k, m, s, t
    <3>2. \A l \in Nat : l + t + 1 >= limit + s => l + m + t >= limit + k + s  BY <1>2, <3>1
    <3> QED  BY <1>2, <3>1, <3>2
  <2> QED  BY <1>2, <2>2, <2>3, TokenNext
<1>7. next \in Nat  BY <1>1, Sizes
<1>8. UNCHANGED worker => Running' = Running  BY DEF Running, Live
<1>9. CASE DownloadStarts
  <2>1. rd.pc = "start" /\ next = 0 /\ next' = next /\ Running' = Running  
    BY <1>1, <1>8, <1>9 DEF PhaseInv, DownloadStarts, partVars
  <2>2. Starting = 0  BY <2>1 DEF Starting
  <2>3. CASE limit = 0
    BY <1>2, <1>4, <1>5, <1>9, <2>1, <2>2, <2>3 DEF DownloadStarts
  <2>4. CASE limit # 0
    <3>1. rd' = [rd EXCEPT !.pc = "send"] /\ limit' = limit - 1  BY <1>9, <2>4 DEF DownloadStarts
    <3>2. rd'.pc = "send"
      <4>1. rd \in RdRec  BY <1>1, Types
      <4> QED  BY <3>1, <4>1 DEF RdRec
    <3>3. Starting' = 1  BY <2>1, <3>2 DEF Starting
    <3>4. IsFiniteSet(Running') /\ Cardinality(Running') = Cardinality(Running)  BY <1>3, <2>1
    <3> QED  BY <1>2, <1>3, <2>2, <3>1, <3>3, <3>4, TokenNext
  <2> QED  BY <2>3, <2>4
<1>10. CASE ReaderSends
  <2>1. SendDispatches("reader", next = 0) /\ rd' = [rd EXCEPT !.pc = "sending"]  BY <1>10 DEF ReaderSends
  <2>2. limit' = limit  BY <1>7, <2>1 DEF SendDispatches
  <2>3. CASE next = 0
    <3>1. PICK w \in Workers : ~Live(w) /\ Goto(w, "select")  BY <1>10, <2>3 DEF ReaderSends
    <3>2. worker'[w].pc = "select" /\ \A x \in Workers : x # w => worker'[x] = worker[x]
      BY <1>1, <3>1, GotoMoves DEF Moves, WorkerPcs
    <3>3. Running' = Running \cup {w}  BY <3>2 DEF Running, Live
    <3>4. limit' + Starting' + 1 >= limit + Starting  BY <1>2, <2>2 DEF Starting
    <3> QED  BY <1>6, <3>1, <3>3, <3>4
  <2>4. CASE next # 0
    <3>1. UNCHANGED worker  BY <1>10, <2>4 DEF ReaderSends
    <3>2. Starting = 0  BY <2>4 DEF Starting
    <3> QED  BY <1>2, <1>4, <1>5, <1>8, <2>2, <3>1, <3>2
  <2> QED  BY <2>3, <2>4
<1>11. CASE ReaderSendsNothing
  <2>1. UNCHANGED <<limit, worker, next>> /\ rd.pc = "send"  BY <1>11 DEF ReaderSendsNothing, partVars
  <2>2. next = 0 => rd' = [rd EXCEPT !.pc = "undo"]  BY <1>11 DEF ReaderSendsNothing
  <2>3. next = 0 => rd'.pc = "undo"
    <3>1. rd \in RdRec  BY <1>1, Types
    <3> QED  BY <2>2, <3>1 DEF RdRec
  <2>4. Starting' >= Starting  BY <2>1, <2>3 DEF Starting
  <2> QED  BY <1>2, <1>5, <1>8, <2>1, <2>4
<1>12. CASE ReaderSent
  <2>1. UNCHANGED <<worker>> /\ rd.pc = "sending"  BY <1>12 DEF ReaderSent
  <2>2. limit' = limit \/ limit' = limit + 1  BY <1>12 DEF ReaderSent, SendQueues, SendCancelled
  <2>3. Starting = 0  BY <2>1 DEF Starting
  <2> QED  BY <1>2, <1>4, <1>5, <1>8, <2>1, <2>2, <2>3
<1>13. CASE DownloadFails
  <2>1. UNCHANGED worker /\ limit' = limit + 1  BY <1>13 DEF DownloadFails
  <2>2. IsFiniteSet(Running') /\ Cardinality(Running') = Cardinality(Running)  BY <1>3, <1>8, <2>1
  <2> QED  BY <1>2, <1>3, <1>4, <2>1, <2>2, TokenNext
<1>14. CASE ReaderPops \/ ReaderStops \/ ReaderFinishes \/ Interrupt \/ ReaderCloses \/ \E n \in 1 .. part : ReaderReads(n)
  <2>1. UNCHANGED <<worker, limit>> /\ rd.pc \notin {"send", "undo"}
    BY <1>14 DEF ReaderPops, ReaderStops, ReaderFinishes, Interrupt, ReaderCloses, ReaderReads
  <2>2. Starting = 0  BY <2>1 DEF Starting
  <2> QED  BY <1>2, <1>4, <1>5, <1>8, <2>1, <2>2
<1>15. CASE ClientLeaves \/ UNCHANGED vars
  <2>1. UNCHANGED <<worker, limit, rd, next>>  BY <1>15 DEF ClientLeaves, vars, partVars
  <2>2. Starting' = Starting  BY <2>1 DEF Starting
  <2> QED  BY <1>2, <1>4, <1>5, <1>8, <2>1, <2>2
<1>16. ASSUME NEW w \in Workers, WorkerStep(w) PROVE TokenInv'
  <2>1. Live(w)
    BY <1>16 DEF WorkerStep, WorkerTakes, WorkerLeaves, WorkerReleases, RequestAnswered, RequestRefused,
         RequestFails, DelayEnds, Overloaded, Requeue, WorkerSends, WorkerSendsNothing, WorkerSent, CopyUnit, CopyEnds,
         CopyFails, RecopyUnit, RecopyEnds, RecopyFails, At, Live
  <2>2. next # 0  BY <1>1, <2>1 DEF PhaseInv
  <2>3. Starting = 0  BY <2>2 DEF Starting
  <2>4. CASE WorkerReleases(w)
    <3>1. limit' = limit + 1  BY <2>4 DEF WorkerReleases
    <3>2. worker'[w].pc = "none" /\ \A x \in Workers : x # w => worker'[x] = worker[x]
      BY <1>1, <2>4, ReleaseDoes
    <3>3. Running' = Running \ {w} /\ w \in Running  BY <2>1, <3>2 DEF Running, Live
    <3>4. IsFiniteSet(Running') /\ Cardinality(Running') = Cardinality(Running) - 1
      BY <1>3, <3>3, FS_RemoveElement
    <3> QED  BY <1>2, <1>3, <1>4, <2>3, <3>1, <3>4, TokenNext
  <2>5. CASE WorkerSends(w)
    <3>1. limit' = limit - 1  BY <1>7, <2>2, <2>5 DEF WorkerSends, SendDispatches
    <3>2. PICK v \in Workers : ~Live(v) /\ worker' = [worker EXCEPT ![w].pc = "sending", ![v].pc = "select"]
      BY <2>5 DEF WorkerSends
    <3>3. worker[w].pc = "send"  BY <2>5 DEF WorkerSends, At
    <3>4. /\ v # w /\ \A x \in Workers : x # w /\ x # v => worker'[x] = worker[x]
          /\ worker'[w].pc = "sending" /\ worker'[v].pc = "select"
      BY <1>1, <3>2, <3>3, StartsWorker
    <3>5. Running' = Running \cup {v}  BY <2>1, <3>4 DEF Running, Live
    <3> QED  BY <1>2, <1>4, <1>6, <2>3, <3>1, <3>2, <3>5
  <2>6. CASE ~WorkerReleases(w) /\ ~WorkerSends(w)
    <3>1. Running' = Running  BY <1>1, <1>16, <2>6, RunOn
    <3>2. limit' = limit \/ limit' = limit + 1
      BY <1>16, <2>6 DEF WorkerStep, WorkerTakes, WorkerLeaves, RequestAnswered, RequestRefused, RequestFails, DelayEnds,
           Overloaded, Requeue, WorkerSendsNothing, WorkerSent, CopyUnit, CopyEnds, CopyFails, RecopyUnit, RecopyEnds,
           RecopyFails, SendQueues, SendCancelled
    <3> QED  BY <1>2, <1>4, <1>5, <2>3, <3>1, <3>2
  <2> QED  BY <2>4, <2>5, <2>6
<1> QED
  BY <1>9, <1>10, <1>11, <1>12, <1>13, <1>14, <1>15, <1>16 DEF Next, ReaderStep

-----------------------------------------------------------------------------
(* The invariant                                                           *)

LEMMA InitInv == Init => IInv
<1> SUFFICES ASSUME Init PROVE IInv
  OBVIOUS
<1>1. /\ mu = "free" /\ ctx = "live" /\ limit = Tokens /\ PartInit /\ open = TRUE /\ conc = Concurrent /\ chan = << >>
      /\ bufMap = [i \in -1 .. maxPart |-> NoBuf]
      /\ buf = [b \in Bufs |-> [used |-> FALSE, closed |-> FALSE, size |-> 0, r |-> 0, data |-> << >>]]
      /\ worker = [w \in Workers |-> [pc |-> "none", ch |-> NoChunk, retry |-> 0]]
      /\ rd = [pc |-> "start", pos |-> 0, cur |-> NoBuf]
      /\ out = << >> /\ faults = 0 /\ late = "none"
  BY DEF Init
<1>2. StartOfNext /\ next = 0  BY <1>1, InitStart DEF PartInit
<1>3. /\ len \in Nat \ {0} /\ part \in Nat \ {0} /\ maxPart \in Nat /\ maxPart >= 2 /\ Concurrent \in 1 .. maxPart
      /\ StartOf(0) = 0
  BY <1>2, Sizes, Starts
<1>4. Len(chan) = 0 /\ Len(out) = 0 /\ Tokens \in Nat /\ MaxRetries \in Nat /\ MaxFaults \in Nat
  BY <1>1, DownloaderAssumption
<1>5. TypeOK
  <2>1. NoChunk \in Chunk  BY <1>3 DEF NoChunk, Chunk, Ids, Bufs
  <2>2. [pc |-> "none", ch |-> NoChunk, retry |-> 0] \in WorkerRec  BY <1>4, <2>1 DEF WorkerRec, WorkerPcs
  <2>3. worker \in [Workers -> WorkerRec]  BY <1>1, <2>2
  <2>4. [used |-> FALSE, closed |-> FALSE, size |-> 0, r |-> 0, data |-> << >>] \in BufRec  BY <1>3 DEF BufRec
  <2>5. buf \in [Bufs -> BufRec]  BY <1>1, <2>4
  <2>6. bufMap \in [-1 .. maxPart -> Bufs \cup {NoBuf}]  BY <1>1
  <2>7. rd \in RdRec  BY <1>1, <1>3 DEF RdRec
  <2>8. chan \in Seq(Chunk) /\ Len(chan) <= Concurrent /\ out \in Seq(Int)  BY <1>1, <1>3, <1>4
  <2>9. limit \in Nat /\ open \in BOOLEAN /\ conc \in Int /\ faults \in 0 .. MaxFaults  BY <1>1, <1>3, <1>4
  <2> QED  BY <1>1, <2>3, <2>5, <2>6, <2>7, <2>8, <2>9, Types
<1>6. /\ rd.pc = "start" /\ rd.pos = 0 /\ rd.cur = NoBuf
      /\ \A w \in Workers : worker[w].pc = "none"
      /\ \A b \in Bufs : ~buf[b].used /\ ~buf[b].closed
      /\ \A i \in -1 .. maxPart : bufMap[i] = NoBuf
      /\ ~Popped
  BY <1>1 DEF Popped
<1>7. PhaseInv
  <2>1. "free" \notin Workers /\ "reader" \notin Workers  BY DownloaderAssumption
  <2> QED  BY <1>1, <1>2, <1>3, <1>6, <2>1 DEF PhaseInv, Live, At
<1>8. OutInv  BY <1>1, <1>3, <1>4, <1>6 DEF OutInv, DeliveredInOrder, NoEarlyEOF, Streaming, InPart
<1>9. TokenInv
  <2>1. Running = {}  BY <1>6 DEF Running, Live
  <2>2. IsFiniteSet(Running) /\ Cardinality(Running) = 0  BY <2>1, FS_EmptySet
  <2> QED  BY <1>1, <1>4, <1>6, <2>2 DEF TokenInv, NoTokenLost, Starting
<1>10. OpenBlocks = {} /\ Cardinality(OpenBlocks) = 0
  <2>1. OpenBlocks = {}  BY <1>6 DEF OpenBlocks
  <2> QED  BY <2>1, FS_EmptySet
<1>11. BlocksBounded  BY <1>3, <1>10 DEF BlocksBounded, OpenBlocks
<1>12. Outstanding = {}  BY <1>2, <1>6 DEF Outstanding
<1>13. BlockInv
  <2>1. Taken(0)
    <3>1. \A b \in Bufs : ~(b <= 0)  BY <1>3 DEF Bufs
    <3> QED  BY <1>6, <3>1 DEF Taken
  <2>2. 0 \in 0 .. next  BY <1>2
  <2>3. \A i \in 0 .. maxPart : bufMap[i] = NoBuf
    <3>1. \A i \in 0 .. maxPart : i \in -1 .. maxPart  BY <1>3
    <3> QED  BY <1>6, <3>1
  <2>4. \A i \in 1 .. maxPart : bufMap[i] = NoBuf
    <3>1. \A i \in 1 .. maxPart : i \in -1 .. maxPart  BY <1>3
    <3> QED  BY <1>6, <3>1
  <2>5. bufMap[next] = NoBuf /\ next + 1 = 1  BY <1>2, <1>3, <2>3
  <2> QED  BY <1>2, <1>6, <1>12, <2>1, <2>2, <2>3, <2>4, <2>5 DEF BlockInv
<1>14. DataInv  BY <1>12 DEF DataInv
<1>15. PlaceInv
  <2>1. \A w \in Workers : ~Holds(w)  BY <1>6 DEF Holds, HoldingPcs
  <2>2. \A k \in 1 .. Len(chan) : FALSE  BY <1>4
  <2> QED
    BY <1>1, <1>12, <2>1, <2>2 DEF PlaceInv, HeldInv, QueuedInv, OneHolder, SendingInv, AllPlaced
<1>16. CountInv
  <2>1. bufMap[next] = NoBuf /\ bufMap[maxPart] = NoBuf  BY <1>2, <1>3, <1>6
  <2>2. Slack = 0 /\ Spare = 0  BY <1>2, <1>3, <1>6, <2>1 DEF Slack, Spare, Bit
  <2>3. ToStart = Concurrent  BY <1>1, <1>3 DEF ToStart
  <2> QED  BY <1>2, <1>3, <1>6, <1>10, <2>2, <2>3 DEF CountInv
<1>17. Fresh
  <2>1. \A w \in Workers : ~Holds(w)  BY <1>6 DEF Holds, HoldingPcs
  <2>2. \A k \in 1 .. Len(chan) : FALSE  BY <1>4
  <2> QED  BY <2>1, <2>2 DEF Fresh
<1>18. SendBlock  BY <1>1 DEF SendBlock
<1> QED  BY <1>2, <1>5, <1>7, <1>8, <1>9, <1>11, <1>13, <1>14, <1>15, <1>16, <1>17, <1>18 DEF IInv

LEMMA StepInv == IInv /\ [Next]_vars => IInv'
<1> SUFFICES ASSUME IInv, [Next]_vars PROVE IInv'
  OBVIOUS
<1>1. TypeOK' /\ StartOfNext' /\ PhaseInv' /\ OutInv' /\ TokenInv' /\ Fresh'
  BY TypeStep, StartStep, PhaseStep, OutStep, TokenStep, FreshStep
<1>2. open' => BlockInv' /\ DataInv' /\ CountInv' /\ SendBlock' /\ (late' # "stray" => PlaceInv')
  BY BlocksStep, PlaceStep, CountStep, SendBlockStep
<1>3. BlocksBounded'  BY <1>1, <1>2, BoundStep
<1> QED  BY <1>1, <1>2, <1>3 DEF IInv

\* Where the processes, the blocks, the parts and the tokens of a download are,
\* through every interleaving of reader, workers and client.
THEOREM Invariance == Spec => []IInv
  BY InitInv, StepInv, PTL DEF Spec

\* The variables of a download have their types.
THEOREM TypeCorrect == Spec => []TypeOK
<1>1. IInv => TypeOK  BY DEF IInv
<1> QED  BY <1>1, Invariance, PTL

\* multiReadCloser.Read returns the bytes of the file in order, and io.EOF after
\* the last one only.
THEOREM ReaderGetsTheFile == Spec => []ReaderGetsFile
<1>1. IInv => ReaderGetsFile  BY DEF IInv, OutInv, ReaderGetsFile
<1> QED  BY <1>1, Invariance, PTL

\* Every worker gives its token back: none of ConcurrencyLimit is lost.
THEOREM TokensAreKept == Spec => []NoTokenLost
<1>1. IInv => NoTokenLost  BY DEF IInv, TokenInv
<1> QED  BY <1>1, Invariance, PTL

\* finishBuf and sendChunkTask keep the blocks in use within Concurrency.
THEOREM MemoryIsBounded == Spec => []BlocksBounded
<1>1. IInv => BlocksBounded  BY DEF IInv
<1> QED  BY <1>1, Invariance, PTL

\* The download, with all its processes, dispatches parts that tile the range.
THEOREM DownloadTilesRange == Spec => []PartsTile
<1>1. IInv => PartsTile
  <2> SUFFICES ASSUME IInv PROVE PartsTile
    OBVIOUS
  <2>1. StartOfNext  BY DEF IInv
  <2>2. next \in Nat  BY <2>1, Sizes
  <2>3. EveryPartFits  BY <2>1, <2>2, Sizes DEF EveryPartFits
  <2> QED  BY <2>1, <2>3, CoveredAtMaxPart DEF PartsTile
<1> QED  BY <1>1, Invariance, PTL

-----------------------------------------------------------------------------
(* One holder for each part, and room for every part                       *)

\* A set without two different members has at most one.
LEMMA AtMostOne ==
  ASSUME NEW S, \A x, y \in S : x = y
  PROVE  /\ Cardinality(S) \in {0, 1}
         /\ S # {} => Cardinality(S) = 1
<1>1. S = {} \/ \E x : S = {x}  OBVIOUS
<1>2. Cardinality({}) = 0  BY FS_EmptySet
<1>3. \A x : Cardinality({x}) = 1  BY FS_Singleton
<1> QED  BY <1>1, <1>2, <1>3

\* A part that has not arrived is held, queued or being sent.
LEMMA NotArrived ==
  ASSUME IInv, late # "stray", ctx = "live", NEW i \in 0 .. next - 1, ~Arrived(i)
  PROVE  \/ Holders(i) # {}
         \/ Queued(i) # {}
         \/ Sending(i) = 1
<1>1. /\ TypeOK /\ StartOfNext /\ BlockInv /\ AllPlaced
  BY DEF IInv, PhaseInv, PlaceInv
<1>2. rd.pos \in Nat /\ next \in Nat /\ maxPart \in Nat  BY <1>1, Counts
<1>3. ~(i < rd.pos)  BY DEF Arrived
<1>4. i \in Outstanding  BY <1>2, <1>3 DEF Outstanding
<1>5. BlockOf(i) # NoBuf  BY <1>1, <1>4 DEF BlockInv
<1>6. ~PartFull(i)  BY <1>5 DEF PartFull, Arrived, BlockOf
<1>7. Placed(i)  BY <1>1, <1>4 DEF AllPlaced
<1> QED  BY <1>6, <1>7 DEF Placed, Holders, Queued, Sending, Holds, HoldingPcs, Holding

LEMMA OnePlace ==
  ASSUME IInv, late # "stray", ctx = "live", NEW i \in 0 .. next - 1
  PROVE  LET n == Cardinality(Holders(i)) + Cardinality(Queued(i)) + Sending(i) IN
         n <= 1 /\ (~Arrived(i) => n = 1)
<1>1. OneHolder /\ SendingInv  BY DEF IInv, PhaseInv, PlaceInv
<1>2. \A v, w \in Holders(i) : v = w  BY <1>1 DEF OneHolder, Holders, Holds, HoldingPcs, Holding
<1>3. \A k, l \in Queued(i) : k = l  BY <1>1 DEF OneHolder, Queued
<1>4. Holders(i) = {} \/ Queued(i) = {}
  BY <1>1 DEF OneHolder, Holders, Queued, Holds, HoldingPcs, Holding
<1>5. Sending(i) = 1 => Holders(i) = {} /\ Queued(i) = {}
  BY <1>1 DEF SendingInv, Sending, Holders, Queued, Holds, HoldingPcs, Holding
<1>6. Sending(i) \in {0, 1}  BY DEF Sending
<1>7. Cardinality({}) = 0  BY FS_EmptySet
<1>8. /\ Cardinality(Holders(i)) \in {0, 1}
      /\ Holders(i) # {} => Cardinality(Holders(i)) = 1
  BY <1>2, AtMostOne
<1>9. /\ Cardinality(Queued(i)) \in {0, 1}
      /\ Queued(i) # {} => Cardinality(Queued(i)) = 1
  BY <1>3, AtMostOne
<1> DEFINE h == Cardinality(Holders(i))
           q == Cardinality(Queued(i))
           s == Sending(i)
<1>10. h + q + s <= 1
  <2>1. h = 0 \/ q = 0  BY <1>4, <1>7
  <2>2. s = 1 => h = 0 /\ q = 0  BY <1>5, <1>7
  <2>3. h \in {0, 1} /\ q \in {0, 1} /\ s \in {0, 1}  BY <1>6, <1>8, <1>9
  <2> HIDE DEF h, q, s
  <2> QED  BY <2>1, <2>2, <2>3
<1>11. ~Arrived(i) => h + q + s = 1
  <2>1. ~Arrived(i) => h = 1 \/ q = 1 \/ s = 1  BY NotArrived, <1>8, <1>9
  <2>2. h \in {0, 1} /\ q \in {0, 1} /\ s \in {0, 1}  BY <1>6, <1>8, <1>9
  <2> HIDE DEF h, q, s
  <2> QED  BY <1>10, <2>1, <2>2
<1> QED  BY <1>10, <1>11

\* Two workers that have bytes to fetch have outstanding parts, and so two blocks.
LEMMA OwnBlocks ==
  ASSUME IInv, late # "stray", ctx = "live", NEW v \in Workers, NEW w \in Workers, v # w, Filling(v), Filling(w)
  PROVE  worker[v].ch.buf # worker[w].ch.buf
<1>1. TypeOK /\ StartOfNext /\ open /\ HeldInv /\ OneHolder  BY DEF IInv, PhaseInv, PlaceInv
<1>2. ASSUME NEW x \in Workers, Filling(x) PROVE Holds(x) /\ Linked(worker[x].ch)
  <2>1. Holds(x) /\ HeldOk(worker[x].ch)  BY <1>1, <1>2 DEF Filling, Holding, Holds, HoldingPcs, HeldInv
  <2>2. worker[x].ch.got \in Int /\ worker[x].ch.size \in Int  BY <1>1, WorkerFields, ChunkFields, Sizes
  <2>3. worker[x].ch.got # worker[x].ch.size  BY <1>2, <2>2 DEF Filling, Over
  <2> QED  BY <2>1, <2>3 DEF HeldOk
<1>3. worker[v].ch.id # worker[w].ch.id  BY <1>1, <1>2 DEF OneHolder
<1>4. /\ worker[v].ch.id \in Outstanding /\ worker[v].ch.buf = BlockOf(worker[v].ch.id)
      /\ worker[w].ch.id \in Outstanding /\ worker[w].ch.buf = BlockOf(worker[w].ch.id)
  BY <1>2 DEF Linked
<1> QED  BY <1>1, <1>3, <1>4, Distinct

LEMMA HasOneHolder == IInv => PartHasOneHolder
BY OnePlace, OwnBlocks DEF PartHasOneHolder

\* While one outstanding part is not in the channel the channel is not full: what
\* it holds are different outstanding parts, and there are never more than
\* Concurrent of them.
LEMMA RoomInChannel ==
  ASSUME IInv, open, late = "none", NEW i \in Outstanding, \A k \in 1 .. Len(chan) : chan[k].id # i
  PROVE  Len(chan) < Capacity
<1>1. /\ TypeOK /\ StartOfNext /\ QueuedInv /\ OneHolder /\ CountInv /\ Fresh
  BY DEF IInv, PlaceInv
<1>2. /\ next \in Nat /\ rd.pos \in Nat /\ Concurrent \in Nat
      /\ Slack \in Nat /\ ToStart \in Nat
  BY <1>1, Counts
<1>3. next - rd.pos <= Concurrent  BY <1>1, <1>2 DEF CountInv
<1>4. Len(chan) \in Nat  BY <1>1, Types
<1> DEFINE S == 1 .. Len(chan)
           T == Outstanding \ {i}
           f == [k \in S |-> chan[k].id]
<1>5. IsFiniteSet(S) /\ Cardinality(S) = Len(chan)
  <2>1. IsFiniteSet(1 .. Len(chan)) /\ Cardinality(1 .. Len(chan)) = IF 1 > Len(chan) THEN 0 ELSE Len(chan) - 1 + 1
    BY <1>4, FS_Interval
  <2> QED  BY <1>4, <2>1
<1>6. IsFiniteSet(T) /\ Cardinality(T) = next - rd.pos - 1
  <2>1. rd.pos <= i /\ i <= next - 1 /\ i \in Int  BY <1>2 DEF Outstanding
  <2>2. IsFiniteSet(Outstanding) /\ Cardinality(Outstanding) = next - 1 - rd.pos + 1
    <3>1. rd.pos \in Int /\ next - 1 \in Int  BY <1>2
    <3>2. /\ IsFiniteSet(rd.pos .. next - 1)
          /\ Cardinality(rd.pos .. next - 1) = IF rd.pos > next - 1 THEN 0 ELSE next - 1 - rd.pos + 1
      BY <3>1, FS_Interval
    <3> QED  BY <1>2, <2>1, <3>2 DEF Outstanding
  <2>3. IsFiniteSet(T) /\ Cardinality(T) = Cardinality(Outstanding) - 1
    BY <2>2, FS_RemoveElement
  <2> QED  BY <1>2, <2>2, <2>3
<1>7. f \in [S -> T]
  <2>1. SUFFICES ASSUME NEW k \in S PROVE chan[k].id \in Outstanding
    OBVIOUS
  <2>2. HeldOk(chan[k]) /\ chan[k].got < chan[k].size  BY <1>1 DEF QueuedInv, Fresh
  <2>3. chan[k].got \in Int /\ chan[k].size \in Int
    <3> DEFINE c == chan[k]
    <3>1. c \in Chunk  BY <1>1, Types, Queue
    <3> HIDE DEF c
    <3>2. c.got \in Nat /\ c.size \in 0 .. part /\ part \in Nat  BY <1>1, <3>1, ChunkFields, Sizes
    <3>3. c.got \in Int /\ c.size \in Int  BY <3>2
    <3> QED  BY <3>3 DEF c
  <2> QED  BY <2>2, <2>3 DEF HeldOk, Linked
<1>8. ~ \E k, l \in S : k # l /\ f[k] = f[l]  BY <1>1 DEF OneHolder
<1>9. ~(Cardinality(T) < Cardinality(S))
  <2> HIDE DEF S, T, f
  <2> QED  BY <1>5, <1>6, <1>7, <1>8, FS_PigeonHole
<1>10. Len(chan) <= next - rd.pos - 1  BY <1>2, <1>4, <1>5, <1>6, <1>9
<1> QED  BY <1>2, <1>3, <1>4, <1>10 DEF Capacity

LEMMA NeverWaits == IInv => SendNeverWaits
<1> SUFFICES ASSUME IInv, late = "none"
             PROVE  /\ mu # "free" => Len(chan) < Capacity
                    /\ \A w \in Workers : At(w, "requeue") /\ ctx = "live" => Len(chan) < Capacity
  BY DEF SendNeverWaits
<1>1. TypeOK /\ StartOfNext /\ PhaseInv /\ Fresh  BY DEF IInv
<1>2. next \in Nat /\ rd.pos \in Nat  BY <1>1, Counts
<1>3. ASSUME mu # "free" PROVE Len(chan) < Capacity
  <2>1. open /\ rd.pos < next  BY <1>1, <1>3 DEF PhaseInv
  <2>2. next - 1 \in Outstanding  BY <1>2, <2>1 DEF Outstanding
  <2>3. \A k \in 1 .. Len(chan) : chan[k].id # next - 1
    BY <1>3, <2>1 DEF IInv, PlaceInv, SendingInv
  <2> QED  BY <2>1, <2>2, <2>3, RoomInChannel
<1>4. ASSUME NEW w \in Workers, At(w, "requeue"), ctx = "live" PROVE Len(chan) < Capacity
  <2>1. open  BY <1>1, <1>4 DEF PhaseInv
  <2>2. Holds(w)  BY <1>4 DEF At, Holds, HoldingPcs
  <2>3. HeldOk(worker[w].ch) /\ worker[w].ch.got < worker[w].ch.size
    BY <1>1, <1>4, <2>1, <2>2 DEF IInv, PlaceInv, HeldInv, Fresh, At
  <2>6. worker[w].ch.got \in Int /\ worker[w].ch.size \in Int  BY <1>1, WorkerFields, ChunkFields, Sizes
  <2>4. worker[w].ch.id \in Outstanding  BY <2>3, <2>6 DEF HeldOk, Linked
  <2>5. \A k \in 1 .. Len(chan) : chan[k].id # worker[w].ch.id
    BY <2>1, <2>2 DEF IInv, PlaceInv, OneHolder
  <2> QED  BY <2>1, <2>4, <2>5, RoomInChannel
<1> QED  BY <1>3, <1>4

\* Until the download is cancelled a dispatched part that has not arrived is in
\* the channel, on its way into it or with one worker, and never in two places.
THEOREM PartsAreHeldOnce == Spec => []PartHasOneHolder
  BY HasOneHolder, Invariance, PTL

\* Nobody waits for room in chunkCh while holding d.mu, or while giving a part of
\* a live download to another worker.
THEOREM ChannelHasRoom == Spec => []SendNeverWaits
  BY NeverWaits, Invariance, PTL
=============================================================================
