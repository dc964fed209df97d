------------------------------ MODULE PartSizes ------------------------------
(***************************************************************************)
(* internal/net/request.go: how download and sendChunkTask cut a range of  *)
(* len bytes into parts of at most part bytes.  The odd bytes go into the  *)
(* first part, for videos that start with their index, unless that would   *)
(* make it shorter than half a part: then the second part gives it some.   *)
(***************************************************************************)
EXTENDS Integers

CONSTANTS Requests   \* the values of <<params.Range.Length, cfg.PartSize>>

ASSUME PartSizesAssumption ==
  Requests \subseteq (Nat \ {0}) \X (Nat \ {0})

VARIABLES
  len, part,  \* the request
  next,       \* d.nextChunk
  pos         \* d.pos, from the start of the range

partVars == <<len, part, next, pos>>

\* Only a range longer than one part is cut (maxPart # 1).
PartInit ==
  /\ \E q \in Requests : len = q[1] /\ part = q[2]
  /\ len > part
  /\ next = 0
  /\ pos = 0

maxPart == (len + part - 1) \div part

firstSize == len % part
minSize   == part \div 2

\* Bug: the second part does not give up what the first one gained.
BugPartSize(i) ==
  IF i = 0 /\ firstSize > 0
    THEN IF firstSize > minSize THEN firstSize ELSE minSize
    ELSE part

\* finalSize of part i
PartSize(i) ==
  IF i = 0 /\ firstSize > 0
    THEN IF firstSize > minSize THEN firstSize ELSE minSize
  ELSE IF i = 1 /\ firstSize > 0 /\ firstSize < minSize
    THEN part + (firstSize - minSize)
  ELSE part

\* sendChunkTask dispatches part next.
Dispatch ==
  /\ pos < len
  /\ pos' = pos + PartSize(next)
  /\ next' = next + 1
  /\ UNCHANGED <<len, part>>

PartSpec == PartInit /\ [][Dispatch]_partVars

-----------------------------------------------------------------------------
(* Properties                                                              *)

\* Every part that is dispatched fits its block, and is not empty: Reset refuses
\* a limit above the block's size, and a Range header of no bytes asks for all.
EveryPartFits == pos < len => PartSize(next) \in 1 .. part

\* The parts cover the range exactly: the last one ends at its end, and it is the
\* part after which multiReadCloser reports EOF (maxPart).
PartsCoverRange ==
  /\ pos <= len
  /\ pos = len <=> next = maxPart

\* The parts tile the range.
PartsTile == EveryPartFits /\ PartsCoverRange

\* The inductive invariant: where part next starts.  All parts from the second
\* on end a whole number of parts before the end of the range.
StartOfNext ==
  /\ len \in Nat \ {0} /\ part \in Nat \ {0} /\ len > part
  /\ next \in 0 .. maxPart
  /\ pos = IF next = 0 THEN 0
           ELSE IF next = 1 THEN PartSize(0)
           ELSE len - (maxPart - next) * part
=============================================================================
