---------------------- MODULE UnboundedBufferInvariant ----------------------
(***************************************************************************)
(* Why UnboundedBuffer keeps its memory in order and loses no value.       *)
(*                                                                         *)
(* A ring holds a queue: the slots in use follow each other from pread to  *)
(* pwrite, round the end. The values on their way are those of the rings   *)
(* of the chain, one ring after the other, and only the first and the last *)
(* of these may be empty. That is why the reader may leave its ring once   *)
(* it has found it empty after it has seen that the writer has left it.    *)
(***************************************************************************)
EXTENDS UnboundedBuffer

\* The slot j places behind the reader's, in a ring of sz slots.
Slot(b, sz, j) == IF b.pread + j < sz THEN b.pread + j ELSE b.pread + j - sz

\* The n slots from the reader's on are in use, and the writer's is the next.
Holds(b, sz, n) ==
  /\ \A j \in 1..sz : b.buf[Slot(b, sz, j - 1)] # Null <=> j <= n
  /\ b.pwrite = Slot(b, sz, n)

InOrder(b, sz) == \E n \in 0..sz : Holds(b, sz, n)

Held(b, sz) == CHOOSE n \in 0..sz : Holds(b, sz, n)

\* What a ring holds, the oldest first.
Queue(b, sz) == [j \in 1..Held(b, sz) |-> b.buf[Slot(b, sz, j - 1)]]

----------------------------------------------------------------------------
\* A cache has an address once.
CachesInOrder ==
  /\ InOrder(bufcache, CacheSize) /\ IsInjective(Queue(bufcache, CacheSize))
  /\ InOrder(cache, CacheSize) /\ IsInjective(Queue(cache, CacheSize))

\* Where the writer and the reader are.
WriterKnows ==
  /\ writer.pc # "available" => pushed < Quota
  /\ writer.pc \in {"allocnode", "link", "switch"} => writer.t \in Buffers
  /\ writer.pc = "link" => writer.n \in Nodes /\ node[writer.n] = [data |-> writer.t, next |-> Null]
  /\ writer.pc = "switch" =>
       Len(Chain) > 1 /\ Chain[Len(Chain) - 1] = buf_w
  /\ writer.pc = "store" => IsAvailable(buffer[buf_w])

ReaderKnows ==
  /\ reader.pc \in {"again", "next_r", "oldnode", "release", "oldring"} => buf_r # buf_w
  /\ reader.pc \in {"next_r", "oldnode", "release", "oldring"} => IsEmpty(buffer[buf_r])
  /\ reader.pc = "oldring" => buffer[buf_r] = EmptyBuffer(size)
  /\ reader.pc = "oldnode" => reader.n \in Nodes /\ (writer.pc = "link" => reader.n # writer.n)

----------------------------------------------------------------------------
(* The values.                                                             *)

\* How many values came before those of queue k, if the first queue comes after r of
\* them and p have been pushed.
Before(queues, r, p, k) ==
  IF k = 1 THEN r ELSE IF queues[k] = <<>> THEN p ELSE queues[k][1] - 1

\* The queues hold r + 1, ..., p, and the first m of them are not empty, but for the
\* first of all.
Numbered(queues, r, p, m) ==
  \A k \in DOMAIN queues :
    /\ \A j \in DOMAIN queues[k] : queues[k][j] = Before(queues, r, p, k) + j
    /\ k > 1 /\ k <= m => queues[k] # <<>>
    /\ Before(queues, r, p, k) + Len(queues[k]) =
         IF k = Len(queues) THEN p ELSE Before(queues, r, p, k + 1)
    /\ Before(queues, r, p, k) + Len(queues[k]) <= p

Rings == [k \in DOMAIN Chain |-> Queue(buffer[Chain[k]], size)]

\* The last ring of the chain from which the writer has gone on, or is about to.
Passed ==
  IF writer.pc \in {"next_w", "allocnode", "link"} THEN Len(Chain) ELSE Len(Chain) - 1

ValuesInOrder ==
  /\ \A k \in DOMAIN received : received[k] = k
  /\ \A k \in DOMAIN Chain : InOrder(buffer[Chain[k]], size)
  /\ Numbered(Rings, Len(received), pushed, Passed)
  /\ writer.pc = "switch" => Rings[Len(Chain)] = <<>>

----------------------------------------------------------------------------
\* The inductive invariant.
IInv ==
  /\ TypeOK
  /\ MemoryInPlace
  /\ CachesInOrder
  /\ WriterKnows /\ ReaderKnows
  /\ ValuesInOrder
============================================================================
